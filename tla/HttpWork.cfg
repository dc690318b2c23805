SPECIFICATION FairSpec
CONSTANTS
    Miners = {m1, m2}
    Retries = Forever
    Forever = Forever
    Nobody = Nobody
PROPERTY WorkArrives
