SPECIFICATION FairSpec
CONSTANTS
    w1 = w1  w2 = w2  w3 = w3  w4 = w4  c1 = c1  c2 = c2  u1 = u1  u2 = u2
    Main = Main  NoRun = NoRun
    MaxJobs = 2
    Urls = {u1}
    MaxRecoveries = 1
    Clients = {c1}
    Workers = {w1, w2}
    Ops = {"AddURL", "Delete"}
    MaxConcurrent = 1
    MaxRequeues = 1
    PageSize = 2
    Keep = 1
    MaxCrashes = 1
PROPERTIES EveryJobSettles
