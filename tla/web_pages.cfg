SPECIFICATION FairSpec
CONSTANTS
    None = None
    Query = {q1, q2}
    MaxSearches = 2
    Person = {p1, p2}
    Report = {"iot", "financial"}
    CategoryOf <- MCCategoryOf
    Name = {n1, n2}
    MaxJobs = 3
    MaxSaves = 2
    MaxCalls = 1
    s1 = s1
    s2 = s2
    s3 = s3
    Ship = {s1, s2, s3}
    Placed = {s1, s2}
    List <- MCList
    Cycle = 2
    MaxVersion = 3
INVARIANTS
    PagesTypeOK
    FrameIsHonest
    FormsTellTheTruth
    ShownIsComplete
    LayersAreFresh
PROPERTIES
    
    PagesComeBack
CHECK_DEADLOCK FALSE
