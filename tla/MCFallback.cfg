SPECIFICATION UpdSpec
CONSTANTS
    p1 = p1
    p2 = p2
    t1 = t1
    img1 = img1
    img2 = img2
    Plans <- MCPlans
    Target <- MCTarget
    Image <- MCImage
    Policies <- FallbackPolicies
    Original = original
    Damaged = damaged
    Torn = torn
    Missing = missing
    BreakerMax = 2
INVARIANT DoneMeansInstalled
