SPECIFICATION Spec
CONSTANTS
    s1 = s1
    s2 = s2
    e1 = e1
    e2 = e2
    authn = authn
    token = token
    all = all
    Subscribers = {s1, s2}
    Events = {e1}
    Categories = {authn, token, all}
    CategoryAll = all
    Category <- MCCategory
    Interests <- MCInterests
    Closers = {c1, c2}
PROPERTIES
    
    AcceptedIsHandled
    KeepsPromise
CHECK_DEADLOCK FALSE
