SPECIFICATION Spec
CONSTANTS
    Handler = {h1, h2}
    Wpt <- MCWpt
    Key <- MCKey
    KeyOf <- MCKeyOf
    Exp <- MCExp
    Skew = 2
    MaxTTL = 2
    MaxNow = 7
SYMMETRY HandlerSymmetry
INVARIANTS
    TypeOK
    ReplayOnlyAfterWindow
