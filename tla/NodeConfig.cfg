CONSTANTS
    NetIds = {Validator, Public}
    ValidatorNet = Validator
    PublicNet = Public
    Dirs = {d1, d2}
    DefaultDir = d1
    MaxNets = 2
    NoNet = NoNet
    NoConfig = NoConfig
SPECIFICATION Spec
INVARIANT Loadable
PROPERTY SaveLoadRoundTrip
