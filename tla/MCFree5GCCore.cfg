CONSTANTS
    Slices = {s1, s2}
    Dnns = {d1, d2}
    Tacs = {t1, t2}
    UpfTacs = {t1, t2}
    LinkedTacs = {t1}
    MaxDay0 = 2
    MaxOps = 3
    NoTa = NoTa
SPECIFICATION Spec
INVARIANTS F5TypeOK DeletedSliceGone AmfBackedBySmf
CHECK_DEADLOCK FALSE
