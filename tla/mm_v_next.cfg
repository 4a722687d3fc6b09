SPECIFICATION Spec
CONSTANTS
    Imsis = {i1}
    Sdcch = {s1, s2}
    Tch = {t1}
    Contexts = {x1, x2, x3}
    Mtcs = {}
    MtSmss = {}
    Mocs = {moc1, moc2}
    MoSmss = {}
    Lurs = {}
    MaxAnswers = 0
    MaxRepages = 0
    Mixes = {}
SYMMETRY Alike
CHECK_DEADLOCK FALSE
PROPERTIES
    TargetKeepsContext
