SPECIFICATION Bounded
CONSTANTS
    Imsis = {i1, i2}
    Sdcch = {s1}
    Tch = {t1}
    Contexts = {x1, x2}
    Mtcs = {mtc1}
    MtSmss = {sms1}
    Mocs = {moc1}
    MoSmss = {mo1, mo2}
    Lurs = {lur1}
    MaxAnswers = 1
    MaxRepages = 1
    Mixes = {{moc1, mo1, x1, x2, i1}, {mtc1, x1, x2, i1, i2}, {sms1, mo1, mo2, x1, i1},
             {sms1, moc1, x1, i1, "repeat"}, {sms1, lur1, x1, i1, "repeat"},
             {sms1, mtc1, x1, i1, i2}}
CHECK_DEADLOCK FALSE
INVARIANTS
    TypeOK
    PointersAgree
    OneHome
    AttachedIsServed
PROPERTIES
    SharedContextSurvives
    EveryMTIsTaken
