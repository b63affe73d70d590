SPECIFICATION FairSpec
CONSTANTS
    p1 = p1  p2 = p2
    top = top  sub = sub  file = file  new = new
    out = out  other = other  stray = stray
    Removers = {p1, p2}
    Nodes = {top, sub, file, new, out, other, stray}
    Top = top
    Parent <- ParentOf
    Dirs = {top, sub, other}
    Target <- TargetOf
    Inside = {top, sub, file, new, out}
    Late = {new}
    Refusable <- MayRefuse
    Swappable = {sub}
    Under <- BelowSub
    Elsewhere = {file, new}
INVARIANTS
    OutsideUntouched
    CleanMeansGone
PROPERTIES
    KeepsContract
    PassesEnd
