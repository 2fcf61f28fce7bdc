SPECIFICATION FairSpec
CONSTANTS
    t1 = t1  t2 = t2
    Core = Core  Kit = Kit  Plug = Plug  Ext = Ext
    A = A  B = B  C = C  D = D  catA = catA  catB = catB  catD = catD
    None = None
    Threads = {t1, t2}
    Images = {Core, Kit, Plug, Ext}
    Classes = {A, B, C, D}
    Categories = {catA, catB, catD}
    NonlazyClasses <- ClassLists
    NonlazyCategories <- CategoryLists
    Super <- Hierarchy
    CategoryClass <- Extends
    Needs <- Dependencies
    MaxOpens = 7
INVARIANTS LoadInv LoadsInOrder
PROPERTIES LoadingEnds
