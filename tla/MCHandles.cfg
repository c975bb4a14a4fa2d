SPECIFICATION Spec
CONSTANTS
    l1 = l1
    l2 = l2
    l3 = l3
    NoLib = NoLib
    Scheds = {s1, s2}
    Threads = {th1, th2}
    Libs <- ThreeLibs
    NameOf <- MCNameOf
    ThreadFlags <- MCThreadFlags
INVARIANTS
    PolicyCodeMapped
    QpuOutlivesHolders
PROPERTIES
    EverythingReleased
