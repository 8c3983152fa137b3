SPECIFICATION Spec
CONSTANTS
    e1 = e1
    e2 = e2
    e3 = e3
    e4 = e4
    e5 = e5
    main_c = main_c
    test_c = test_c
    one_h = one_h
    two_h = two_h
    own_h = own_h
    gen_h = gen_h
    mod_h = mod_h
    lib_so = lib_so
    lib_so_0 = lib_so_0
    lib_gir = lib_gir
    src_dir = src_dir
    st1 = st1
    st2 = st2
    o1 = o1
    o2 = o2
    o3 = o3
    all_files = all_files
    res_qrc = res_qrc
    data_txt = data_txt
    page_txt = page_txt
    top = top
    sub_dir = sub_dir
    lib_dir = lib_dir
    pkg_dir = pkg_dir
    third_dir = third_dir
    main_py = main_py
    util_py = util_py
    lib_py = lib_py
    Edge = {e1, e2, e3, e4, e5}
    Disk = Disk
    NoEdge = NoEdge
    Path <- Paths
    Worlds <- MCWorlds
    Editable = {one_h}
    MaxEdits = 1
    ImplicitLimit = 2
    MacroArmScanCap = 6
    TreeLimit = 2
    DataLimit = 3
    ClosureLimit = 3
INVARIANTS
    RegistryFollowsProducer
    NoStaleInput
    HeadersFromTheirMakers
    OneContentPerPath
    SurvivorsReferenced
    RegisteredAreWritten
    CoversSound
    TargetsResolved
PROPERTY
    Returns
