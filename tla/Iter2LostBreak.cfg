SPECIFICATION Spec
CONSTANTS
    c1 = c1
    c2 = c2
    c3 = c3
    c4 = c4
    c5 = c5
    Configs <- MCConfigs4
    Locs <- MCLocs
    Cover <- MCCover4
    InitialConfigs <- MCOneCovering4
    SeedConfigs <- MCNoSeed
    Modes = {"cover"}
    NRand = 2
    Rounds <- Unlimited
    save_each_iteration = TRUE
    max_terminate_counter = 3
    p_thr_messed_up_kickin = 2
    p_thr_stuck_kickin = 3
    p_max_messed_up = 2
    p_max_stuck = 2
    p_messed_up_factor = 1
    p_lim_times = 2
    p_consecutive_success = 1
    p_thr_messed_up_switch = 1
    p_messed_lim_times = 2
    p_messed_consecutive_success = 1
    MaxCex = 1
    Signals = {"SIGINT", "SIGRTMIN+2"}
    MaxSignals = 2
INVARIANTS
    ChecksHold
