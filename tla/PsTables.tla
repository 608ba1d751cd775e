------------------------------ MODULE PsTables ------------------------------
(***************************************************************************)
(* The tables of ps: the columns of output.c with the heading, the print    *)
(* function and the rows each one is for, the macros that stand for several *)
(* columns, the one-letter codes of AIX formats and of the old sort option, *)
(* and the library items each print function asks for when it is called     *)
(* without a buffer (setREL, chkREL).  Widths, vendors and the text that a   *)
(* print function makes of its items are left out.                           *)
(***************************************************************************)
EXTENDS TLC

(* <<spec, head, pr, rows>>: rows is "TO" for thread rows only, "PO" for     *)
(* process rows only, "ET" and "AN" for both.  The first half of             *)
(* format_array.                                                             *)
format_array_AM ==
  { <<"%cpu","%CPU","pcpu","ET">>, <<"%mem","%MEM","pmem","PO">>, <<"_left","LLLLLLLL","t_left","ET">>,
    <<"_left2","L2L2L2L2","t_left2","ET">>, <<"_right","RRRRRRRRRRR","t_right","ET">>,
    <<"_right2","R2R2R2R2R2R","t_right2","ET">>, <<"_unlimited","U","t_unlimited","ET">>,
    <<"_unlimited2","U2","t_unlimited2","ET">>, <<"acflag","ACFLG","nop","AN">>,
    <<"acflg","ACFLG","nop","AN">>, <<"addr","ADDR","nop","AN">>, <<"addr_1","ADDR","nop","AN">>,
    <<"ag_id","AGID","agid","AN">>, <<"ag_nice","AGNI","agnice","AN">>, <<"alarm","ALARM","nop","AN">>,
    <<"argc","ARGC","nop","PO">>, <<"args","COMMAND","args","PO">>, <<"atime","TIME","time","ET">>,
    <<"blocked","BLOCKED","sigmask","TO">>, <<"bnd","BND","nop","TO">>, <<"bsdstart","START","bsdstart","ET">>,
    <<"bsdtime","TIME","bsdtime","ET">>, <<"c","C","c","ET">>, <<"caught","CAUGHT","sigcatch","TO">>,
    <<"cgname","CGNAME","cgname","PO">>, <<"cgroup","CGROUP","cgroup","PO">>,
    <<"cgroupns","CGROUPNS","cgroupns","ET">>, <<"class","CLS","class","TO">>, <<"cls","CLS","class","TO">>,
    <<"cmaj_flt","-","nop","AN">>, <<"cmd","CMD","args","PO">>, <<"cmin_flt","-","nop","AN">>,
    <<"cnswap","-","nop","AN">>, <<"comm","COMMAND","comm","PO">>, <<"command","COMMAND","args","PO">>,
    <<"context","CONTEXT","context","ET">>, <<"cp","CP","cp","ET">>, <<"cpu","CPU","psr","TO">>,
    <<"cpuid","CPUID","psr","TO">>, <<"cputime","TIME","time","ET">>, <<"cputimes","TIME","times","ET">>,
    <<"ctid","CTID","nop","ET">>, <<"cuc","%CUC","utilization_c","AN">>, <<"cursig","CURSIG","nop","AN">>,
    <<"cutime","-","nop","AN">>, <<"cuu","%CUU","utilization","AN">>, <<"cwd","CWD","nop","AN">>,
    <<"docker","DOCKER","docker","AN">>, <<"drs","DRS","drs","PO">>, <<"dsiz","DSIZ","dsiz","PO">>,
    <<"egid","EGID","egid","ET">>, <<"egroup","EGROUP","egroup","ET">>, <<"eip","EIP","eip","TO">>,
    <<"emul","EMUL","nop","PO">>, <<"end_code","E_CODE","nop","PO">>,
    <<"environ","ENVIRONMENT","environ","PO">>, <<"esp","ESP","esp","TO">>, <<"etime","ELAPSED","etime","ET">>,
    <<"etimes","ELAPSED","etimes","ET">>, <<"euid","EUID","euid","ET">>, <<"euser","EUSER","euser","ET">>,
    <<"exe","EXE","exe","PO">>, <<"f","F","flag","ET">>, <<"fds","FDS","fds","PO">>,
    <<"fgid","FGID","fgid","ET">>, <<"fgroup","FGROUP","fgroup","ET">>, <<"flag","F","flag","ET">>,
    <<"flags","F","flag","ET">>, <<"fname","COMMAND","fname","PO">>, <<"fsgid","FSGID","fgid","ET">>,
    <<"fsgroup","FSGROUP","fgroup","ET">>, <<"fsuid","FSUID","fuid","ET">>, <<"fsuser","FSUSER","fuser","ET">>,
    <<"fuid","FUID","fuid","ET">>, <<"fuser","FUSER","fuser","ET">>, <<"gid","GID","egid","ET">>,
    <<"group","GROUP","egroup","ET">>, <<"htprv","HTPRV","hugetblprv","PO">>,
    <<"htshr","HTSHR","hugetblshr","PO">>, <<"ignored","IGNORED","sigignore","TO">>,
    <<"inblk","INBLK","nop","AN">>, <<"inblock","INBLK","nop","AN">>, <<"intpri","PRI","opri","TO">>,
    <<"ipcns","IPCNS","ipcns","ET">>, <<"jid","JID","nop","PO">>, <<"jobc","JOBC","nop","AN">>,
    <<"ktrace","KTRACE","nop","AN">>, <<"ktracep","KTRACEP","nop","AN">>, <<"label","LABEL","context","ET">>,
    <<"lastcpu","C","psr","TO">>, <<"lim","LIM","lim","AN">>, <<"login","LOGNAME","nop","AN">>,
    <<"logname","LOGNAME","nop","AN">>, <<"longtname","TTY","tty8","PO">>,
    <<"lsession","SESSION","sd_session","ET">>, <<"lstart","STARTED","lstart","ET">>,
    <<"luid","LUID","luid","ET">>, <<"luser","LUSER","nop","ET">>, <<"lwp","LWP","tasks","TO">>,
    <<"lxc","LXC","lxcname","ET">>, <<"m_drs","DRS","drs","PO">>, <<"m_dt","DT","nop","PO">>,
    <<"m_lrs","LRS","nop","PO">>, <<"m_resident","RES","nop","PO">>, <<"m_share","SHRD","nop","PO">>,
    <<"m_size","SIZE","size","PO">>, <<"m_swap","SWAP","nop","PO">>, <<"m_trs","TRS","trs","PO">>,
    <<"machine","MACHINE","sd_machine","ET">>, <<"maj_flt","MAJFL","majflt","AN">>,
    <<"majflt","MAJFLT","majflt","AN">>, <<"min_flt","MINFL","minflt","AN">>,
    <<"minflt","MINFLT","minflt","AN">>, <<"mntns","MNTNS","mntns","ET">>, <<"msgrcv","MSGRCV","nop","AN">>,
    <<"msgsnd","MSGSND","nop","AN">>, <<"mwchan","MWCHAN","nop","TO">> }

(* The second half of format_array. *)
format_array_NZ ==
  { <<"netns","NETNS","netns","ET">>, <<"ni","NI","nice","TO">>, <<"nice","NI","nice","TO">>,
    <<"nivcsw","IVCSW","nop","AN">>, <<"nlwp","NLWP","nlwp","PO">>, <<"nsignals","NSIGS","nop","AN">>,
    <<"nsigs","NSIGS","nop","AN">>, <<"nswap","NSWAP","nop","AN">>, <<"numa","NUMA","numa","AN">>,
    <<"nvcsw","VCSW","nop","AN">>, <<"nwchan","WCHAN","nop","TO">>, <<"oom","OOM","oom","TO">>,
    <<"oomadj","OOMADJ","oom_adj","TO">>, <<"opri","PRI","opri","TO">>, <<"osz","SZ","nop","PO">>,
    <<"oublk","OUBLK","nop","AN">>, <<"oublock","OUBLK","nop","AN">>, <<"ouid","OWNER","sd_ouid","ET">>,
    <<"p_ru","P_RU","nop","AN">>, <<"paddr","PADDR","nop","AN">>, <<"pagein","PAGEIN","majflt","AN">>,
    <<"pcap","PCAP","pcap","TO">>, <<"pcaps","PCAPS","pcaps","TO">>, <<"pcpu","%CPU","pcpu","ET">>,
    <<"pending","PENDING","sig","ET">>, <<"pgid","PGID","pgid","PO">>, <<"pgrp","PGRP","pgid","PO">>,
    <<"pid","PID","procs","PO">>, <<"pidns","PIDNS","pidns","ET">>, <<"pmem","%MEM","pmem","PO">>,
    <<"poip","-","nop","AN">>, <<"policy","POL","class","TO">>, <<"ppid","PPID","ppid","PO">>,
    <<"pri","PRI","pri","TO">>, <<"pri_api","API","pri_api","TO">>, <<"pri_bar","BAR","pri_bar","TO">>,
    <<"pri_baz","BAZ","pri_baz","TO">>, <<"pri_foo","FOO","pri_foo","TO">>,
    <<"priority","PRI","priority","TO">>, <<"prmgrp","PRMGRP","nop","PO">>, <<"prmid","PRMID","nop","PO">>,
    <<"project","PROJECT","nop","PO">>, <<"projid","PROJID","nop","PO">>, <<"pset","PSET","nop","TO">>,
    <<"psr","PSR","psr","TO">>, <<"pss","PSS","pss","PO">>, <<"psxpri","PPR","nop","TO">>,
    <<"rbytes","RBYTES","rbytes","TO">>, <<"rchars","RCHARS","rchars","TO">>, <<"re","RE","nop","AN">>,
    <<"resident","RES","nop","PO">>, <<"rgid","RGID","rgid","ET">>, <<"rgroup","RGROUP","rgroup","ET">>,
    <<"rlink","RLINK","nop","AN">>, <<"rops","ROPS","rops","TO">>, <<"rss","RSS","rss","PO">>,
    <<"rssize","RSS","rss","PO">>, <<"rsz","RSZ","rss","PO">>, <<"rtprio","RTPRIO","rtprio","TO">>,
    <<"ruid","RUID","ruid","ET">>, <<"ruser","RUSER","ruser","ET">>, <<"s","S","s","TO">>,
    <<"sched","SCH","sched","TO">>, <<"scnt","SCNT","nop","AN">>, <<"scount","SC","nop","AN">>,
    <<"seat","SEAT","sd_seat","ET">>, <<"sess","SESS","sess","PO">>, <<"session","SESS","sess","PO">>,
    <<"sgi_p","P","sgi_p","TO">>, <<"sgi_rss","RSS","rss","PO">>, <<"sgid","SGID","sgid","ET">>,
    <<"sgroup","SGROUP","sgroup","ET">>, <<"share","-","nop","PO">>, <<"sid","SID","sess","PO">>,
    <<"sig","PENDING","sig","ET">>, <<"sig_block","BLOCKED","sigmask","TO">>,
    <<"sig_catch","CATCHED","sigcatch","TO">>, <<"sig_ignore","IGNORED","sigignore","TO">>,
    <<"sig_pend","SIGNAL","sig","ET">>, <<"sigcatch","CAUGHT","sigcatch","TO">>,
    <<"sigignore","IGNORED","sigignore","TO">>, <<"sigmask","BLOCKED","sigmask","TO">>,
    <<"size","SIZE","swapable","PO">>, <<"sl","SL","nop","AN">>, <<"slice","SLICE","sd_slice","ET">>,
    <<"spid","SPID","tasks","TO">>, <<"stackp","STACKP","stackp","PO">>, <<"start","STARTED","start","ET">>,
    <<"start_code","S_CODE","nop","PO">>, <<"start_stack","STACKP","stackp","PO">>,
    <<"start_time","START","stime","ET">>, <<"stat","STAT","stat","TO">>, <<"state","S","s","TO">>,
    <<"status","STATUS","nop","AN">>, <<"stime","STIME","stime","ET">>, <<"suid","SUID","suid","ET">>,
    <<"supgid","SUPGID","supgid","PO">>, <<"supgrp","SUPGRP","supgrp","PO">>, <<"suser","SUSER","suser","ET">>,
    <<"svgid","SVGID","sgid","ET">>, <<"svgroup","SVGROUP","sgroup","ET">>, <<"svuid","SVUID","suid","ET">>,
    <<"svuser","SVUSER","suser","ET">>, <<"systime","SYSTEM","nop","ET">>, <<"sz","SZ","sz","PO">>,
    <<"taskid","TASKID","nop","TO">>, <<"tdev","TDEV","nop","AN">>, <<"tgid","TGID","procs","PO">>,
    <<"thcount","THCNT","nlwp","PO">>, <<"tid","TID","tasks","TO">>, <<"time","TIME","time","ET">>,
    <<"timens","TIMENS","timens","ET">>, <<"timeout","TMOUT","nop","AN">>, <<"times","TIME","times","ET">>,
    <<"tmout","TMOUT","nop","AN">>, <<"tname","TTY","tty8","PO">>, <<"tpgid","TPGID","tpgid","PO">>,
    <<"trs","TRS","trs","PO">>, <<"trss","TRSS","trs","PO">>, <<"tsess","TSESS","nop","PO">>,
    <<"tsession","TSESS","nop","PO">>, <<"tsid","TSID","nop","PO">>, <<"tsig","PENDING","tsig","ET">>,
    <<"tsiz","TSIZ","tsiz","PO">>, <<"tt","TT","tty8","PO">>, <<"tty","TT","tty8","PO">>,
    <<"tty4","TTY","tty4","PO">>, <<"tty8","TTY","tty8","PO">>, <<"u_procp","UPROCP","nop","AN">>,
    <<"ucmd","CMD","comm","PO">>, <<"ucomm","COMMAND","comm","PO">>, <<"uid","UID","euid","ET">>,
    <<"uid_hack","UID","euser","ET">>, <<"umask","UMASK","nop","AN">>, <<"uname","USER","euser","ET">>,
    <<"unit","UNIT","sd_unit","ET">>, <<"upr","UPR","nop","TO">>, <<"uprocp","UPROCP","nop","AN">>,
    <<"user","USER","euser","ET">>, <<"userns","USERNS","userns","ET">>, <<"usertime","USER","nop","ET">>,
    <<"usrpri","UPR","nop","TO">>, <<"uss","USS","uss","PO">>, <<"util","C","c","ET">>,
    <<"utime","UTIME","nop","ET">>, <<"utsns","UTSNS","utsns","ET">>, <<"uunit","UUNIT","sd_uunit","ET">>,
    <<"vm_data","DATA","nop","PO">>, <<"vm_exe","EXE","nop","PO">>, <<"vm_lib","LIB","nop","PO">>,
    <<"vm_lock","LCK","nop","PO">>, <<"vm_stack","STACK","nop","PO">>, <<"vsize","VSZ","vsz","PO">>,
    <<"vsz","VSZ","vsz","PO">>, <<"wbytes","WBYTES","wbytes","TO">>, <<"wcbytes","WCBYTES","wcbytes","TO">>,
    <<"wchan","WCHAN","wchan","TO">>, <<"wchars","WCHARS","wchars","TO">>, <<"wname","WCHAN","wchan","TO">>,
    <<"wops","WOPS","wops","TO">>, <<"xstat","XSTAT","nop","AN">>, <<"zone","ZONE","context","ET">>,
    <<"zoneid","ZONEID","nop","ET">> }

(* The macros: a name for several columns. *)
macro_array ==
  [ DFMT |-> <<"pid","tname","state","cputime","cmd">>,
    DefBSD |-> <<"pid","tname","stat","bsdtime","args">>,
    DefSysV |-> <<"pid","tname","time","cmd">>,
    END_BSD |-> <<"state","tname","cputime","comm">>,
    END_SYS5 |-> <<"state","tname","time","command">>,
    F5FMT |-> <<"uname","pid","ppid","c","start","tname","time","cmd">>,
    FB_ |-> <<"pid","tt","stat","time","command">>,
    FB_j |-> <<"user","pid","ppid","pgid","sess","jobc","stat","tt","time","command">>,
    FB_l |-> <<"uid","pid","ppid","cpu","pri","nice","vsz","rss","wchan","stat","tt","time","command">>,
    FB_u |-> <<"user","pid","pcpu","pmem","vsz","rss","tt","stat","start","time","command">>,
    FB_v |-> <<"pid","stat","time","sl","re","pagein","vsz","rss","lim","tsiz","pcpu","pmem","command">>,
    FD_ |-> <<"pid","tty","time","comm">>,
    FD_f |-> <<"user","pid","ppid","start_time","tty","time","comm">>,
    FD_fj |-> <<"user","pid","ppid","start_time","tty","time","pgid","sid","comm">>,
    FD_j |-> <<"pid","tty","time","pgid","sid","comm">>,
    FD_l |-> <<"flags","state","uid","pid","ppid","priority","nice","vsz","wchan","tty","time","comm">>,
    FD_lj |-> <<"flags","state","uid","pid","ppid","priority","nice","vsz","wchan","tty","time","pgid","sid","comm">>,
    FL5FMT |-> <<"f","state","uid","pid","ppid","pcpu","pri","nice","rss","wchan","start","time","command">>,
    FLASK_context |-> <<"pid","context","command">>,
    HP_ |-> <<"pid","tty","time","comm">>,
    HP_f |-> <<"user","pid","ppid","cpu","stime","tty","time","args">>,
    HP_fl |-> <<"flags","state","user","pid","ppid","cpu","intpri","nice","addr","sz","wchan","stime","tty","time","args">>,
    HP_l |-> <<"flags","state","uid","pid","ppid","cpu","intpri","nice","addr","sz","wchan","tty","time","comm">>,
    J390 |-> <<"pid","sid","pgrp","tname","atime","args">>,
    JFMT |-> <<"user","pid","ppid","pgid","sess","jobc","state","tname","cputime","command">>,
    L5FMT |-> <<"f","state","uid","pid","ppid","c","pri","nice","addr","sz","wchan","tt","time","ucmd">>,
    LFMT |-> <<"uid","pid","ppid","cp","pri","nice","vsz","rss","wchan","state","tname","cputime","command">>,
    OL_X |-> <<"pid","start_stack","esp","eip","timeout","alarm","stat","tname","bsdtime","args">>,
    OL_j |-> <<"ppid","pid","pgid","sid","tname","tpgid","stat","uid","bsdtime","args">>,
    OL_l |-> <<"flags","uid","pid","ppid","priority","nice","vsz","rss","wchan","stat","tname","bsdtime","args">>,
    OL_m |-> <<"pid","tname","majflt","minflt","m_trs","m_drs","m_size","m_swap","rss","m_share","vm_lib","m_dt","args">>,
    OL_s |-> <<"uid","pid","pending","sig_block","sig_ignore","caught","stat","tname","bsdtime","args">>,
    OL_u |-> <<"user","pid","pcpu","pmem","vsz","rss","tname","stat","start_time","bsdtime","args">>,
    OL_v |-> <<"pid","tname","stat","bsdtime","maj_flt","m_trs","m_drs","rss","pmem","args">>,
    RD_ |-> <<"pid","tname","state","bsdtime","comm">>,
    RD_f |-> <<"uid","pid","ppid","start_time","tname","bsdtime","args">>,
    RD_fj |-> <<"uid","pid","ppid","start_time","tname","bsdtime","pgid","sid","args">>,
    RD_j |-> <<"pid","tname","state","bsdtime","pgid","sid","comm">>,
    RD_l |-> <<"flags","state","uid","pid","ppid","priority","nice","wchan","tname","bsdtime","comm">>,
    RD_lj |-> <<"flags","state","uid","pid","ppid","priority","nice","wchan","tname","bsdtime","pgid","sid","comm">>,
    RUSAGE |-> <<"minflt","majflt","nswap","inblock","oublock","msgsnd","msgrcv","nsigs","nvcsw","nivcsw">>,
    SCHED |-> <<"user","pcpu","pri","usrpri","nice","psxpri","psr","policy","pset">>,
    SFMT |-> <<"uid","pid","cursig","sig","sigmask","sigignore","sigcatch","stat","tname","command">>,
    Std_f |-> <<"uid_hack","pid","ppid","c","stime","tname","time","cmd">>,
    Std_fl |-> <<"f","s","uid_hack","pid","ppid","c","opri","ni","addr","sz","wchan","stime","tname","time","cmd">>,
    Std_l |-> <<"f","s","uid","pid","ppid","c","opri","ni","addr","sz","wchan","tname","time","ucmd">>,
    THREAD |-> <<"user","pcpu","pri","scnt","wchan","usertime","systime">>,
    UFMT |-> <<"uname","pid","pcpu","pmem","vsz","rss","tt","state","start","time","command">>,
    VFMT |-> <<"pid","tt","state","time","sl","pagein","vsz","rss","pcpu","pmem","command">> ]

(* AIX format codes: the column of each letter (its heading is replaced). *)
aix_array ==
  [ C |-> "pcpu", G |-> "group", P |-> "ppid", U |-> "user", a |-> "args", c |-> "comm", g |-> "rgroup",
    n |-> "nice", p |-> "pid", r |-> "pgid", t |-> "etime", u |-> "ruser", x |-> "time", y |-> "tty",
    z |-> "vsz" ]

(* The letters of the old sort option O and the columns they stand for. *)
shortsort_array ==
  [ C |-> "pcpu", G |-> "tpgid", J |-> "cstime", M |-> "maj_flt", N |-> "cmaj_flt", P |-> "ppid",
    R |-> "resident", S |-> "share", T |-> "start_time", U |-> "uid", c |-> "cmd", f |-> "flags",
    g |-> "pgrp", j |-> "cutime", k |-> "utime", m |-> "min_flt", n |-> "cmin_flt", o |-> "session",
    p |-> "pid", r |-> "rss", s |-> "size", t |-> "tty", u |-> "user", v |-> "vsize", y |-> "priority" ]

(* Items of the print functions of commands and control groups. *)
PrNames ==
  [ nop |-> <<"noop">>, args |-> <<"CMDLINE","CMD","ENVIRON","STATE">>,
    comm |-> <<"CMDLINE","CMD","ENVIRON","STATE">>, cgname |-> <<"CGNAME">>, cgroup |-> <<"CGROUP">>,
    fname |-> <<"CMD">> ]

(* Items of the print functions of times and cpu use. *)
PrTimes ==
  [ etime |-> <<"TIME_ELAPSED">>, etimes |-> <<"TIME_ELAPSED">>,
    c |-> <<"UTILIZATION","UTILIZATION_C">>, pcpu |-> <<"UTILIZATION","UTILIZATION_C">>,
    cp |-> <<"UTILIZATION","UTILIZATION_C">>, pgid |-> <<"ID_PGRP">>, ppid |-> <<"ID_PPID">>,
    time |-> <<"TIME_ALL">>, times |-> <<"TIME_ALL">> ]

(* Items of the print functions of size, priority and class. *)
PrPriority ==
  [ vsz |-> <<"VM_SIZE">>, priority |-> <<"PRIORITY">>, opri |-> <<"PRIORITY">>,
    pri_foo |-> <<"PRIORITY">>, pri_bar |-> <<"PRIORITY">>, pri_baz |-> <<"PRIORITY">>,
    pri |-> <<"PRIORITY">>, pri_api |-> <<"PRIORITY">>, nice |-> <<"NICE","SCHED_CLASS">>,
    oom_adj |-> <<"OOM_ADJ">>, oom |-> <<"OOM_SCORE">>, class |-> <<"SCHED_CLASSSTR">>,
    rtprio |-> <<"SCHED_CLASS","PRIORITY_RT">>, sched |-> <<"SCHED_CLASS">> ]

(* Items of the print functions of wait channel, terminal, state and flags. *)
PrState ==
  [ wchan |-> <<"WCHAN_NAME">>, tty4 |-> <<"TTY_NUMBER">>, tty8 |-> <<"TTY_NAME">>,
    stat |-> <<"STATE","NICE","VM_RSS_LOCKED","ID_SESSION","ID_TGID","NLWP","ID_PGRP","ID_TPGID">>,
    s |-> <<"STATE">>, flag |-> <<"FLAGS">>, stackp |-> <<"ADDR_STACK_START">>, environ |-> <<"ENVIRON">>,
    esp |-> <<"ADDR_CURR_ESP">>, eip |-> <<"ADDR_CURR_EIP">>, bsdtime |-> <<"TICS_ALL","TICS_ALL_C">> ]

(* Items of the print functions of memory, faults and processor. *)
PrMemory ==
  [ bsdstart |-> <<"TICS_BEGAN">>, sz |-> <<"VM_SIZE">>,
    dsiz |-> <<"VSIZE_BYTES","ADDR_CODE_END","ADDR_CODE_START">>,
    tsiz |-> <<"VSIZE_BYTES","ADDR_CODE_END","ADDR_CODE_START">>,
    drs |-> <<"VSIZE_BYTES","ADDR_CODE_END","ADDR_CODE_START">>,
    trs |-> <<"VSIZE_BYTES","ADDR_CODE_END","ADDR_CODE_START">>,
    swapable |-> <<"VM_DATA","VM_STACK","VSIZE_BYTES">>, size |-> <<"VSIZE_BYTES">>,
    minflt |-> <<"FLT_MIN","FLT_MIN_C">>, majflt |-> <<"FLT_MAJ","FLT_MAJ_C">>, lim |-> <<"RSS_RLIM">>,
    psr |-> <<"PROCESSOR">>, pss |-> <<"SMAP_PSS">>, numa |-> <<"PROCESSOR_NODE">>, rss |-> <<"VM_RSS">>,
    pmem |-> <<"VM_RSS">>, lstart |-> <<"TICS_BEGAN">> ]

(* Items of the print functions of start times, signals and numeric ids. *)
PrSignals ==
  [ stime |-> <<"TICS_BEGAN">>, start |-> <<"TICS_BEGAN">>, tsig |-> <<"SIGPENDING">>,
    sig |-> <<"SIGNALS">>, sigmask |-> <<"SIGBLOCKED">>, sigignore |-> <<"SIGIGNORE">>,
    sigcatch |-> <<"SIGCATCH">>, pcap |-> <<"CAPS_PERMITTED">>, pcaps |-> <<"CAPS_PERMITTED">>,
    uss |-> <<"SMAP_PRV_TOTAL">>, hugetblprv |-> <<"SMAP_HUGE_TLBPRV">>,
    hugetblshr |-> <<"SMAP_HUGE_TLBSHR">>, egid |-> <<"ID_EGID">>, rgid |-> <<"ID_RGID">>,
    sgid |-> <<"ID_SGID">>, fgid |-> <<"ID_FGID">>, euid |-> <<"ID_EUID">>, ruid |-> <<"ID_RUID">>,
    suid |-> <<"ID_SUID">>, fuid |-> <<"ID_FUID">>, luid |-> <<"ID_LOGIN">> ]

(* Items of the print functions of user and group names. *)
PrUsers ==
  [ ruser |-> <<"ID_RUSER","ID_RUID">>, euser |-> <<"ID_EUSER","ID_EUID">>,
    fuser |-> <<"ID_FUSER","ID_FUID">>, suser |-> <<"ID_SUSER","ID_SUID">>,
    egroup |-> <<"ID_EGROUP","ID_EGID">>, rgroup |-> <<"ID_RGROUP","ID_RGID">>,
    fgroup |-> <<"ID_FGROUP","ID_FGID">>, sgroup |-> <<"ID_SGROUP","ID_SGID">> ]

(* Items of the print functions of i/o counts and process numbers. *)
PrCounts ==
  [ rbytes |-> <<"IO_READ_BYTES">>, rchars |-> <<"IO_READ_CHARS">>, rops |-> <<"IO_READ_OPS">>,
    wbytes |-> <<"IO_WRITE_BYTES">>, wcbytes |-> <<"IO_WRITE_CBYTES">>, wchars |-> <<"IO_WRITE_CHARS">>,
    wops |-> <<"IO_WRITE_OPS">>, procs |-> <<"ID_TGID">>, tasks |-> <<"ID_PID">>, nlwp |-> <<"NLWP">>,
    sess |-> <<"ID_SESSION">>, supgid |-> <<"SUPGIDS">>, supgrp |-> <<"SUPGROUPS">>,
    tpgid |-> <<"ID_TPGID">>, sgi_p |-> <<"STATE","PROCESSOR">>, exe |-> <<"EXE">>,
    utilization |-> <<"UTILIZATION">>, utilization_c |-> <<"UTILIZATION_C">> ]

(* Items of the print functions of services, namespaces and the rest. *)
PrServices ==
  [ sd_unit |-> <<"SD_UNIT">>, sd_session |-> <<"SD_SESS">>, sd_ouid |-> <<"SD_OUID">>,
    sd_machine |-> <<"SD_MACH">>, sd_uunit |-> <<"SD_UUNIT">>, sd_seat |-> <<"SD_SEAT">>,
    sd_slice |-> <<"SD_SLICE">>, cgroupns |-> <<"NS_CGROUP">>, ipcns |-> <<"NS_IPC">>,
    mntns |-> <<"NS_MNT">>, netns |-> <<"NS_NET">>, pidns |-> <<"NS_PID">>, timens |-> <<"NS_TIME">>,
    userns |-> <<"NS_USER">>, utsns |-> <<"NS_UTS">>, lxcname |-> <<"LXCNAME">>, context |-> <<"ID_TGID">>,
    agid |-> <<"AUTOGRP_ID">>, agnice |-> <<"AUTOGRP_NICE">>, docker |-> <<"DOCKER_ID">>,
    fds |-> <<"OPEN_FILES">> ]

(* The print functions with fixed text, for tests of the layout. *)
PrTests == [ t_left |-> <<>>, t_left2 |-> <<>>, t_right |-> <<>>, t_right2 |-> <<>>, t_unlimited |-> <<>>,
             t_unlimited2 |-> <<>> ]

PrItems == PrNames @@ PrTimes @@ PrPriority @@ PrState @@ PrMemory @@ PrSignals @@ PrUsers @@ PrCounts @@
           PrServices @@ PrTests

(* The sort item of the columns whose sort item is not the first item of    *)
(* their print function.                                                     *)
SortOther ==
  [ comm |-> "CMD", ucmd |-> "CMD", ucomm |-> "CMD", cutime |-> "TICS_USER_C", utime |-> "TICS_USER",
    end_code |-> "ADDR_CODE_END", start_code |-> "ADDR_CODE_START", environ |-> "noop", fgid |-> "FLAGS",
    htshr |-> "SMAP_HUGE_TLBPRV", m_resident |-> "MEM_RES_PGS", resident |-> "MEM_RES_PGS",
    m_share |-> "MEM_SHR_PGS", rtprio |-> "PRIORITY_RT", size |-> "VSIZE_BYTES", tty4 |-> "TTY_NAME",
    vm_data |-> "VM_DATA", vm_exe |-> "VM_EXE", vm_lib |-> "VM_LIB", vm_lock |-> "VM_RSS_LOCKED",
    vm_stack |-> "VM_STACK", vsize |-> "VSIZE_BYTES", _left |-> "noop", _left2 |-> "noop",
    _right |-> "noop", _right2 |-> "noop", _unlimited |-> "noop", _unlimited2 |-> "noop" ]

=============================================================================
