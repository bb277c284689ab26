--------------------------- MODULE NodeConfigProofs ---------------------------
(***************************************************************************)
(* Proofs that every configuration the node holds passes load's checks and *)
(* that saving and loading it back gives it unchanged, for all network     *)
(* ids, directories and bounds.  Loadable alone is inductive; the round   *)
(* trip needs that the sub-configs' data directories agree with the base  *)
(* one in every configuration the node holds (DirsAgree).                 *)
(***************************************************************************)
EXTENDS NodeConfig, TLAPS

DirsAgree(c) == \A s \in SubConfigs : c.subdirs[s] = c.dir

Inv ==
    /\ TypeOK
    /\ Loadable
    /\ mem # NoConfig => DirsAgree(mem)

\* set_data_dir keeps the networks and makes the directories agree.
LEMMA SetDataDirFacts ==
    ASSUME NEW c \in Config, NEW d \in Dirs
    PROVE  /\ SetDataDirOf(c, d) \in Config
           /\ DirsAgree(SetDataDirOf(c, d))
           /\ SetDataDirOf(c, d).role = c.role
           /\ SetDataDirOf(c, d).vnet = c.vnet
           /\ SetDataDirOf(c, d).fnets = c.fnets
    BY DEF SetDataDirOf, Config, DirsAgree

\* A configuration whose directories agree is a fixpoint of set_data_dir
\* with its own directory.
LEMMA SetDataDirFixpoint ==
    ASSUME NEW c \in Config, DirsAgree(c)
    PROVE  SetDataDirOf(c, c.dir) = c
    BY DEF SetDataDirOf, Config, DirsAgree

\* The check of load depends on the role and the networks only.
LEMMA LoadableDependsOnNetworks ==
    ASSUME NEW c, NEW e, c.role = e.role, c.vnet = e.vnet, c.fnets = e.fnets
    PROVE  (RoleOk(c) /\ ~Repeated(c)) <=> (RoleOk(e) /\ ~Repeated(e))
    BY DEF RoleOk, Repeated, IdsBefore

\* random_internal yields a configuration load accepts, from the default or
\* from any configuration load accepts.
LEMMA RandomInternalLoadable ==
    ASSUME NEW c \in Config, NEW d \in Dirs,
           c = Default \/ (RoleOk(c) /\ ~Repeated(c))
    PROVE  /\ RandomInternal(c, d) \in Config
           /\ RoleOk(RandomInternal(c, d)) /\ ~Repeated(RandomInternal(c, d))
           /\ DirsAgree(RandomInternal(c, d))
    <1> USE ConfigAssumption
    <1>1. CASE c.role = "validator"
        <2>1. /\ RandomInternal(c, d).vnet = IF c.vnet = NoNet THEN ValidatorNet ELSE c.vnet
              /\ RandomInternal(c, d).fnets = c.fnets
              /\ RandomInternal(c, d).role = c.role
            BY <1>1 DEF RandomInternal, SetDataDirOf, Config
        <2>2. RandomInternal(c, d) \in Config /\ DirsAgree(RandomInternal(c, d))
            BY <1>1 DEF RandomInternal, SetDataDirOf, Config, DirsAgree
        <2>3. CASE c = Default
            <3>1. RandomInternal(c, d).fnets = <<>>
                BY <2>1, <2>3 DEF Default
            <3>2. RandomInternal(c, d).vnet = ValidatorNet
                BY <2>1, <2>3 DEF Default
            <3> QED
                BY <1>1, <2>1, <2>2, <3>1, <3>2 DEF RoleOk, Repeated
        <2>4. CASE RoleOk(c) /\ ~Repeated(c)
            <3>1. c.vnet # NoNet
                BY <1>1, <2>4 DEF RoleOk
            <3>2. RandomInternal(c, d).vnet = c.vnet
                BY <2>1, <3>1
            <3> QED
                BY <2>1, <2>2, <2>4, <3>2, LoadableDependsOnNetworks
        <2> QED
            BY <2>3, <2>4
    <1>2. CASE c.role = "full_node"
        <2>1. c # Default
            BY <1>2 DEF Default
        <2>2. RoleOk(c) /\ ~Repeated(c)
            BY <2>1
        <2>3. /\ RandomInternal(c, d).vnet = NoNet
              /\ RandomInternal(c, d).fnets = IF c.fnets = <<>> THEN <<PublicNet>> ELSE c.fnets
              /\ RandomInternal(c, d).role = c.role
            BY <1>2 DEF RandomInternal, SetDataDirOf, Config
        <2>4. RandomInternal(c, d) \in Config /\ DirsAgree(RandomInternal(c, d))
            <3>1. <<PublicNet>> \in UNION {[1..n -> NetIds] : n \in 0..MaxNets}
                <4>1. <<PublicNet>> \in [1..1 -> NetIds] /\ 1 \in 0..MaxNets
                    OBVIOUS
                <4> QED
                    BY <4>1
            <3>2. (IF c.fnets = <<>> THEN <<PublicNet>> ELSE c.fnets)
                      \in UNION {[1..n -> NetIds] : n \in 0..MaxNets}
                BY <3>1 DEF Config
            <3> QED
                BY <1>2, <3>2 DEF RandomInternal, SetDataDirOf, Config, DirsAgree
        <2>5. c.vnet = NoNet
            BY <1>2, <2>2 DEF RoleOk
        <2>6. RoleOk(RandomInternal(c, d))
            BY <1>2, <2>3 DEF RoleOk
        <2>7. ~Repeated(RandomInternal(c, d))
            <3>1. CASE c.fnets = <<>>
                <4>1. RandomInternal(c, d).fnets = <<PublicNet>>
                    BY <2>3, <3>1
                <4> QED
                    BY <2>3, <4>1 DEF Repeated, IdsBefore
            <3>2. CASE c.fnets # <<>>
                <4>1. \A i \in 1..Len(c.fnets) : IdsBefore(RandomInternal(c, d), i) = IdsBefore(c, i)
                    BY <2>3, <2>5, <3>2 DEF IdsBefore
                <4> QED
                    BY <2>2, <2>3, <3>2, <4>1 DEF Repeated
            <3> QED
                BY <3>1, <3>2
        <2> QED
            BY <2>4, <2>6, <2>7
    <1> QED
        BY <1>1, <1>2 DEF Config

LEMMA InitInv == Init => Inv
    BY ConfigAssumption DEF Init, Inv, TypeOK, Loadable

LEMMA NextInv == Inv /\ [Next]_vars => Inv'
    <1> SUFFICES ASSUME Inv, [Next]_vars PROVE Inv'
        OBVIOUS
    <1>1. CASE Load
        <2>1. disk \in Config
            BY DEF Inv, TypeOK
        <2>2. mem' = SetDataDirOf(disk, disk.dir) /\ disk' = disk
            BY <1>1 DEF Load
        <2>3. RoleOk(mem') /\ ~Repeated(mem')
            BY <1>1, <2>1, <2>2, SetDataDirFacts, LoadableDependsOnNetworks DEF Load, Config
        <2> QED
            BY <2>1, <2>2, <2>3, SetDataDirFacts, ConfigAssumption DEF Inv, TypeOK, Loadable, Config
    <1>2. CASE Save
        BY <1>2 DEF Save, Inv, TypeOK, Loadable
    <1>3. ASSUME NEW d \in Dirs, Random(d)
          PROVE  Inv'
        <2>1. Default \in Config
            BY ConfigAssumption DEF Default, Config
        <2>2. mem' = RandomInternal(Default, d) /\ disk' = disk
            BY <1>3 DEF Random
        <2> QED
            BY <2>1, <2>2, RandomInternalLoadable, ConfigAssumption DEF Inv, TypeOK, Loadable
    <1>4. ASSUME NEW d \in Dirs, RandomWithTemplate(d)
          PROVE  Inv'
        <2>1. mem \in Config /\ RoleOk(mem) /\ ~Repeated(mem)
            BY <1>4 DEF RandomWithTemplate, Inv, TypeOK, Loadable
        <2>2. CloneForTemplate(mem) \in Config
              /\ CloneForTemplate(mem).role = mem.role
              /\ CloneForTemplate(mem).vnet = mem.vnet
              /\ CloneForTemplate(mem).fnets = mem.fnets
            BY <2>1 DEF CloneForTemplate, Config
        <2>3. RoleOk(CloneForTemplate(mem)) /\ ~Repeated(CloneForTemplate(mem))
            BY <2>1, <2>2, LoadableDependsOnNetworks
        <2>4. mem' = RandomInternal(CloneForTemplate(mem), d) /\ disk' = disk
            BY <1>4 DEF RandomWithTemplate
        <2> QED
            BY <2>2, <2>3, <2>4, RandomInternalLoadable, ConfigAssumption DEF Inv, TypeOK, Loadable
    <1>5. ASSUME NEW d \in Dirs, SetDataDir(d)
          PROVE  Inv'
        <2>1. mem \in Config /\ RoleOk(mem) /\ ~Repeated(mem)
            BY <1>5 DEF SetDataDir, Inv, TypeOK, Loadable
        <2>2. mem' = SetDataDirOf(mem, d) /\ disk' = disk
            BY <1>5 DEF SetDataDir
        <2>3. RoleOk(mem') /\ ~Repeated(mem')
            BY <2>1, <2>2, SetDataDirFacts, LoadableDependsOnNetworks
        <2> QED
            BY <2>1, <2>2, <2>3, SetDataDirFacts, ConfigAssumption DEF Inv, TypeOK, Loadable, Config
    <1>6. CASE UNCHANGED vars
        BY <1>6 DEF vars, Inv, TypeOK, Loadable
    <1> QED
        BY <1>1, <1>2, <1>3, <1>4, <1>5, <1>6 DEF Next

\* Every configuration the node holds is one that load accepts.
THEOREM LoadableInvariant == Spec => []Loadable
    <1>1. Spec => []Inv
        BY InitInv, NextInv, PTL DEF Spec
    <1> QED
        BY <1>1, PTL DEF Inv

\* Loading back a file the node saved leaves its configuration unchanged.
THEOREM RoundTrip == Spec => SaveLoadRoundTrip
    <1>1. Inv /\ [Next]_vars => [disk = mem /\ Load => mem' = mem]_vars
        <2> SUFFICES ASSUME Inv, [Next]_vars, disk = mem, Load
                     PROVE  mem' = mem
            OBVIOUS
        <2>1. mem \in Config /\ DirsAgree(mem)
            <3>1. disk \in Config
                BY DEF Inv, TypeOK
            <3>2. mem # NoConfig
                BY <3>1, NoConfigAssumption
            <3> QED
                BY <3>1, <3>2 DEF Inv
        <2> QED
            BY <2>1, SetDataDirFixpoint DEF Load
    <1>2. Spec => []Inv
        BY InitInv, NextInv, PTL DEF Spec
    <1> QED
        BY <1>1, <1>2, PTL DEF Spec, SaveLoadRoundTrip
=============================================================================
