------------------------------ MODULE NodeConfig ------------------------------
(***************************************************************************)
(* NodeConfig of config/src/config/mod.rs: the node's configuration in    *)
(* memory and the file it is loaded from and saved to.  A configuration    *)
(* keeps what load, save and the random constructors look at or change:    *)
(* the role, the validator network's id (or none), the ids of the          *)
(* full-node networks in order, the base data directory, the data          *)
(* directories of the sub-configs that set_data_dir rewrites, and whether  *)
(* a test config (with its keys) is attached.  Ports, keys and the other   *)
(* sections are left out; the YAML file holds a configuration unchanged.   *)
(***************************************************************************)
EXTENDS Naturals, Sequences

CONSTANTS
    NetIds,         \* NetworkIds; ValidatorNet and PublicNet among them
    ValidatorNet,   \* NetworkId::Validator
    PublicNet,      \* NetworkId::Public
    Dirs,           \* data directories
    DefaultDir,     \* BaseConfig::default's data_dir
    MaxNets,        \* bound on the full-node networks of a config file; at
                    \* least 1, room for the public network random_internal adds
    NoNet,          \* validator_network: None
    NoConfig        \* no configuration in memory yet

ASSUME ConfigAssumption ==
    /\ {ValidatorNet, PublicNet} \subseteq NetIds /\ NoNet \notin NetIds
    /\ DefaultDir \in Dirs /\ MaxNets \in Nat \ {0}

\* The sub-configs whose data_dir set_data_dir sets.
SubConfigs == {"consensus", "metrics", "storage"}

Config ==
    [role : {"validator", "full_node"}, vnet : NetIds \cup {NoNet},
     fnets : UNION {[1..n -> NetIds] : n \in 0..MaxNets},
     dir : Dirs, subdirs : [SubConfigs -> Dirs], test : BOOLEAN]

\* NoConfig is not a configuration.
ASSUME NoConfigAssumption == NoConfig \notin Config

VARIABLES
    disk,   \* the configuration file
    mem     \* the node's NodeConfig, or NoConfig

vars == <<disk, mem>>

\* NodeConfig::default(): a validator, no networks, BaseConfig's data_dir.
Default ==
    [role |-> "validator", vnet |-> NoNet, fnets |-> <<>>, dir |-> DefaultDir,
     subdirs |-> [s \in SubConfigs |-> DefaultDir], test |-> FALSE]

\* set_data_dir(d): the base and every sub-config get d.
SetDataDirOf(c, d) == [c EXCEPT !.dir = d, !.subdirs = [s \in SubConfigs |-> d]]

\* load's role check: a validator has a validator network, a full node none.
RoleOk(c) == (c.role = "validator") = (c.vnet # NoNet)

\* network_ids when load's loop reaches full-node network i: the validator
\* network's id and those of the full-node networks before i.
IdsBefore(c, i) ==
    ({c.vnet} \cap NetIds) \cup {c.fnets[j] : j \in 1..(i - 1)}

\* The loop's invariant check fails at some network: its id was seen.
Repeated(c) == \E i \in 1..Len(c.fnets) : c.fnets[i] \in IdsBefore(c, i)

\* clone_for_template: everything but the test config and its keys.
CloneForTemplate(c) == [c EXCEPT !.test = FALSE]

\* Mutation of RandomInternal: a validator without a validator network
\* is left without one.
RandomInternalNoNet(c, d) ==
    LET v == IF c.role = "validator" THEN c
             ELSE [c EXCEPT !.vnet = NoNet,
                            !.fnets = IF @ = <<>> THEN <<PublicNet>> ELSE @]
    IN [SetDataDirOf(v, d) EXCEPT !.test = TRUE]

\* Mutation of RandomInternal: only the base data_dir is moved to the
\* temporary directory, not the sub-configs'.
RandomInternalBaseDir(c, d) ==
    LET v == IF c.role = "validator"
                THEN [c EXCEPT !.vnet = IF @ = NoNet THEN ValidatorNet ELSE @]
                ELSE [c EXCEPT !.vnet = NoNet,
                               !.fnets = IF @ = <<>> THEN <<PublicNet>> ELSE @]
    IN [v EXCEPT !.dir = d, !.test = TRUE]

\* random_internal(rng) with its fresh temporary directory d: a validator
\* gets a validator network if it has none; a full node loses its validator
\* network and gets a public one if it has no full-node network; then
\* set_data_dir(d) and the test config.
RandomInternal(c, d) ==
    LET v == IF c.role = "validator"
                THEN [c EXCEPT !.vnet = IF @ = NoNet THEN ValidatorNet ELSE @]
                ELSE [c EXCEPT !.vnet = NoNet,
                               !.fnets = IF @ = <<>> THEN <<PublicNet>> ELSE @]
    IN [SetDataDirOf(v, d) EXCEPT !.test = TRUE]

Init ==
    /\ disk \in Config
    /\ mem = NoConfig

\* NodeConfig::load(path): parse the file, check the role, load the
\* networks checking that no network id repeats, then set_data_dir with the
\* configured data_dir.  On an error (a failed invariant, a file that
\* cannot be read or parsed) nothing changes: that step is a stutter.
Load ==
    /\ RoleOk(disk)
    /\ ~Repeated(disk)
    /\ mem' = SetDataDirOf(disk, disk.dir)
    /\ UNCHANGED disk

\* save(path): the configuration is written to the file.
Save ==
    /\ mem # NoConfig
    /\ disk' = mem
    /\ UNCHANGED mem

\* NodeConfig::random() and random_with_rng: random_internal on the default.
Random(d) ==
    /\ mem' = RandomInternal(Default, d)
    /\ UNCHANGED disk

\* random_with_template(template, rng), the template being the node's config.
RandomWithTemplate(d) ==
    /\ mem # NoConfig
    /\ mem' = RandomInternal(CloneForTemplate(mem), d)
    /\ UNCHANGED disk

\* set_data_dir(d) on the node's configuration.
SetDataDir(d) ==
    /\ mem # NoConfig
    /\ mem' = SetDataDirOf(mem, d)
    /\ UNCHANGED disk

Next ==
    \/ Load \/ Save
    \/ \E d \in Dirs : Random(d) \/ RandomWithTemplate(d) \/ SetDataDir(d)

Spec == Init /\ [][Next]_vars

\* Every type is kept.
TypeOK ==
    /\ disk \in Config
    /\ mem \in Config \cup {NoConfig}

\* Whatever way the node came by its configuration (loaded, random, from a
\* template, with its data directory moved), load would accept it: the role
\* matches the validator network and no network id repeats.
Loadable ==
    mem # NoConfig => RoleOk(mem) /\ ~Repeated(mem)

\* Saving the node's configuration and loading the file back gives the same
\* configuration: load's set_data_dir changes nothing in a configuration
\* the node holds.
SaveLoadRoundTrip ==
    [][disk = mem /\ Load => mem' = mem]_vars
=============================================================================
