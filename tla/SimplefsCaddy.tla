---------------------------- MODULE SimplefsCaddy ----------------------------
(***************************************************************************)
(* The Caddy module of the Simplefs provider (src/simplefs/caddy) across   *)
(* configuration loads.  Every load of a Caddy configuration creates a     *)
(* new module value and calls Provision, which runs simplefs.Factory and   *)
(* registers the storer with core.RegisterStorage.  Factory starts the     *)
(* ttlcache expiry goroutine (go cache.Start()).  The module implements    *)
(* only caddy.Provisioner and caddyhttp.MiddlewareHandler: there is no     *)
(* Cleanup, so nothing stops the goroutine of a provider whose             *)
(* configuration has been replaced.  Its expiry evictions still run the    *)
(* OnEviction hook, which removes the file of the evicted key from the     *)
(* provider's directory.                                                   *)
(*                                                                         *)
(* The engine of one provider is modelled step by step in Simplefs.tla.    *)
(* Here a SetMultiLevel request is two steps, its os.WriteFile and its     *)
(* cache.Set, on the provider that served it; the quota and mapping steps  *)
(* in between are left to Simplefs.tla.  The question is how providers of  *)
(* different loads interfere through the directory they share.  A file is *)
(* a pair <<directory, key>>.                                              *)
(***************************************************************************)
EXTENDS Naturals, FiniteSets

CONSTANTS
    Keys,             \* variedKeys
    Paths,            \* the storage directories a configuration may name
    CapSizes,         \* the "size" values a configuration may give
    MaxLoads,         \* the number of configuration loads (first load and reloads)
    FactoryFails,     \* whether Factory may return an error (os.Getwd, os.MkdirAll)
    WriteFailures,    \* whether os.WriteFile may fail
    RegistryReplaces  \* whether core.RegisterStorage replaces a storer already
                      \* registered under the same name and Uuid

ASSUME CaddyAssumption ==
    /\ Keys # {} /\ Paths # {} /\ CapSizes # {}
    /\ MaxLoads \in Nat \ {0}
    /\ {FactoryFails, WriteFailures, RegistryReplaces} \subseteq BOOLEAN

Loads == 1..MaxLoads
None == 0
NoConf == <<>>
Phases == {"unloaded", "failed", "provisioned", "initialized"}

(* Uuid(): fmt.Sprintf("%s-%d", provider.path, provider.size).           *)
Uuid(p, s) == <<p, s>>
Uuids == Paths \X CapSizes

VARIABLES
    loads,     \* how many configuration loads have been attempted
    phase,     \* phase[c]: the lifecycle phase of the provider of load c
    conf,      \* conf[c]: the <<path, size>> of load c
    started,   \* started[c]: the expiry goroutine of load c runs
    registry,  \* registry[u]: the load whose storer is registered under u
    active,    \* the load whose configuration Caddy is running
    held,      \* held[c]: the keys in the ttlcache of load c
    lapsed,    \* lapsed[c]: held keys whose TTL has lapsed
    files,     \* the files in the storage directories
    inflight   \* <<c, k>>: a SetMultiLevel of key k on the provider of load c
               \* has written its file and not yet called cache.Set

vars == <<loads, phase, conf, started, registry, active, held, lapsed, files, inflight>>

(* The provider the running configuration looks up in the registry.      *)
Served == IF active = None THEN None
          ELSE registry[Uuid(conf[active][1], conf[active][2])]

(* filepath.Join(provider.path, url.PathEscape(variedKey)).              *)
File(c, k) == <<conf[c][1], k>>

TypeOK ==
    /\ loads \in 0..MaxLoads
    /\ phase \in [Loads -> Phases]
    /\ conf \in [Loads -> (Paths \X CapSizes) \cup {NoConf}]
    /\ started \in [Loads -> BOOLEAN]
    /\ registry \in [Uuids -> Loads \cup {None}]
    /\ active \in Loads \cup {None}
    /\ held \in [Loads -> SUBSET Keys]
    /\ lapsed \in [Loads -> SUBSET Keys]
    /\ \A c \in Loads : lapsed[c] \subseteq held[c]
    /\ files \subseteq Paths \X Keys
    /\ inflight \subseteq Loads \X Keys

(* init() registers the module once, at program start; no configuration  *)
(* is loaded yet.  The directories may already hold files of an earlier  *)
(* run, which no index holds.                                            *)
Init ==
    /\ loads = 0
    /\ phase = [c \in Loads |-> "unloaded"]
    /\ conf = [c \in Loads |-> NoConf]
    /\ started = [c \in Loads |-> FALSE]
    /\ registry = [u \in Uuids |-> None]
    /\ active = None
    /\ held = [c \in Loads |-> {}]
    /\ lapsed = [c \in Loads |-> {}]
    /\ files \in SUBSET (Paths \X Keys)
    /\ inflight = {}

(* core.RegisterStorage(storer), under the name and Uuid of the storer.  *)
Register(c, u) ==
    IF registry[u] # None /\ ~RegistryReplaces
    THEN registry
    ELSE [registry EXCEPT ![u] = c]

(* Factory fails: os.Getwd or os.MkdirAll returns an error, which        *)
(* Factory returns before it starts anything.                             *)
FactoryError(c) ==
    /\ FactoryFails
    /\ phase' = [phase EXCEPT ![c] = "failed"]
    /\ UNCHANGED started

(* Mutant: Factory without go cache.Start().                             *)
MutFactoryNoStart(c) ==
    /\ phase' = [phase EXCEPT ![c] = "provisioned"]
    /\ UNCHANGED started

(* Factory succeeds: the ttlcache is built, the directory exists, and    *)
(* go cache.Start() runs the expiry loop until the process exits.        *)
Factory(c) ==
    /\ phase' = [phase EXCEPT ![c] = "provisioned"]
    /\ started' = [started EXCEPT ![c] = TRUE]

(* A configuration load: CaddyModule's New gives a fresh value and       *)
(* Provision runs Factory.  On an error Provision returns it and Caddy   *)
(* keeps running the previous configuration.  Otherwise Provision        *)
(* registers the storer, and the new configuration replaces the running  *)
(* one.                                                                  *)
Provision ==
    /\ loads < MaxLoads
    /\ \E p \in Paths, s \in CapSizes :
         LET c == loads + 1 IN
         /\ loads' = c
         /\ conf' = [conf EXCEPT ![c] = <<p, s>>]
         /\ \/ /\ FactoryError(c)
               /\ UNCHANGED <<registry, active, held, lapsed, files, inflight>>
            \/ /\ Factory(c)
               /\ registry' = Register(c, Uuid(p, s))
               /\ active' = c
               /\ UNCHANGED <<held, lapsed, files, inflight>>

(* The host calls Init on the storer its configuration uses: the         *)
(* OnInsertion and OnEviction hooks are attached.  Its directory scan    *)
(* only adds the sizes of the files found to actualSize, which this      *)
(* module does not follow; the files stay unindexed.                      *)
InitServed ==
    LET s == Served IN
    /\ s # None
    /\ phase[s] = "provisioned"
    /\ phase' = [phase EXCEPT ![s] = "initialized"]
    /\ UNCHANGED <<loads, conf, started, registry, active, held, lapsed, files, inflight>>

(* SetMultiLevel on the served provider up to os.WriteFile (322).  At    *)
(* most one request per provider and key is in flight.  The write either *)
(* succeeds, and the request goes on to cache.Set, or fails: the open    *)
(* failed and the directory is as it was, or the file was truncated or   *)
(* partly written and stays; the error is logged and nil returned        *)
(* without indexing the key.                                              *)
ServeWrite(k) ==
    LET s == Served IN
    /\ s # None
    /\ phase[s] = "initialized"
    /\ <<s, k>> \notin inflight
    /\ \/ /\ files' = files \cup {File(s, k)}
          /\ inflight' = inflight \cup {<<s, k>>}
       \/ /\ WriteFailures
          /\ files' \in {files, files \cup {File(s, k)}}
          /\ UNCHANGED inflight
    /\ UNCHANGED <<loads, phase, conf, started, registry, active, held, lapsed>>

(* cache.Set(variedKey, joinedFP, duration) (328) of a request that has  *)
(* written its file, on the provider that served it, whether or not a    *)
(* reload has replaced that provider meanwhile: the key is held with a   *)
(* fresh TTL.                                                            *)
ServeIndex(c, k) ==
    /\ <<c, k>> \in inflight
    /\ held' = [held EXCEPT ![c] = @ \cup {k}]
    /\ lapsed' = [lapsed EXCEPT ![c] = @ \ {k}]
    /\ inflight' = inflight \ {<<c, k>>}
    /\ UNCHANGED <<loads, phase, conf, started, registry, active, files>>

(* Mutant: a delete that leaves the item queued for expiry.              *)
MutDeleteKeepsLapsed(k) ==
    LET s == Served IN
    /\ s # None
    /\ phase[s] = "initialized"
    /\ k \in held[s]
    /\ held' = [held EXCEPT ![s] = @ \ {k}]
    /\ files' = files \ {File(s, k)}
    /\ UNCHANGED <<loads, phase, conf, started, registry, active, lapsed, inflight>>

(* Delete on the served provider; OnEviction removes the file.           *)
Delete(k) ==
    LET s == Served IN
    /\ s # None
    /\ phase[s] = "initialized"
    /\ k \in held[s]
    /\ held' = [held EXCEPT ![s] = @ \ {k}]
    /\ lapsed' = [lapsed EXCEPT ![s] = @ \ {k}]
    /\ files' = files \ {File(s, k)}
    /\ UNCHANGED <<loads, phase, conf, started, registry, active, inflight>>

(* Reset on the served provider: DeleteAll, with a hook per entry.       *)
Reset ==
    LET s == Served IN
    /\ s # None
    /\ phase[s] = "initialized"
    /\ held' = [held EXCEPT ![s] = {}]
    /\ lapsed' = [lapsed EXCEPT ![s] = {}]
    /\ files' = files \ {File(s, k) : k \in held[s]}
    /\ UNCHANGED <<loads, phase, conf, started, registry, active, inflight>>

(* The TTL of a key held by any provider lapses.                         *)
Expire(c, k) ==
    /\ k \in held[c] \ lapsed[c]
    /\ lapsed' = [lapsed EXCEPT ![c] = @ \cup {k}]
    /\ UNCHANGED <<loads, phase, conf, started, registry, active, held, files, inflight>>

(* The expiry goroutine of load c, whether or not its configuration still *)
(* runs, evicts the lapsed keys under its cache lock.  Once Init has     *)
(* attached the hooks, each eviction removes the key's file.             *)
Sweep(c) ==
    /\ started[c]
    /\ lapsed[c] # {}
    /\ held' = [held EXCEPT ![c] = @ \ lapsed[c]]
    /\ lapsed' = [lapsed EXCEPT ![c] = {}]
    /\ files' = IF phase[c] = "initialized"
                THEN files \ {File(c, k) : k \in lapsed[c]}
                ELSE files
    /\ UNCHANGED <<loads, phase, conf, started, registry, active, inflight>>

Next ==
    \/ Provision
    \/ InitServed
    \/ Reset
    \/ \E k \in Keys : ServeWrite(k) \/ Delete(k)
    \/ \E c \in Loads : Sweep(c) \/ \E k \in Keys : ServeIndex(c, k) \/ Expire(c, k)

Spec == Init /\ [][Next]_vars

(* Time passes, so every finite TTL lapses; each expiry goroutine runs    *)
(* for the life of the process; a request that has written its file goes *)
(* on to its cache.Set.                                                  *)
FairSpec ==
    /\ Spec
    /\ \A c \in Loads, k \in Keys : WF_vars(ServeIndex(c, k))
    /\ \A c \in Loads : WF_vars(Sweep(c))
    /\ \A c \in Loads, k \in Keys : WF_vars(Expire(c, k))

-----------------------------------------------------------------------------
(* The file of a key the served provider holds leaves its directory only *)
(* in a step that also drops the key from that provider's index: its own *)
(* Delete, Reset or expiry eviction (spec section 4.6, a variant is never *)
(* referenced unless it is on disk).  A provider left over from an       *)
(* earlier load of the same directory, whose expiry goroutine still runs *)
(* (no Cleanup), may evict the same key and remove the file the served   *)
(* provider holds.                                                        *)
ServedFilesStay ==
    [][Served # None =>
         \A k \in held[Served] :
            File(Served, k) \in files /\ File(Served, k) \notin files' =>
                k \notin held'[Served]]_vars

(* A provider whose configuration has been replaced eventually holds      *)
(* nothing, so its leaked expiry goroutine eventually removes no more     *)
(* files.                                                                 *)
RetiredDrains ==
    \A c \in Loads :
        (phase[c] = "initialized" /\ active # None /\ c < active) ~> (held[c] = {})

=============================================================================
