------------------------- MODULE SimplefsCaddyProofs -------------------------
(***************************************************************************)
(* Proofs about the Caddy module across configuration loads, for every     *)
(* number of loads, directories, sizes and keys: the state keeps its type *)
(* through loads, failed loads, requests in flight across a reload and    *)
(* the expiry goroutines of every provider.                               *)
(***************************************************************************)
EXTENDS SimplefsCaddy, TLAPS

USE CaddyAssumption

\* A load has happened exactly when its provider has left "unloaded", and
\* then it has a configuration; the running configuration is one of them.
\* A Provision only ever touches the next load.
Loaded ==
    /\ \A c \in Loads : /\ phase[c] = "unloaded" <=> c > loads
                        /\ c <= loads => conf[c] \in Paths \X CapSizes
    /\ active # None => active \in 1..loads

CaddyInv == TypeOK /\ Loaded

\* The served provider is a load, whenever there is one.
LEMMA ServedType ==
    ASSUME TypeOK, Loaded
    PROVE  Served \in Loads \cup {None}
<1>1. CASE active = None
  BY <1>1 DEF Served
<1>2. CASE active # None
  <2>1. active \in Loads /\ conf[active] \in Paths \X CapSizes
    BY <1>2 DEF Loaded, Loads, TypeOK
  <2>2. Uuid(conf[active][1], conf[active][2]) \in Uuids
    BY <2>1 DEF Uuid, Uuids
  <2>3. QED
    BY <1>2, <2>2 DEF Served, TypeOK
<1>3. QED
  BY <1>1, <1>2

\* What a configuration load does, whichever way Factory ends.
LEMMA ProvisionFacts ==
    ASSUME TypeOK, Loaded, Provision
    PROVE  \E p \in Paths, s \in CapSizes :
             /\ loads + 1 \in Loads
             /\ phase[loads + 1] = "unloaded"
             /\ loads' = loads + 1
             /\ conf' = [conf EXCEPT ![loads + 1] = <<p, s>>]
             /\ \/ /\ phase' = [phase EXCEPT ![loads + 1] = "failed"]
                   /\ UNCHANGED <<started, registry, active>>
                \/ /\ phase' = [phase EXCEPT ![loads + 1] = "provisioned"]
                   /\ started' = [started EXCEPT ![loads + 1] = TRUE]
                   /\ registry' = Register(loads + 1, Uuid(p, s))
                   /\ active' = loads + 1
             /\ UNCHANGED <<held, lapsed, files, inflight>>
<1>1. loads + 1 \in Loads /\ phase[loads + 1] = "unloaded"
  BY DEF Provision, Loaded, TypeOK, Loads
<1>2. QED
  BY <1>1 DEF Provision, FactoryError, Factory

LEMMA CaddyStep == CaddyInv /\ [Next]_vars => CaddyInv'
<1> SUFFICES ASSUME TypeOK, Loaded, [Next]_vars
             PROVE  TypeOK' /\ Loaded'
  BY DEF CaddyInv
<1>0. Served \in Loads \cup {None}
  BY ServedType
<1>1. CASE Provision
  <2>1. PICK p \in Paths, s \in CapSizes :
             /\ loads + 1 \in Loads
             /\ phase[loads + 1] = "unloaded"
             /\ loads' = loads + 1
             /\ conf' = [conf EXCEPT ![loads + 1] = <<p, s>>]
             /\ \/ /\ phase' = [phase EXCEPT ![loads + 1] = "failed"]
                   /\ UNCHANGED <<started, registry, active>>
                \/ /\ phase' = [phase EXCEPT ![loads + 1] = "provisioned"]
                   /\ started' = [started EXCEPT ![loads + 1] = TRUE]
                   /\ registry' = Register(loads + 1, Uuid(p, s))
                   /\ active' = loads + 1
             /\ UNCHANGED <<held, lapsed, files, inflight>>
    BY <1>1, ProvisionFacts
  <2>2. Register(loads + 1, Uuid(p, s)) \in [Uuids -> Loads \cup {None}]
    BY <2>1 DEF Register, TypeOK, Uuid, Uuids
  <2>3. TypeOK'
    <3>1. loads' \in 0..MaxLoads /\ active' \in Loads \cup {None}
      BY <2>1 DEF TypeOK, Loads
    <3>2. conf' \in [Loads -> (Paths \X CapSizes) \cup {NoConf}]
      BY <2>1 DEF TypeOK
    <3>3. phase' \in [Loads -> Phases] /\ started' \in [Loads -> BOOLEAN]
      BY <2>1 DEF TypeOK, Phases
    <3>4. registry' \in [Uuids -> Loads \cup {None}]
      BY <2>1, <2>2 DEF TypeOK
    <3>5. QED
      BY <2>1, <3>1, <3>2, <3>3, <3>4 DEF TypeOK
  <2>4. Loaded'
    BY <2>1 DEF Loaded, TypeOK, Loads, None
  <2>5. QED
    BY <2>3, <2>4
<1>2. CASE InitServed
  <2>1. Served \in Loads /\ phase[Served] = "provisioned"
    BY <1>0, <1>2 DEF InitServed, None, Loads
  <2>2. QED
    BY <1>2, <2>1 DEF InitServed, TypeOK, Loaded, Phases
<1>3. ASSUME NEW k \in Keys, ServeWrite(k) PROVE TypeOK' /\ Loaded'
  <2>1. Served \in Loads /\ conf[Served] \in Paths \X CapSizes
    BY <1>0, <1>3 DEF ServeWrite, None, Loaded, TypeOK, Loads
  <2>2. File(Served, k) \in Paths \X Keys
    BY <2>1 DEF File
  <2>3. files' \subseteq Paths \X Keys /\ inflight' \subseteq Loads \X Keys
    BY <1>3, <2>1, <2>2 DEF ServeWrite, TypeOK
  <2>4. QED
    BY <1>3, <2>3 DEF ServeWrite, TypeOK, Loaded
<1>4. ASSUME NEW c \in Loads, NEW k \in Keys, ServeIndex(c, k) PROVE TypeOK' /\ Loaded'
  BY <1>4 DEF ServeIndex, TypeOK, Loaded
<1>5. ASSUME NEW k \in Keys, Delete(k) PROVE TypeOK' /\ Loaded'
  <2>1. Served \in Loads
    BY <1>0, <1>5 DEF Delete, None, Loads
  <2>2. QED
    BY <1>5, <2>1 DEF Delete, TypeOK, Loaded
<1>6. CASE Reset
  <2>1. Served \in Loads
    BY <1>0, <1>6 DEF Reset, None, Loads
  <2>2. QED
    BY <1>6, <2>1 DEF Reset, TypeOK, Loaded
<1>7. ASSUME NEW c \in Loads, NEW k \in Keys, Expire(c, k) PROVE TypeOK' /\ Loaded'
  BY <1>7 DEF Expire, TypeOK, Loaded
<1>8. ASSUME NEW c \in Loads, Sweep(c) PROVE TypeOK' /\ Loaded'
  BY <1>8 DEF Sweep, TypeOK, Loaded
<1>9. CASE UNCHANGED vars
  BY <1>9 DEF vars, TypeOK, Loaded
<1>10. QED
  BY <1>1, <1>2, <1>3, <1>4, <1>5, <1>6, <1>7, <1>8, <1>9 DEF Next

\* The Caddy model keeps the type of every variable through loads, failed
\* loads, requests whose cache.Set lands on a provider a reload has
\* replaced, and the sweeps of every expiry goroutine.
THEOREM CaddyTypeCorrect == Spec => []TypeOK
<1>1. Init => CaddyInv
  BY DEF Init, CaddyInv, TypeOK, Loaded, Loads, None, Phases
<1>2. CaddyInv => TypeOK
  BY DEF CaddyInv
<1>3. QED
  BY <1>1, <1>2, CaddyStep, PTL DEF Spec
=============================================================================
