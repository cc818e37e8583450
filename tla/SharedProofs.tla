---------------------------- MODULE SharedProofs ----------------------------
(***************************************************************************)
(* Two applies settle a switch whose resources share the routing, for any  *)
(* set of SVIs, any addresses and helpers, and any number of edits,        *)
(* changes by hand and failures.                                           *)
(***************************************************************************)
EXTENDS SharedSwitch, TLAPS

USE SviAssumption

\* What the state and the switch say once r has been read or written.  The
\* routing may still be overwritten by an SVI of the same apply.
Settled(r) == state[r] = want[r] /\ r \notin tainted /\ (r \in SVI => Configured(r))

\* Only by hand can all the helpers go that the state has.
Shown == \A r \in SVI : state[r] # Absent /\ running[r] # Absent /\ spent["drift"] = 0 =>
                            state[r].helpers = {} \/ running[r].helpers # {}

\* What is still to be written is on the switch if it is in the state.
Fresh == \A r \in pending \cap SVI : state[r] # Absent => running[r] # Absent

\* After one complete apply only the routing can differ, after two nothing.
IInv ==
    /\ TypeOK /\ spent \in [Event -> Nat] /\ Shown /\ Fresh
    /\ calm >= 1 \/ (clean /\ pending # {}) => \A r \in Resource \ pending : Settled(r)
    /\ calm >= 1 => pending \subseteq {"ip_routing"}
    /\ calm >= 2 => pending = {} /\ \A r \in Resource : Configured(r)

-----------------------------------------------------------------------------
(***************************************************************************)
(* What an operation on an SVI writes.                                     *)
(***************************************************************************)
LEMMA SviTypes ==
    ASSUME TypeOK, NEW r \in SVI
    PROVE  /\ want[r] # Absent => want[r].address \in Address /\ want[r].helpers \in SUBSET Helper
           /\ running[r] # Absent => /\ running[r].address \in Address \cup {None}
                                     /\ running[r].helpers \in SUBSET Helper
           /\ state[r] # Absent => /\ state[r].address \in Address \cup {None}
                                   /\ state[r].helpers \in SUBSET Helper
  BY DEF TypeOK, Resource, File, Cell, Config

LEMMA CellForm ==
    ASSUME NEW r \in SVI, NEW a \in Address \cup {None}, NEW h \in SUBSET Helper
    PROVE  [address |-> a, helpers |-> h] \in Cell(r) /\ [address |-> a, helpers |-> h] # Absent
  BY NamesAssumption DEF Cell

LEMMA ChangedCell ==
    ASSUME TypeOK, NEW r \in SVI, want[r] # Absent, NEW h \in SUBSET want[r].helpers
    PROVE  /\ Opened(r) \in Cell(r) /\ Changed(r, h) \in Cell(r)
           /\ Opened(r) # Absent /\ Changed(r, h) # Absent
           /\ Changed(r, h).address = want[r].address /\ h \subseteq Changed(r, h).helpers
           /\ running[r] # Absent => /\ Opened(r) = running[r]
                                     /\ running[r].helpers \subseteq Changed(r, h).helpers
  <1>1. running[r] # Absent => running[r] \in Cell(r)
    BY DEF TypeOK, Resource
  <1>2. Opened(r) \in Cell(r) /\ Opened(r) # Absent /\ Opened(r).helpers \in SUBSET Helper
    BY <1>1, SviTypes, CellForm DEF Opened
  <1>3. Opened(r).helpers \cup h \in SUBSET Helper
    BY <1>2, SviTypes
  <1> QED
    BY <1>2, <1>3, SviTypes, CellForm DEF Changed, Opened

\* Only r and the routing change, and helpers are not lost but with r itself.
Touches(r, new) ==
    /\ DOMAIN new = Resource /\ \A s \in Resource : new[s] \in Cell(s)
    /\ \A s \in SVI \ {r} : new[s] = running[s]
    /\ r \in SVI /\ running[r] # Absent /\ new[r] # Absent =>
          (running[r].helpers # {} => new[r].helpers # {})

LEMMA RoutedTouches ==
    ASSUME TypeOK, NEW r \in SVI, NEW cell \in Cell(r),
           running[r] # Absent /\ cell # Absent => running[r].helpers \subseteq cell.helpers
    PROVE  Touches(r, Routed(r, cell)) /\ Routed(r, cell)[r] = cell
  <1>1. /\ DOMAIN Routed(r, cell) = Resource
        /\ Routed(r, cell)["ip_routing"] = "on" /\ Routed(r, cell)[r] = cell
        /\ \A s \in SVI \ {r} : Routed(r, cell)[s] = running[s]
    BY DEF Routed, TypeOK, Resource
  <1>2. "on" \in Cell("ip_routing")
    BY DEF Cell
  <1> QED
    BY <1>1, <1>2 DEF Touches, TypeOK, Resource

LEMMA RoutingTouches ==
    ASSUME TypeOK
    PROVE  /\ Touches("ip_routing", RoutingSet)
           /\ want["ip_routing"] # Absent => RoutingSet["ip_routing"] = want["ip_routing"]
  <1>1. want["ip_routing"] \in {"on", "off", Absent} /\ DOMAIN running = Resource
    BY DEF TypeOK, Resource, File
  <1>2. RoutingSet["ip_routing"] \in {"on", "off"}
        /\ (want["ip_routing"] # Absent => RoutingSet["ip_routing"] = want["ip_routing"])
    BY <1>1 DEF RoutingSet, Resource
  <1>3. DOMAIN RoutingSet = Resource /\ \A s \in SVI : RoutingSet[s] = running[s]
    BY <1>1 DEF RoutingSet, Resource
  <1>4. Cell("ip_routing") = {"on", "off"}
    BY DEF Cell
  <1> QED
    BY <1>2, <1>3, <1>4 DEF Touches, TypeOK, Resource

LEMMA RemovalTouches ==
    ASSUME TypeOK, NEW r \in SVI
    PROVE  Touches(r, [running EXCEPT ![r] = Absent]) /\ Touches(r, running)
  <1>1. Absent \in Cell(r)
    BY DEF Cell
  <1> QED
    BY <1>1 DEF Touches, TypeOK, Resource

LEMMA StoppedTouches ==
    ASSUME TypeOK, NEW r \in Resource, NEW new \in Stopped(r)
    PROVE  Touches(r, new)
  <1>1. CASE r = "ip_routing"
    BY <1>1, RoutingTouches DEF Stopped, Touches, TypeOK
  <1>2. CASE r \in SVI /\ (want[r] = Absent \/ r \in tainted)
    BY <1>2, RemovalTouches DEF Stopped, StoppedSvi
  <1>3. CASE r \in SVI /\ want[r] # Absent /\ r \notin tainted
    <2>1. new \in {running, Routed(r, running[r]), Routed(r, Opened(r))}
                  \cup { Routed(r, Changed(r, h)) : h \in SUBSET want[r].helpers }
      BY <1>3 DEF Stopped, StoppedSvi
    <2>2. Touches(r, running)
      BY <1>3, RemovalTouches
    <2>3. Touches(r, Routed(r, running[r]))
      BY <1>3, RoutedTouches DEF TypeOK
    <2>4. Touches(r, Routed(r, Opened(r)))
      <3>1. {} \in SUBSET want[r].helpers
        OBVIOUS
      <3> QED
        BY <1>3, <3>1, ChangedCell, RoutedTouches
    <2>5. ASSUME NEW h \in SUBSET want[r].helpers
          PROVE  Touches(r, Routed(r, Changed(r, h)))
      BY <1>3, <2>5, ChangedCell, RoutedTouches
    <2> QED
      BY <2>1, <2>2, <2>3, <2>4, <2>5
  <1> QED
    BY <1>1, <1>2, <1>3 DEF Resource

-----------------------------------------------------------------------------
(***************************************************************************)
(* An operation that ends well leaves its resource settled.                *)
(***************************************************************************)
LEMMA LeaveKeepsIInv ==
    ASSUME IInv, NEW r \in pending, Leave(r, TRUE), TypeOK', Shown', Fresh',
           Touches(r, running'), UNCHANGED <<want, spent>>,
           state'[r] = want[r], r \notin tainted', Configured(r)',
           \A s \in Resource \ {r} : state'[s] = state[s],
           \A s \in SVI \ {r} : s \in tainted' <=> s \in tainted
    PROVE  IInv'
  <1>1. /\ pending' = pending \ {r} /\ clean' = clean /\ clean \in BOOLEAN
        /\ calm' = IF ~clean THEN 0 ELSE IF pending = {r} THEN Calmer ELSE calm
        /\ r \in Resource
    BY DEF Leave, IInv, TypeOK
  <1>2. ASSUME NEW s \in SVI \ {r}, Configured(s)
        PROVE  Configured(s)'
    BY <1>2 DEF Configured, Touches
  <1>3. ASSUME clean
        PROVE  \A s \in Resource \ pending' : Settled(s)'
    <2>1. \A s \in Resource \ pending : Settled(s)
      BY <1>3 DEF IInv
    <2>2. Settled(r)'
      BY DEF Settled
    <2>3. ASSUME NEW s \in Resource \ pending, s # r PROVE Settled(s)'
      <3>1. CASE s \in SVI
        BY <1>2, <2>1, <2>3, <3>1 DEF Settled
      <3>2. CASE s = "ip_routing"
        BY <2>1, <2>3, <3>2 DEF Settled, IInv, TypeOK
      <3> QED
        BY <3>1, <3>2 DEF Resource
    <2> QED
      BY <1>1, <2>2, <2>3
  <1>4. calm' >= 1 => clean
    BY <1>1
  <1>5. calm' >= 1 => pending' \subseteq {"ip_routing"}
    BY <1>1 DEF IInv, TypeOK, Calmer
  <1>6. ASSUME calm' >= 2
        PROVE  pending' = {} /\ \A s \in Resource : Configured(s)'
    <2>1. calm < 2
      <3>1. pending # {} /\ calm \in 0..3
        BY DEF IInv, TypeOK
      <3>2. ~(calm >= 2)
        BY <3>1 DEF IInv
      <3> QED
        BY <3>1, <3>2
    <2>2. pending = {r} /\ calm = 1 /\ clean
      BY <2>1, <1>1, <1>6 DEF IInv, TypeOK, Calmer
    <2>3. r = "ip_routing"
      BY <2>2 DEF IInv
    <2>4. \A s \in SVI : Configured(s)
      BY <2>2, <2>3 DEF IInv, Resource, Settled
    <2> QED
      BY <2>2, <2>3, <2>4, <1>1, <1>2 DEF Resource
  <1>7. spent' \in [Event -> Nat]
    BY DEF IInv
  <1> QED
    BY <1>1, <1>3, <1>4, <1>5, <1>6, <1>7 DEF IInv

\* An operation that fails, or a result that is not accepted.
LEMMA FailureKeepsIInv ==
    ASSUME IInv, NEW r \in pending, Leave(r, FALSE), TypeOK', spent' \in [Event -> Nat],
           Shown', Fresh'
    PROVE  IInv'
  <1>1. calm' = 0 /\ clean' = FALSE
    BY DEF Leave
  <1> QED
    BY <1>1 DEF IInv

\* What the operations of an apply do not disturb.
LEMMA OthersShown ==
    ASSUME IInv, NEW r \in Resource, Touches(r, running'), UNCHANGED spent,
           pending' \subseteq pending,
           \A s \in SVI \ {r} : state'[s] = state[s],
           r \in SVI => /\ state'[r] # Absent /\ running'[r] # Absent =>
                             state'[r].helpers = {} \/ running'[r].helpers # {}
                        /\ r \in pending' /\ state'[r] # Absent => running'[r] # Absent
    PROVE  Shown' /\ Fresh'
  <1>1. \A s \in SVI \ {r} : running'[s] = running[s]
    BY DEF Touches
  <1>2. Shown'
    BY <1>1 DEF IInv, Shown
  <1>3. Fresh'
    BY <1>1 DEF IInv, Fresh
  <1> QED
    BY <1>2, <1>3

LEMMA WriteSviKeepsIInv ==
    ASSUME IInv, NEW r \in SVI, WriteSvi(r)
    PROVE  IInv'
  <1> DEFINE cell     == Written(r)
             readBack == UpdateModelFromInfo(want[r], cell)
  <1>1. /\ r \in pending /\ want[r] # Absent /\ r \notin tainted
        /\ running' = Routed(r, cell) /\ state' = [state EXCEPT ![r] = readBack]
        /\ tainted' = IF state[r] = Absent /\ readBack # want[r] THEN tainted \cup {r}
                                                                 ELSE tainted
        /\ Leave(r, readBack = want[r]) /\ UNCHANGED <<want, spent>>
    BY DEF WriteSvi
  <1>2. TypeOK /\ DOMAIN state = Resource /\ r \in Resource /\ pending' \subseteq pending
    BY <1>1 DEF IInv, TypeOK, Resource, Leave
  <1>3. /\ cell \in Cell(r) /\ cell # Absent /\ cell.address = want[r].address
        /\ want[r].helpers \subseteq cell.helpers
        /\ running[r] # Absent => running[r].helpers \subseteq cell.helpers
    BY <1>1, <1>2, ChangedCell DEF Written
  <1>4. cell.address \in Address \cup {None} /\ cell.helpers \in SUBSET Helper
    BY <1>3 DEF Cell
  <1>5. /\ readBack.address = cell.address
        /\ readBack.helpers = IF cell.helpers = {} THEN want[r].helpers ELSE cell.helpers
        /\ readBack \in Cell(r) /\ readBack # Absent
    <2>1. want[r].helpers \in SUBSET Helper
      BY <1>1, <1>2, SviTypes
    <2> QED
      BY <1>4, <2>1, CellForm DEF UpdateModelFromInfo
  <1> HIDE DEF cell, readBack
  <1>6. Touches(r, running') /\ running'[r] = cell
    BY <1>1, <1>2, <1>3, RoutedTouches
  <1>7. state'[r] = readBack /\ \A s \in Resource \ {r} : state'[s] = state[s]
    BY <1>1, <1>2
  <1>8. TypeOK'
    <2>1. DOMAIN state' = Resource /\ \A s \in Resource : state'[s] \in Cell(s) \cup {Absent}
      BY <1>1, <1>2, <1>5, <1>7 DEF TypeOK
    <2>2. tainted' \in SUBSET SVI
      BY <1>1, <1>2 DEF TypeOK
    <2>3. pending' \in SUBSET Resource /\ clean' \in BOOLEAN /\ calm' \in 0..3
      BY <1>1, <1>2 DEF TypeOK, Leave, Calmer
    <2> QED
      BY <1>1, <1>2, <1>6, <2>1, <2>2, <2>3 DEF TypeOK, Touches, File, Cell
  <1>9. Shown' /\ Fresh'
    <2>1. state'[r].helpers = {} \/ running'[r].helpers # {}
      BY <1>3, <1>5, <1>6, <1>7
    <2> QED
      BY <1>1, <1>2, <1>3, <1>6, <1>7, <2>1, OthersShown DEF Resource
  <1>10. CASE readBack = want[r]
    <2>1. Configured(r)'
      BY <1>1, <1>3, <1>5, <1>6, <1>10 DEF Configured
    <2>2. Leave(r, TRUE) /\ r \notin tainted' /\ \A s \in SVI \ {r} : s \in tainted' <=> s \in tainted
      BY <1>1, <1>10
    <2> QED
      BY <1>1, <1>6, <1>7, <1>8, <1>9, <1>10, <2>1, <2>2, LeaveKeepsIInv
  <1>11. CASE readBack # want[r]
    <2>1. Leave(r, FALSE)
      BY <1>1, <1>11
    <2>2. spent' \in [Event -> Nat]
      BY <1>1 DEF IInv
    <2> QED
      BY <1>1, <1>8, <1>9, <2>1, <2>2, FailureKeepsIInv
  <1> QED
    BY <1>10, <1>11

LEMMA DestroySviKeepsIInv ==
    ASSUME IInv, NEW r \in SVI, DestroySvi(r)
    PROVE  IInv'
  <1>1. /\ r \in pending /\ running' = [running EXCEPT ![r] = Absent]
        /\ state' = [state EXCEPT ![r] = Absent] /\ tainted' = tainted \ {r}
        /\ UNCHANGED <<want, spent>>
        /\ want[r] = Absent => Leave(r, TRUE)
        /\ want[r] # Absent => UNCHANGED <<pending, clean, calm>>
    BY DEF DestroySvi
  <1>2. TypeOK /\ DOMAIN state = Resource /\ DOMAIN running = Resource /\ r \in Resource
        /\ pending' \subseteq pending
    BY <1>1 DEF IInv, TypeOK, Resource, Leave
  <1>3. Touches(r, running') /\ running'[r] = Absent
    BY <1>1, <1>2, RemovalTouches
  <1>4. state'[r] = Absent /\ \A s \in Resource \ {r} : state'[s] = state[s]
    BY <1>1, <1>2
  <1>5. TypeOK'
    <2>1. DOMAIN state' = Resource /\ \A s \in Resource : state'[s] \in Cell(s) \cup {Absent}
      BY <1>1, <1>2, <1>4 DEF TypeOK
    <2>2. pending' \in SUBSET Resource /\ clean' \in BOOLEAN /\ calm' \in 0..3
      BY <1>1, <1>2 DEF TypeOK, Leave, Calmer
    <2> QED
      BY <1>1, <1>2, <1>3, <2>1, <2>2 DEF TypeOK, Touches, File, Cell
  <1>6. Shown' /\ Fresh'
    <2>1. r \in SVI => /\ state'[r] # Absent /\ running'[r] # Absent =>
                             state'[r].helpers = {} \/ running'[r].helpers # {}
                       /\ r \in pending' /\ state'[r] # Absent => running'[r] # Absent
      BY <1>3, <1>4
    <2>2. UNCHANGED spent /\ \A s \in SVI \ {r} : state'[s] = state[s]
      BY <1>1, <1>4 DEF Resource
    <2> QED
      BY <1>2, <1>3, <2>1, <2>2, OthersShown
  <1>7. CASE want[r] = Absent
    <2>1. Configured(r)' /\ state'[r] = want[r]
      BY <1>1, <1>4, <1>7 DEF Configured
    <2> QED
      BY <1>1, <1>3, <1>4, <1>5, <1>6, <1>7, <2>1, LeaveKeepsIInv
  <1>8. CASE want[r] # Absent
    <2>1. UNCHANGED <<want, spent, pending, clean, calm>>
      BY <1>1, <1>8
    <2>2. ASSUME NEW s \in Resource \ pending, Settled(s)
          PROVE  Settled(s)'
      <3>1. s # r /\ state'[s] = state[s] /\ s \notin tainted'
        BY <1>1, <1>4, <2>2 DEF Settled
      <3>2. s \in SVI => running'[s] = running[s]
        BY <1>3, <3>1 DEF Touches
      <3> QED
        BY <2>1, <2>2, <3>1, <3>2 DEF Settled, Configured
    <2>3. calm < 2 /\ ~(calm' >= 2)
      <3>1. pending # {} /\ calm \in 0..3
        BY <1>1, <1>2 DEF TypeOK
      <3>2. ~(calm >= 2)
        BY <3>1 DEF IInv
      <3> QED
        BY <2>1, <3>1, <3>2
    <2>4. spent' \in [Event -> Nat] /\ (calm' >= 1 => pending' \subseteq {"ip_routing"})
      BY <2>1 DEF IInv
    <2>5. calm' >= 1 \/ (clean' /\ pending' # {})
              => \A s \in Resource \ pending' : Settled(s)'
      BY <2>1, <2>2 DEF IInv
    <2> QED
      BY <1>5, <1>6, <2>3, <2>4, <2>5 DEF IInv
  <1> QED
    BY <1>7, <1>8

LEMMA WriteRoutingKeepsIInv ==
    ASSUME IInv, WriteRouting
    PROVE  IInv'
  <1> DEFINE r == "ip_routing"
  <1>1. /\ r \in pending /\ running' = RoutingSet /\ state' = [state EXCEPT ![r] = want[r]]
        /\ Leave(r, TRUE) /\ UNCHANGED <<want, tainted, spent>>
    BY DEF WriteRouting
  <1>2. TypeOK /\ DOMAIN state = Resource /\ r \in Resource /\ r \notin SVI
        /\ pending' \subseteq pending /\ tainted \in SUBSET SVI
    BY <1>1 DEF IInv, TypeOK, Resource, Leave
  <1>3. Touches(r, running') /\ (want[r] # Absent => running'[r] = want[r])
    BY <1>1, <1>2, RoutingTouches
  <1>4. state'[r] = want[r] /\ \A s \in Resource \ {r} : state'[s] = state[s]
    BY <1>1, <1>2
  <1>5. TypeOK'
    <2>1. DOMAIN state' = Resource /\ \A s \in Resource : state'[s] \in Cell(s) \cup {Absent}
      BY <1>1, <1>2, <1>4 DEF TypeOK, File, Cell
    <2>2. pending' \in SUBSET Resource /\ clean' \in BOOLEAN /\ calm' \in 0..3
      BY <1>1, <1>2 DEF TypeOK, Leave, Calmer
    <2> QED
      BY <1>1, <1>2, <1>3, <2>1, <2>2 DEF TypeOK, Touches, File, Cell
  <1>6. Shown' /\ Fresh'
    BY <1>1, <1>2, <1>3, <1>4, OthersShown
  <1>7. Configured(r)' /\ r \notin tainted'
    BY <1>1, <1>2, <1>3 DEF Configured
  <1> QED
    BY <1>1, <1>3, <1>4, <1>5, <1>6, <1>7, LeaveKeepsIInv

-----------------------------------------------------------------------------
\* What a read of an SVI returns.
LEMMA ReadSvi ==
    ASSUME TypeOK, NEW r \in SVI, state[r] # Absent, running[r] # Absent
    PROVE  /\ Read(r) \in Cell(r) /\ Read(r) # Absent /\ Read(r).address = running[r].address
           /\ Read(r).helpers = IF running[r].helpers = {} THEN state[r].helpers
                                                           ELSE running[r].helpers
  <1>1. Read(r) = [address |-> running[r].address,
                   helpers |-> IF running[r].helpers = {} THEN state[r].helpers
                                                          ELSE running[r].helpers]
    BY DEF Read, UpdateModelFromInfo
  <1> QED
    BY <1>1, SviTypes, CellForm

LEMMA SviIsModel ==
    ASSUME TypeOK, NEW r \in SVI, want[r] # Absent, NEW m \in Cell(r), m # Absent,
           m.address = want[r].address, m.helpers = want[r].helpers
    PROVE  m = want[r]
  BY DEF TypeOK, Resource, File, Cell, Config

\* A refresh leaves settled what it does not find different.
LEMMA RefreshKeepsIInv ==
    ASSUME IInv, Refresh
    PROVE  IInv'
  <1>1. /\ pending = {} /\ pending' = Differs /\ clean' = TRUE
        /\ calm' = IF Differs = {} THEN Calmer ELSE calm
        /\ UNCHANGED <<running, want, spent>>
        /\ state' = [r \in Resource |-> Read(r)]
        /\ tainted' = { r \in tainted : Read(r) # Absent }
    BY DEF Refresh, Idle
  <1>2. TypeOK /\ Shown
    BY DEF IInv
  <1>3. ASSUME NEW r \in Resource
        PROVE  Read(r) \in Cell(r) \cup {Absent}
    <2>1. CASE r \in SVI /\ state[r] # Absent /\ running[r] # Absent
      BY <1>2, <2>1, ReadSvi
    <2>2. CASE ~(r \in SVI /\ state[r] # Absent /\ running[r] # Absent)
      BY <1>2, <2>2 DEF Read, TypeOK
    <2> QED
      BY <2>1, <2>2
  <1>4. TypeOK'
    <2>1. DOMAIN state' = Resource /\ \A s \in Resource : state'[s] \in Cell(s) \cup {Absent}
      BY <1>1, <1>3
    <2>2. pending' \in SUBSET Resource /\ clean' \in BOOLEAN /\ calm' \in 0..3
      BY <1>1, <1>2 DEF TypeOK, Differs, Calmer
    <2>3. tainted' \in SUBSET SVI
      BY <1>1, <1>2 DEF TypeOK
    <2> QED
      BY <1>1, <1>2, <2>1, <2>2, <2>3 DEF TypeOK, File, Cell
  <1>5. ASSUME NEW r \in SVI
        PROVE  /\ state'[r] # Absent => running'[r] # Absent
               /\ state'[r] # Absent /\ running'[r] # Absent /\ spent'["drift"] = 0 =>
                     state'[r].helpers = {} \/ running'[r].helpers # {}
    <2>1. state'[r] = Read(r)
      BY <1>1 DEF Resource
    <2>2. CASE state[r] = Absent \/ running[r] = Absent
      BY <2>1, <2>2 DEF Read
    <2>3. CASE state[r] # Absent /\ running[r] # Absent
      BY <1>1, <1>2, <2>1, <2>3, ReadSvi DEF Shown
    <2> QED
      BY <2>2, <2>3
  <1>6. Shown' /\ Fresh'
    BY <1>5 DEF Shown, Fresh
  <1>7. ASSUME NEW r \in Resource \ pending'
        PROVE  Settled(r)' /\ Configured(r)'
    <2>1. Read(r) = want[r] /\ ~(r \in tainted /\ Read(r) # Absent)
      BY <1>1 DEF Differs
    <2>2. state'[r] = want[r] /\ r \notin tainted'
      BY <1>1, <2>1
    <2>3. CASE want[r] = Absent
      BY <1>1, <2>2, <2>3 DEF Settled, Configured
    <2>4. CASE want[r] # Absent /\ r \notin SVI
      <3>1. running[r] = want[r]
        BY <2>1, <2>4 DEF Read
      <3> QED
        BY <1>1, <2>2, <2>4, <3>1 DEF Settled, Configured
    <2>5. CASE want[r] # Absent /\ r \in SVI
      <3>1. state[r] # Absent /\ running[r] # Absent
        BY <2>1, <2>5 DEF Read
      <3>2. /\ running[r].address = want[r].address
            /\ want[r].helpers = IF running[r].helpers = {} THEN state[r].helpers
                                                            ELSE running[r].helpers
        BY <1>2, <2>1, <2>5, <3>1, ReadSvi
      <3>3. spent["drift"] = 0 => state[r].helpers = {} \/ running[r].helpers # {}
        BY <1>2, <2>5, <3>1 DEF Shown
      <3>4. spent["drift"] \in Nat
        BY DEF IInv, Event
      <3>5. \/ running[r].helpers = want[r].helpers
            \/ running[r].helpers = {} /\ spent["drift"] > 0
        <4>1. CASE spent["drift"] = 0
          BY <3>2, <3>3, <4>1
        <4>2. CASE spent["drift"] > 0
          BY <3>2, <4>2
        <4> QED
          BY <3>4, <4>1, <4>2
      <3> QED
        BY <1>1, <2>2, <2>5, <3>1, <3>2, <3>5 DEF Settled, Configured
    <2> QED
      BY <2>3, <2>4, <2>5
  <1>8. ASSUME NEW r \in Resource, Settled(r), Configured(r)
        PROVE  r \notin Differs
    <2>1. state[r] = want[r] /\ r \notin tainted
      BY <1>8 DEF Settled
    <2>2. CASE want[r] = Absent
      BY <2>1, <2>2 DEF Differs, Read
    <2>3. CASE want[r] # Absent /\ r \notin SVI
      BY <1>8, <2>1, <2>3 DEF Differs, Read, Configured
    <2>4. CASE want[r] # Absent /\ r \in SVI
      <3>1. /\ running[r] # Absent /\ running[r].address = want[r].address
            /\ running[r].helpers = want[r].helpers \/ running[r].helpers = {}
        BY <1>8, <2>4 DEF Configured
      <3>2. Read(r) = want[r]
        BY <1>2, <2>1, <2>4, <3>1, ReadSvi, SviIsModel
      <3> QED
        BY <2>1, <3>2 DEF Differs
    <2> QED
      BY <2>2, <2>3, <2>4
  <1>9. calm' >= 1 => pending' \subseteq {"ip_routing"}
    <2>1. ASSUME calm >= 1, NEW r \in SVI PROVE r \notin Differs
      BY <1>1, <1>8, <2>1 DEF IInv, Resource, Settled
    <2> QED
      BY <1>1, <2>1 DEF Differs, Resource
  <1>10. ASSUME calm >= 2 PROVE Differs = {}
    BY <1>1, <1>8, <1>10 DEF IInv, TypeOK, Differs
  <1>11. calm' >= 2 => pending' = {} /\ \A r \in Resource : Configured(r)'
    <2>1. calm' >= 2 => Differs = {}
      BY <1>1, <1>2, <1>10
    <2> QED
      BY <1>1, <1>7, <2>1
  <1>12. spent' \in [Event -> Nat]
    BY <1>1 DEF IInv
  <1> QED
    BY <1>4, <1>6, <1>7, <1>9, <1>11, <1>12 DEF IInv

-----------------------------------------------------------------------------
LEMMA HappensOnce ==
    ASSUME IInv, NEW e \in Event, Happens(e)
    PROVE  /\ spent' \in [Event -> Nat] /\ spent'[e] > 0
           /\ \A f \in Event \ {e} : spent'[f] = spent[f]
  BY DEF IInv, Happens

LEMMA StepKeepsIInv == IInv /\ [Next]_vars => IInv'
  <1> SUFFICES ASSUME IInv, [Next]_vars
               PROVE  IInv'
    OBVIOUS
  <1>1. CASE Refresh
    BY <1>1, RefreshKeepsIInv
  <1>2. CASE WriteRouting
    BY <1>2, WriteRoutingKeepsIInv
  <1>3. ASSUME NEW r \in SVI, WriteSvi(r) \/ DestroySvi(r)
        PROVE  IInv'
    BY <1>3, WriteSviKeepsIInv, DestroySviKeepsIInv
  <1>4. ASSUME NEW r \in Resource, OperationFails(r)
        PROVE  IInv'
    <2>1. /\ r \in pending /\ Leave(r, FALSE) /\ running' \in Stopped(r)
          /\ UNCHANGED <<want, state, tainted>> /\ Happens("fail")
      BY <1>4 DEF OperationFails
    <2>2. spent' \in [Event -> Nat] /\ spent'["drift"] = spent["drift"]
      BY <2>1, HappensOnce DEF Event
    <2>3. Touches(r, running') /\ TypeOK
      BY <2>1, StoppedTouches DEF IInv
    <2>4. TypeOK'
      <3>1. pending' \in SUBSET Resource /\ clean' \in BOOLEAN /\ calm' \in 0..3
        BY <2>1, <2>3 DEF TypeOK, Leave
      <3> QED
        BY <2>1, <2>3, <3>1 DEF TypeOK, Touches, File, Cell
    <2>5. pending' = pending \ {r} /\ \A s \in SVI \ {r} : running'[s] = running[s]
      BY <2>1, <2>3 DEF Touches, Leave
    <2>6. Fresh'
      BY <2>1, <2>5 DEF IInv, Fresh
    <2>7. Shown'
      <3>1. ASSUME r \in SVI, state'[r] # Absent, running'[r] # Absent, spent'["drift"] = 0
            PROVE  state'[r].helpers = {} \/ running'[r].helpers # {}
        <4>1. running[r] # Absent
          BY <2>1, <3>1 DEF IInv, Fresh
        <4> QED
          BY <2>1, <2>2, <2>3, <3>1, <4>1 DEF IInv, Shown, Touches
      <3> QED
        BY <2>1, <2>2, <2>5, <3>1 DEF IInv, Shown
    <2> QED
      BY <2>1, <2>2, <2>4, <2>6, <2>7, FailureKeepsIInv
  <1>5. ASSUME NEW r \in Resource, NEW v \in File(r), Edit(r, v)
        PROVE  IInv'
    <2>1. /\ pending' = {} /\ calm' = 0 /\ want' = [want EXCEPT ![r] = v] /\ Happens("edit")
          /\ UNCHANGED <<state, tainted, running, pending, clean>>
      BY <1>5 DEF Edit, Idle
    <2>2. spent' \in [Event -> Nat] /\ spent'["drift"] = spent["drift"]
      BY <2>1, HappensOnce DEF Event
    <2>3. TypeOK'
      BY <2>1 DEF IInv, TypeOK, File, Cell
    <2> QED
      BY <2>1, <2>2, <2>3 DEF IInv, Shown, Fresh
  <1>6. ASSUME NEW r \in Resource, NEW v \in Cell(r), Drift(r, v)
        PROVE  IInv'
    <2>1. /\ pending' = {} /\ calm' = 0 /\ running' = [running EXCEPT ![r] = v]
          /\ Happens("drift") /\ UNCHANGED <<want, state, tainted, pending, clean>>
      BY <1>6 DEF Drift, Idle
    <2>2. spent' \in [Event -> Nat] /\ spent'["drift"] > 0
      BY <2>1, HappensOnce DEF Event
    <2>3. TypeOK'
      BY <2>1 DEF IInv, TypeOK, File, Cell
    <2> QED
      BY <2>1, <2>2, <2>3 DEF IInv, Shown, Fresh
  <1>7. CASE UNCHANGED vars
    BY <1>7 DEF vars, IInv, TypeOK, Settled, Configured, File, Cell, Shown, Fresh
  <1> QED
    BY <1>1, <1>2, <1>3, <1>4, <1>5, <1>6, <1>7 DEF Next

(***************************************************************************)
(* Two complete applies of one file leave every resource as the file says, *)
(* although an SVI overwrites the routing that cisco_ip_routing manages,   *)
(* and although helpers are only ever added; helpers stay away only where  *)
(* somebody has removed all of them by hand.                               *)
(***************************************************************************)
THEOREM TwoAppliesAreEnough == Spec => []TwoAppliesSettle
  <1>1. Init => IInv
    <2> SUFFICES ASSUME Init PROVE IInv
      OBVIOUS
    <2>1. PICK svis \in [SVI -> Config \cup {Absent}], routing \in File("ip_routing") :
             want = [r \in Resource |-> IF r \in SVI THEN svis[r] ELSE routing]
      BY DEF Init
    <2>2. DOMAIN want = Resource /\ \A r \in Resource : want[r] \in File(r)
      BY <2>1 DEF Resource, File
    <2>3. \A r \in Resource : state[r] \in Cell(r) \cup {Absent}
      BY DEF Init
    <2>4. \A r \in Resource : running[r] \in Cell(r)
      <3>1. ASSUME NEW r \in Resource PROVE running[r] \in Cell(r)
        <4>1. CASE r \in SVI
          BY <4>1 DEF Init, Cell, Resource
        <4>2. CASE r \notin SVI
          BY <4>2 DEF Init, Cell, Resource
        <4> QED
          BY <4>1, <4>2
      <3> QED
        BY <3>1
    <2>5. DOMAIN state = Resource /\ DOMAIN running = Resource
      BY DEF Init
    <2>6. /\ tainted \in SUBSET SVI /\ pending \in SUBSET Resource
          /\ clean \in BOOLEAN /\ calm \in 0..3
      BY DEF Init
    <2>7. TypeOK
      BY <2>2, <2>3, <2>4, <2>5, <2>6 DEF TypeOK
    <2> QED
      BY <2>7 DEF Init, IInv, Shown, Fresh, Resource
  <1>2. IInv => TwoAppliesSettle
    BY DEF IInv, TypeOK, TwoAppliesSettle
  <1> QED
    BY <1>1, <1>2, StepKeepsIInv, PTL DEF Spec

=============================================================================
