------------------------- MODULE ClientTraffic_proof -------------------------
(***************************************************************************)
(* ClientTraffic for any number of clients, edits, restarts and units of   *)
(* traffic, with one administrator at work: all traffic is accounted for,  *)
(* every client that may be served is metered, and a client that is        *)
(* deleted or switched off does not stay a user of the core.               *)
(***************************************************************************)
EXTENDS ClientTraffic, TLAPS

\* One request that changes clients at a time.
OneEditor == \A e, f \in Editors : e = f

-----------------------------------------------------------------------------
(* The inductive invariant.                                                *)

\* Rows and deltas without their bounds, which follow from the counts.
Row == [enable : BOOLEAN, exp : Times, used : Nat, all : Nat]
Copy(f) == DOMAIN f \subseteq Clients /\ f \in [DOMAIN f -> Entries]

\* The types of what is stored and counted.
Stocked ==
    /\ Copy(settings)
    /\ Metered \subseteq Clients /\ rows \in [Metered -> Row]
    /\ counter \in [Clients -> Nat] /\ batch \in [Clients -> Nat] /\ gen \in [Clients -> Nat]
    /\ raced \subseteq Clients
    /\ events \in 0 .. MaxEvents

\* The types of the rest.
Control ==
    /\ dbLock \in Procs \cup {NoOne}
    /\ served \subseteq Clients /\ startCfg \subseteq Clients /\ cfg \subseteq Clients
    /\ connected \subseteq Clients /\ listed \subseteq Clients
    /\ pc \in [Procs -> {"idle", "act", "save", "add", "tx", "read", "start"}]
    /\ gap \subseteq Clients /\ deleted \subseteq Clients
    /\ fault \subseteq FaultKinds
    /\ edits \in 0 .. MaxEdits /\ restarts \in 0 .. MaxRestarts
Flags == need \in BOOLEAN /\ forced \in BOOLEAN /\ ask \in [Procs -> BOOLEAN]

\* What was counted is no more than what happened; of a row, used is part of all.
Counted ==
    /\ \A c \in Clients : counter[c] + batch[c] <= events /\ gen[c] <= events
    /\ \A c \in Metered :
        /\ rows[c].used <= rows[c].all
        /\ rows[c].all + counter[c] + batch[c] <= gen[c]
        /\ \/ "busy" \in fault \/ c \in raced
           \/ rows[c].all + counter[c] + batch[c] = gen[c]

\* What an edit in progress has read is what is stored, but for times and traffic.
Reading(w) ==
    \/ /\ w.kind \in {"add", "update"} /\ w.client \in Clients /\ w.entry \in Entries
       /\ Copy(w.copy) /\ DOMAIN w.copy = Stored
       /\ w.kind = "update" => w.client \in Stored
    \/ /\ w.kind = "delete" /\ w.client \in Stored
       /\ Copy(w.copy) /\ DOMAIN w.copy = Stored
    \/ /\ w.kind = "reset" /\ w.client \in Metered /\ w.row \in Row
       /\ w.row.all <= rows[w.client].all
    \/ /\ w.kind = "deplete" /\ w.gone \subseteq Clients
       /\ Copy(w.copy) /\ DOMAIN w.copy = Stored
Edits ==
    /\ work = [e \in Editors |-> work[e]]
    /\ \A e \in Editors :
        /\ pc[e] = "idle" => work[e] = Idle
        /\ pc[e] # "idle" => Reading(work[e])

\* A row and its client go together, except while a deletion is half done.
Deleting(c) == \E e \in Editors : /\ pc[e] = "save" /\ work[e].kind = "delete"
                                  /\ work[e].client = c
Paired ==
    /\ \A c \in Clients : Deleting(c) => c \notin Metered
    /\ \A c \in Clients \ raced : (c \in Stored <=> c \in Metered) \/ Deleting(c)

\* Between its runs the job holds nothing it has taken from the counters.
Taken == pc[Job] = "idle" => batch = Cleared

Inv == Flags /\ Control /\ Stocked /\ Counted /\ Edits /\ Paired /\ Taken

-----------------------------------------------------------------------------
(* What is stored.                                                         *)

\* The invariant says what the properties say.
LEMMA InvImplies == Inv => TrafficAccounted /\ ClientsAreMetered
<1> SUFFICES ASSUME Inv PROVE TrafficAccounted /\ ClientsAreMetered
  OBVIOUS
<1>1. /\ Stored \subseteq Clients /\ settings \in [Stored -> Entries]
  BY DEF Inv, Stocked, Copy, Stored
<1>2. events \in Nat /\ events <= MaxEvents /\ MaxEvents \in Nat
  BY BoundsAssumption DEF Inv, Stocked
<1>3. \A c \in Clients : counter[c] \in Nat /\ batch[c] \in Nat /\ gen[c] \in Nat
  BY DEF Inv, Stocked
<1>4. counter \in [Clients -> 0 .. MaxEvents] /\ batch \in [Clients -> 0 .. MaxEvents]
      /\ gen \in [Clients -> 0 .. MaxEvents]
  <2>1. \A c \in Clients : /\ counter[c] \in 0 .. MaxEvents /\ batch[c] \in 0 .. MaxEvents
                           /\ gen[c] \in 0 .. MaxEvents
    BY <1>2, <1>3 DEF Inv, Counted
  <2>2. /\ counter \in [Clients -> Nat] /\ batch \in [Clients -> Nat] /\ gen \in [Clients -> Nat]
    BY DEF Inv, Stocked
  <2> QED BY <2>1, <2>2
<1>5. Metered \subseteq Clients /\ rows \in [Metered -> Rows]
  <2>1. Metered \subseteq Clients /\ rows \in [Metered -> Row]
    BY DEF Inv, Stocked
  <2>2. ASSUME NEW c \in Metered PROVE rows[c] \in Rows
    <3>1. rows[c] \in Row /\ c \in Clients
      BY <2>1
    <3>2. rows[c].used <= rows[c].all /\ rows[c].all + counter[c] + batch[c] <= gen[c]
      BY DEF Inv, Counted
    <3>3. rows[c].used \in Nat /\ rows[c].all \in Nat
      BY <3>1 DEF Row
    <3>4. gen[c] <= events
      BY <3>1 DEF Inv, Counted
    <3>5. rows[c].used \in 0 .. MaxEvents /\ rows[c].all \in 0 .. MaxEvents
      BY <1>2, <1>3, <3>1, <3>2, <3>3, <3>4
    <3> QED BY <3>1, <3>5 DEF Row, Rows
  <2> QED BY <2>1, <2>2
<1>6. \A e \in Editors : work[e] = Idle <=> pc[e] = "idle"
  <2>1. ASSUME NEW e \in Editors, pc[e] # "idle" PROVE work[e] # Idle
    <3>1. work[e].kind \in {"add", "update", "delete", "reset", "deplete"}
      BY <2>1 DEF Inv, Edits, Reading
    <3> QED BY <3>1 DEF Idle
  <2> QED BY <2>1 DEF Inv, Edits
<1>7. TypeOK
  BY <1>1, <1>4, <1>5, <1>6, Zenon DEF TypeOK, Inv, Flags, Control, Stocked
<1>8. TrafficAccounted
  <2>1. ASSUME NEW c \in Metered
        PROVE  LET seen == rows[c].all + counter[c] + batch[c] IN
               /\ seen <= gen[c]
               /\ "busy" \in fault \/ c \in raced \/ seen = gen[c]
    BY Zenon DEF Inv, Counted
  <2> QED BY <1>7, <2>1, Zenon DEF TrafficAccounted
<1>9. ClientsAreMetered
  <2> SUFFICES ASSUME Quiet, NEW c \in Clients \ raced PROVE c \in Stored <=> c \in Metered
    BY Zenon DEF ClientsAreMetered
  <2>1. ~ Deleting(c)
    BY DEF Quiet, Deleting, Procs
  <2> QED BY <2>1, Zenon DEF Inv, Paired
<1> QED BY <1>8, <1>9

\* It holds when the core starts.
LEMMA InitInv == Init => Inv
<1> SUFFICES ASSUME Init PROVE Inv
  OBVIOUS
<1> USE ClientsAssumption, BoundsAssumption
<1>1. Flags
  <2>1. need \in BOOLEAN /\ forced \in BOOLEAN
    BY Zenon DEF Init
  <2>2. ask \in [Procs -> BOOLEAN]
    BY DEF Init
  <2> QED BY <2>1, <2>2, Zenon DEF Flags
<1>2. PICK S \in SUBSET Clients, x \in Entries : settings = [c \in S |-> x]
  BY DEF Init
<1>3. Stored = S /\ Copy(settings) /\ Stored \subseteq Clients
  BY <1>2 DEF Stored, Copy
<1>4. Control
  BY <1>3 DEF Init, Control
<1>5. /\ Metered = Stored
      /\ \A c \in Metered : /\ rows[c].enable = settings[c].enable /\ rows[c].exp = settings[c].exp
                            /\ rows[c].used = 0 /\ rows[c].all = 0
      /\ rows = [c \in Metered |-> [enable |-> settings[c].enable, exp |-> settings[c].exp,
                                    used |-> 0, all |-> 0]]
  <2>1. rows = [c \in Stored |-> [enable |-> settings[c].enable, exp |-> settings[c].exp,
                                  used |-> 0, all |-> 0]]
    BY DEF Init
  <2>2. Metered = Stored
    BY <2>1 DEF Metered
  <2> QED BY <2>1, <2>2
<1>6. Stocked
  <2>1. ASSUME NEW c \in Metered
        PROVE  [enable |-> settings[c].enable, exp |-> settings[c].exp, used |-> 0, all |-> 0] \in Row
    <3>1. settings[c] \in Entries
      BY <1>3, <1>5 DEF Copy, Stored
    <3> QED BY <3>1 DEF Entries, Row
  <2>2. rows \in [Metered -> Row]
    BY <2>1, <1>5
  <2> QED BY <2>2, <1>3, <1>5 DEF Init, Stocked
<1>7. Counted
  BY <1>3, <1>5 DEF Init, Counted
<1>8. Edits
  BY DEF Init, Edits, Procs
<1>9. Paired
  <2>1. \A c \in Clients : ~ Deleting(c)
    BY DEF Init, Deleting, Procs
  <2> QED BY <2>1, <1>5, Zenon DEF Paired
<1>10. Taken
  BY DEF Init, Taken, Cleared
<1> QED BY <1>1, <1>4, <1>6, <1>7, <1>8, <1>9, <1>10 DEF Inv

\* A row changed by AddTraffic, field by field.
LEMMA RowCounted ==
    ASSUME NEW r \in Row, NEW d \in Nat, NEW t \in Times,
           NEW g, g = [r EXCEPT !.used = @ + d, !.all = @ + d, !.exp = t]
    PROVE  g = [enable |-> r.enable, exp |-> t, used |-> r.used + d, all |-> r.all + d]
  BY Zenon DEF Row

\* A row changed by a renewal, field by field.
LEMMA RowRenewed ==
    ASSUME NEW r \in Row, NEW g, g = [r EXCEPT !.exp = "future", !.used = 0, !.enable = TRUE]
    PROVE  g = [enable |-> TRUE, exp |-> "future", used |-> 0, all |-> r.all]
  BY Zenon DEF Row

\* A row changed by a switch, field by field.
LEMMA RowSwitched ==
    ASSUME NEW r \in Row, NEW b \in BOOLEAN, NEW g, g = [r EXCEPT !.enable = @ /\ b]
    PROVE  g = [enable |-> r.enable /\ b, exp |-> r.exp, used |-> r.used, all |-> r.all]
  BY Zenon DEF Row

\* A row changed by ResetClientTraffic, field by field.
LEMMA RowReset ==
    ASSUME NEW r \in Row, NEW g, g = [r EXCEPT !.used = 0, !.enable = TRUE]
    PROVE  g = [enable |-> TRUE, exp |-> r.exp, used |-> 0, all |-> r.all]
  BY Zenon DEF Row

\* A row changed by ResetAllClientTraffics, field by field.
LEMMA RowsReset ==
    ASSUME NEW r \in Row, NEW g, g = [r EXCEPT !.enable = TRUE, !.used = 0]
    PROVE  g = [enable |-> TRUE, exp |-> r.exp, used |-> 0, all |-> r.all]
  BY Zenon DEF Row

\* A row changed by time, field by field.
LEMMA RowExpired ==
    ASSUME NEW r \in Row, NEW g, g = [r EXCEPT !.exp = "past"]
    PROVE  g = [enable |-> r.enable, exp |-> "past", used |-> r.used, all |-> r.all]
  BY Zenon DEF Row

\* A row of such fields.
LEMMA RowMade ==
    ASSUME NEW b \in BOOLEAN, NEW t \in Times, NEW u \in Nat, NEW a \in Nat
    PROVE  [enable |-> b, exp |-> t, used |-> u, all |-> a] \in Row
  BY DEF Row

\* And of an entry.
LEMMA EntryChanges ==
    ASSUME NEW x \in Entries, NEW t \in Times
    PROVE  /\ [x EXCEPT !.exp = t] \in Entries
           /\ Started(t) \in Times
<1>1. [x EXCEPT !.exp = t] \in Entries
  BY Zenon DEF Entries
<1>2. Started(t) \in Times
  BY DEF Started, Times
<1> QED BY <1>1, <1>2

\* AddTraffic adds the deltas to the rows and keeps clients and types.
LEMMA AfterFacts ==
    ASSUME Stocked, NEW d \in [Clients -> Nat], NEW l
    PROVE  /\ DOMAIN After(d, l).rows = Metered
           /\ \A c \in Metered :
                 /\ After(d, l).rows[c] \in Row
                 /\ After(d, l).rows[c].all = rows[c].all + d[c]
                 /\ rows[c].used <= rows[c].all =>
                       After(d, l).rows[c].used <= After(d, l).rows[c].all
           /\ DOMAIN After(d, l).settings = Stored /\ Copy(After(d, l).settings)
           /\ After(d, l).on \subseteq Clients /\ After(d, l).off \subseteq Clients
<1> DEFINE starting == {c \in Metered \cap Stored : c \in l /\ rows[c].exp = "delayed"}
<1> DEFINE counted == [c \in Metered |->
            [rows[c] EXCEPT !.used = @ + d[c], !.all = @ + d[c],
                            !.exp = IF c \in starting THEN Started(settings[c].exp) ELSE @]]
<1> DEFINE renewed == {c \in Renewing \cap Metered \cap Stored : counted[c].exp = "past"}
<1> DEFINE fresh == [c \in Metered |->
            IF c \in renewed
            THEN [counted[c] EXCEPT !.exp = "future", !.used = 0, !.enable = TRUE]
            ELSE counted[c]]
<1> DEFINE over == {c \in Metered : fresh[c].enable /\ Depleted(fresh[c])}
<1> DEFINE R == [c \in Metered |-> [fresh[c] EXCEPT !.enable = @ /\ c \notin over]]
<1> DEFINE X == [c \in Stored |->
            [settings[c] EXCEPT !.exp = IF c \in renewed THEN "future"
                                        ELSE IF c \in starting THEN Started(@) ELSE @]]
<1>1. After(d, l) = [rows |-> R, settings |-> X, on |-> {c \in renewed : ~rows[c].enable}, off |-> over]
  BY DEF After
<1>2. \A c \in Metered : rows[c] \in Row /\ d[c] \in Nat /\ c \in Clients
  BY DEF Stocked
<1>3. \A c \in Stored : settings[c] \in Entries /\ settings[c].exp \in Times /\ c \in Clients
  BY DEF Stocked, Copy, Stored, Entries
<1>4. \A c \in Metered : c \in starting => Started(settings[c].exp) \in Times
  BY <1>3, EntryChanges
<1>5. \A c \in Metered : rows[c].exp \in Times
  BY <1>2 DEF Row
<1>6. \A c \in Metered : \E t \in Times :
         counted[c] = [enable |-> rows[c].enable, exp |-> t,
                       used |-> rows[c].used + d[c], all |-> rows[c].all + d[c]]
  <2> SUFFICES ASSUME NEW c \in Metered
               PROVE  \E t \in Times :
                         counted[c] = [enable |-> rows[c].enable, exp |-> t,
                                       used |-> rows[c].used + d[c], all |-> rows[c].all + d[c]]
    BY Zenon
  <2> DEFINE t == IF c \in starting THEN Started(settings[c].exp) ELSE rows[c].exp
  <2>1. t \in Times
    <3>1. CASE c \in starting
      BY <3>1, <1>4, Zenon
    <3>2. CASE c \notin starting
      BY <3>2, <1>5, Zenon
    <3> QED BY <3>1, <3>2, Zenon
  <2>2. counted[c] = [rows[c] EXCEPT !.used = @ + d[c], !.all = @ + d[c], !.exp = t]
    BY Zenon
  <2> HIDE DEF t, counted
  <2>3. counted[c] = [enable |-> rows[c].enable, exp |-> t,
                      used |-> rows[c].used + d[c], all |-> rows[c].all + d[c]]
    BY <2>1, <2>2, <1>2, RowCounted, Zenon
  <2> QED BY <2>1, <2>3, Zenon
<1> HIDE DEF starting, counted
<1>7. \A c \in Metered : /\ counted[c] \in Row /\ counted[c].all = rows[c].all + d[c]
                         /\ counted[c].used = rows[c].used + d[c]
  <2> SUFFICES ASSUME NEW c \in Metered
               PROVE  /\ counted[c] \in Row /\ counted[c].all = rows[c].all + d[c]
                      /\ counted[c].used = rows[c].used + d[c]
    BY Zenon
  <2>1. PICK t \in Times :
           counted[c] = [enable |-> rows[c].enable, exp |-> t,
                         used |-> rows[c].used + d[c], all |-> rows[c].all + d[c]]
    BY <1>6, Zenon
  <2>2. rows[c].enable \in BOOLEAN /\ rows[c].used \in Nat /\ rows[c].all \in Nat /\ d[c] \in Nat
    BY <1>2 DEF Row
  <2> QED BY <2>1, <2>2 DEF Row
<1>8. \A c \in Metered : fresh[c] = counted[c]
         \/ fresh[c] = [enable |-> TRUE, exp |-> "future", used |-> 0, all |-> counted[c].all]
  <2> SUFFICES ASSUME NEW c \in Metered
               PROVE  fresh[c] = counted[c]
                      \/ fresh[c] = [enable |-> TRUE, exp |-> "future", used |-> 0,
                                     all |-> counted[c].all]
    BY Zenon
  <2>1. CASE c \in renewed
    <3>1. fresh[c] = [counted[c] EXCEPT !.exp = "future", !.used = 0, !.enable = TRUE]
      BY <2>1, Zenon
    <3> HIDE DEF fresh
    <3> QED BY <3>1, <1>7, RowRenewed, Zenon
  <2>2. CASE c \notin renewed
    BY <2>2, Zenon
  <2> QED BY <2>1, <2>2, Zenon
<1>9. /\ renewed \subseteq Clients
      /\ \A c \in renewed : c \in Stored
  BY <1>2
<1> HIDE DEF renewed, fresh
<1>10. \A c \in Metered : /\ fresh[c] \in Row /\ fresh[c].all = rows[c].all + d[c]
                          /\ rows[c].used <= rows[c].all => fresh[c].used <= fresh[c].all
  <2> SUFFICES ASSUME NEW c \in Metered
               PROVE  /\ fresh[c] \in Row /\ fresh[c].all = rows[c].all + d[c]
                      /\ rows[c].used <= rows[c].all => fresh[c].used <= fresh[c].all
    BY Zenon
  <2>1. /\ counted[c] \in Row /\ counted[c].all = rows[c].all + d[c]
        /\ counted[c].used = rows[c].used + d[c]
    BY <1>7
  <2>2. rows[c].used \in Nat /\ rows[c].all \in Nat /\ d[c] \in Nat
    BY <1>2 DEF Row
  <2>3. CASE fresh[c] = counted[c]
    BY <2>1, <2>2, <2>3
  <2>4. CASE fresh[c] = [enable |-> TRUE, exp |-> "future", used |-> 0, all |-> counted[c].all]
    BY <2>1, <2>2, <2>4 DEF Row, Times
  <2> QED BY <2>3, <2>4, <1>8
<1>11. over \subseteq Clients
  BY <1>2
<1>12. \A c \in Metered : /\ R[c] \in Row /\ R[c].all = fresh[c].all /\ R[c].used = fresh[c].used
  <2> SUFFICES ASSUME NEW c \in Metered
               PROVE  R[c] \in Row /\ R[c].all = fresh[c].all /\ R[c].used = fresh[c].used
    BY Zenon
  <2> DEFINE b == c \notin over
  <2>1. R[c] = [fresh[c] EXCEPT !.enable = @ /\ b]
    BY Zenon
  <2>2. b \in BOOLEAN
    BY Zenon
  <2> HIDE DEF R, b, over
  <2>3. R[c] = [enable |-> fresh[c].enable /\ b, exp |-> fresh[c].exp,
                used |-> fresh[c].used, all |-> fresh[c].all]
    BY <2>1, <2>2, <1>10, RowSwitched, Zenon
  <2> DEFINE v == fresh[c].enable /\ b
  <2>4. v \in BOOLEAN
    BY Zenon
  <2>5. R[c] = [enable |-> v, exp |-> fresh[c].exp, used |-> fresh[c].used, all |-> fresh[c].all]
    BY <2>3, Zenon
  <2> HIDE DEF v
  <2>6. fresh[c].exp \in Times /\ fresh[c].used \in Nat /\ fresh[c].all \in Nat
    BY <1>10 DEF Row
  <2>7. R[c] \in Row
    BY <2>4, <2>5, <2>6, RowMade, Zenon
  <2> QED BY <2>5, <2>7
<1>13. DOMAIN X = Stored /\ \A c \in Stored : X[c] \in Entries
  <2>1. DOMAIN X = Stored
    BY Zenon
  <2>2. ASSUME NEW c \in Stored PROVE X[c] \in Entries
    <3> DEFINE t == IF c \in renewed THEN "future"
                    ELSE IF c \in starting THEN Started(settings[c].exp) ELSE settings[c].exp
    <3>1. X[c] = [settings[c] EXCEPT !.exp = t]
      BY Zenon
    <3>2. t \in Times
      <4>1. "future" \in Times
        BY DEF Times
      <4>2. settings[c].exp \in Times /\ Started(settings[c].exp) \in Times
        BY <1>3, EntryChanges, Zenon
      <4> QED BY <4>1, <4>2, Zenon
    <3> HIDE DEF X, t
    <3> QED BY <3>1, <3>2, <1>3, EntryChanges, Zenon
  <2> QED BY <2>1, <2>2, Zenon
<1>14. X \in [Stored -> Entries] /\ DOMAIN R = Metered
  <2>1. DOMAIN R = Metered
    BY Zenon
  <2>2. X = [c \in Stored |-> X[c]]
    BY Zenon
  <2> HIDE DEF X
  <2> QED BY <2>1, <2>2, <1>13, Zenon
<1>15. \A c \in renewed : c \in Clients
  BY <1>9, Zenon
<1> DEFINE on == {c \in renewed : ~rows[c].enable}
<1>18. After(d, l) = [rows |-> R, settings |-> X, on |-> on, off |-> over]
  BY <1>1, Zenon
<1> HIDE DEF X, R, over, on
<1>16. After(d, l).rows = R /\ After(d, l).settings = X /\ After(d, l).off = over /\ After(d, l).on = on
  BY <1>18
<1>19. on \subseteq Clients
  BY <1>15, Zenon DEF on
<1>17. Copy(X)
  BY <1>13, <1>14, <1>3, Zenon DEF Copy
<1> QED BY <1>10, <1>11, <1>12, <1>13, <1>14, <1>16, <1>17, <1>19

-----------------------------------------------------------------------------
(* What the steps share.                                                   *)

Pcs == {"idle", "act", "save", "add", "tx", "read", "start"}

\* The processes.
LEMMA ProcFacts ==
    /\ Job \in Procs /\ Restart \in Procs /\ Editors \subseteq Procs
    /\ \A e \in Editors : e # Job /\ e # Restart
  BY ClientsAssumption DEF Procs

\* A process moves and the others stay.
LEMMA GotoFacts ==
    ASSUME Control, NEW p \in Procs, NEW from, NEW to \in Pcs, Goto(p, from, to)
    PROVE  /\ pc' \in [Procs -> Pcs] /\ pc[p] = from /\ pc'[p] = to
           /\ \A q \in Procs : q # p => pc'[q] = pc[q]
  BY DEF Control, Goto, Pcs

\* The API calls change users and flags, and may meet a fault.
LEMMA AlterFacts ==
    ASSUME Flags, Control, NEW p \in Procs, NEW off, NEW on, on \subseteq Clients,
           Alter(p, off, on)
    PROVE  /\ ask' \in [Procs -> BOOLEAN] /\ served' \subseteq Clients
           /\ fault' \subseteq FaultKinds /\ fault \subseteq fault'
<1>0. ask \in [Procs -> BOOLEAN]
  BY Zenon DEF Flags
<1>1. CASE /\ served' = (served \ off) \cup on
           /\ ask' = [ask EXCEPT ![p] = @ \/ on \cap (served \ off) # {}]
           /\ UNCHANGED fault
  <2>1. ask' \in [Procs -> BOOLEAN]
    <3> DEFINE v == ask[p] \/ on \cap (served \ off) # {}
    <3>1. v \in BOOLEAN
      BY Zenon
    <3>2. ask' = [ask EXCEPT ![p] = v]
      BY <1>1, Zenon
    <3> HIDE DEF v
    <3> QED BY <1>0, <3>1, <3>2
  <2> QED BY <2>1, <1>1 DEF Control
<1>2. CASE /\ off \cup on # {}
           /\ Fault("api")
           /\ ask' = [ask EXCEPT ![p] = TRUE]
           /\ UNCHANGED served
  BY <1>0, <1>2 DEF Control, Fault
<1> QED BY <1>1, <1>2, Zenon DEF Alter

\* A Boolean is set.
LEMMA AskCleared ==
    ASSUME Flags, NEW p \in Procs, ask' = [ask EXCEPT ![p] = FALSE]
    PROVE  ask' \in [Procs -> BOOLEAN]
<1>1. ask \in [Procs -> BOOLEAN]
  BY Zenon DEF Flags
<1> QED BY <1>1

\* A call returns.
LEMMA AnsweredFacts ==
    ASSUME Flags, NEW e \in Editors, work = [f \in Editors |-> work[f]], Answered(e),
           forced' = forced
    PROVE  /\ Flags'
           /\ work' = [f \in Editors |-> work'[f]] /\ work'[e] = Idle
           /\ \A f \in Editors : f # e => work'[f] = work[f]
<1>1. ask' \in [Procs -> BOOLEAN]
  BY AskCleared, ProcFacts DEF Answered
<1>2. need' \in BOOLEAN
  BY Zenon DEF Answered
<1>3. forced' \in BOOLEAN
  BY Zenon DEF Flags
<1>4. work' = [work EXCEPT ![e] = Idle]
  BY DEF Answered
<1>5. /\ work' = [f \in Editors |-> work'[f]] /\ work'[e] = Idle
      /\ \A f \in Editors : f # e => work'[f] = work[f]
  BY <1>4
<1> QED BY <1>1, <1>2, <1>3, <1>5, Zenon DEF Flags

\* Nothing that is counted or stored changes, and no edit moves, or one that is no
\* deletion goes on.
LEMMA Undisturbed ==
    ASSUME Stocked, Counted, Edits, Paired,
           UNCHANGED <<settings, rows, counter, connected, batch, listed, gen, raced,
                       events, work>>,
           fault \subseteq fault',
           \A e \in Editors : \/ pc'[e] = pc[e]
                              \/ /\ pc[e] # "idle" /\ pc'[e] # "idle" /\ work[e].kind # "delete"
    PROVE  Stocked' /\ Counted' /\ Edits' /\ Paired'
<1>1. Stored' = Stored /\ Metered' = Metered
  BY DEF Stored, Metered
<1>2. Stocked'
  <2>1. Copy(settings)'
    BY Zenon DEF Stocked, Copy, Entries
  <2> QED BY <2>1, <1>1, Zenon DEF Stocked, Row
<1>3. Counted'
  BY <1>1 DEF Counted
<1>4. Edits'
  <2>1. ASSUME NEW w, Reading(w) PROVE Reading(w)'
    BY <1>1, <2>1 DEF Reading
  <2> QED BY <2>1, Zenon DEF Edits
<1>5. \A c : Deleting(c)' <=> Deleting(c)
  BY DEF Deleting
<1>6. Paired'
  BY <1>1, <1>5, Zenon DEF Paired
<1> QED BY <1>2, <1>3, <1>4, <1>6

\* An edit in progress is not disturbed by a step that keeps the clients and the rows
\* and takes back no traffic.
LEMMA EditsKept ==
    ASSUME Edits, Paired, Stored' = Stored, Metered' = Metered, Stocked, Stocked',
           \A c \in Metered : rows[c].all <= rows'[c].all,
           UNCHANGED <<work, raced>>, \A e \in Editors : pc'[e] = pc[e]
    PROVE  Edits' /\ Paired'
<1>1. \A c \in Metered : rows[c].all \in Nat /\ rows'[c].all \in Nat
  BY DEF Stocked, Row
<1>2. ASSUME NEW w, Reading(w) PROVE Reading(w)'
  <2>1. CASE w.kind = "reset" /\ w.client \in Metered /\ w.row \in Row
             /\ w.row.all <= rows[w.client].all
    <3>1. w.row.all \in Nat
      BY <2>1 DEF Row
    <3>2. w.row.all <= rows'[w.client].all
      BY <2>1, <3>1, <1>1
    <3> QED BY <2>1, <3>2, Zenon DEF Reading, Row
  <2>2. CASE ~ (w.kind = "reset" /\ w.client \in Metered /\ w.row \in Row
                /\ w.row.all <= rows[w.client].all)
    BY <2>2, <1>2, Zenon DEF Reading
  <2> QED BY <2>1, <2>2
<1>3. Edits'
  BY <1>2, Zenon DEF Edits
<1>4. \A c : Deleting(c)' <=> Deleting(c)
  BY Zenon DEF Deleting
<1>5. Paired'
  BY <1>4, Zenon DEF Paired
<1> QED BY <1>3, <1>5

-----------------------------------------------------------------------------
(* Steps that leave what is stored and counted alone.                      *)

\* Editors stay where they are when another process moves.
LEMMA OthersMove ==
    ASSUME Control, NEW p \in {Job, Restart}, NEW from, NEW to \in Pcs, Goto(p, from, to)
    PROVE  /\ pc' \in [Procs -> Pcs] /\ \A e \in Editors : pc'[e] = pc[e]
<1>1. p \in Procs /\ \A e \in Editors : e \in Procs /\ e # p
  BY ProcFacts
<1> QED BY <1>1, GotoFacts

\* An edit does not move the job.
LEMMA TakenKept ==
    ASSUME Control, Taken, NEW e \in Editors, NEW from, NEW to, Goto(e, from, to), batch' = batch
    PROVE  Taken'
<1>1. pc'[Job] = pc[Job]
  BY ProcFacts DEF Control, Goto
<1> QED BY <1>1, Zenon DEF Taken

\* The traffic transaction begins.
LEMMA AddTrafficBeginsStep ==
    ASSUME Inv, NEW p \in {Job, Restart}, AddTrafficBegins(p)
    PROVE  Inv'
<1>0. Flags /\ Control /\ Stocked /\ Counted /\ Edits /\ Paired /\ Taken
  BY DEF Inv
<1>1. p \in Procs
  BY ProcFacts
<1>2. Delta(p) \in [Clients -> Nat]
  <2>1. batch \in [Clients -> Nat]
    BY <1>0 DEF Stocked
  <2> QED BY <2>1 DEF Delta
<1>3. After(Delta(p), Listed(p)).on \subseteq Clients
  BY <1>0, <1>2, AfterFacts
<1>4. /\ ask' \in [Procs -> BOOLEAN] /\ served' \subseteq Clients
      /\ fault' \subseteq FaultKinds /\ fault \subseteq fault'
  <2>1. Alter(p, After(Delta(p), Listed(p)).off, After(Delta(p), Listed(p)).on)
    BY DEF AddTrafficBegins
  <2> QED BY <2>1, <1>0, <1>1, <1>3, AlterFacts, Zenon
<1>5. pc' \in [Procs -> Pcs] /\ \A e \in Editors : pc'[e] = pc[e]
  <2>1. Goto(p, "add", "tx") /\ "tx" \in Pcs
    BY DEF AddTrafficBegins, Pcs
  <2> QED BY <2>1, <1>0, OthersMove, Zenon
<1>6. Flags'
  <2>1. UNCHANGED <<need, forced>>
    BY DEF AddTrafficBegins
  <2> QED BY <1>0, <1>4, <2>1, Zenon DEF Flags
<1>7. Control'
  <2>1. dbLock' = p /\ UNCHANGED <<startCfg, connected, listed, cfg, deleted, edits, restarts>>
    BY DEF AddTrafficBegins, budget
  <2>2. gap' \subseteq Clients
    <3>1. gap' = gap \cup {c \in After(Delta(p), Listed(p)).on : ~settings[c].enable}
      BY DEF AddTrafficBegins
    <3>2. gap \subseteq Clients
      BY <1>0 DEF Control
    <3> QED BY <3>1, <3>2, <1>3, Zenon
  <2> QED BY <1>0, <1>1, <1>4, <1>5, <2>1, <2>2, Zenon DEF Control, Pcs
<1>8. Stocked' /\ Counted' /\ Edits' /\ Paired'
  <2>1. UNCHANGED <<settings, rows, counter, connected, batch, listed, gen, raced, events, work>>
    BY DEF AddTrafficBegins, budget
  <2> QED BY <2>1, <1>0, <1>4, <1>5, Undisturbed, Zenon
<1>9. Taken'
  <2>1. pc[p] = "add" /\ pc'[p] = "tx" /\ \A q \in Procs : q # p => pc'[q] = pc[q]
    <3>1. Goto(p, "add", "tx") /\ "tx" \in Pcs
      BY DEF AddTrafficBegins, Pcs
    <3> QED BY <3>1, <1>0, <1>1, GotoFacts
  <2>2. batch' = batch
    BY DEF AddTrafficBegins
  <2> QED BY <1>0, <2>1, <2>2, ProcFacts DEF Taken
<1> QED BY <1>6, <1>7, <1>8, <1>9, Zenon DEF Inv

\* The restart begins, reads, or is skipped.
LEMMA RestartStep ==
    ASSUME Inv, RestartBegins \/ RestartReads \/ RestartSkips
    PROVE  Inv'
<1>0. Flags /\ Control /\ Stocked /\ Counted /\ Edits /\ Paired /\ Taken
  BY DEF Inv
<1>1. UNCHANGED <<settings, rows, dbLock, served, startCfg, counter, connected, batch,
                  listed, gen, raced, deleted, fault, events, edits, work>>
  BY DEF RestartBegins, RestartReads, RestartSkips, db, core, history, budget
<1>2. pc' \in [Procs -> Pcs] /\ \A e \in Editors : pc'[e] = pc[e]
  <2>1. \E from, to \in Pcs : Goto(Restart, from, to)
    BY DEF RestartBegins, RestartReads, RestartSkips, Pcs
  <2> QED BY <2>1, <1>0, OthersMove
<1>3. Stored \subseteq Clients
  BY <1>0 DEF Stocked, Copy, Stored
<1>4. /\ need' \in BOOLEAN /\ forced' \in BOOLEAN /\ restarts' \in 0 .. MaxRestarts
      /\ cfg' \subseteq Clients /\ gap' \subseteq Clients /\ ask' \in [Procs -> BOOLEAN]
  <2>0. ask \in [Procs -> BOOLEAN] /\ need \in BOOLEAN /\ forced \in BOOLEAN
    BY <1>0, Zenon DEF Flags
  <2>00. restarts \in 0 .. MaxRestarts /\ MaxRestarts \in Nat
    BY <1>0, BoundsAssumption DEF Control
  <2>1. CASE RestartBegins
    <3>1. need' \in BOOLEAN /\ forced' \in BOOLEAN
      BY <2>1, <2>0, Zenon DEF RestartBegins
    <3>2. restarts' \in 0 .. MaxRestarts
      BY <2>1, <2>00 DEF RestartBegins
    <3>3. UNCHANGED <<cfg, gap, ask>>
      BY <2>1 DEF RestartBegins, history
    <3> QED BY <3>1, <3>2, <3>3, <2>0, <1>0, Zenon DEF Control
  <2>2. CASE RestartReads
    <3>1. cfg' \subseteq Clients
      BY <2>2, <1>3 DEF RestartReads, Projected
    <3>2. UNCHANGED <<need, forced, restarts, gap, ask>>
      BY <2>2 DEF RestartReads, history, budget
    <3> QED BY <3>1, <3>2, <2>0, <1>0, Zenon DEF Control
  <2>3. CASE RestartSkips
    <3>1. cfg' \subseteq Clients
      BY <2>3 DEF RestartSkips
    <3>2. forced' \in BOOLEAN /\ UNCHANGED <<need, restarts>>
      BY <2>3, Zenon DEF RestartSkips, budget
    <3>3. ask' \in [Procs -> BOOLEAN]
      BY <2>3, <1>0, AskCleared, ProcFacts DEF RestartSkips
    <3>4. gap' \subseteq Clients
      <4>1. gap' = gap \cup Missed(served) \cup (served \ cfg)
        BY <2>3 DEF RestartSkips
      <4>2. Missed(served) \subseteq served
        BY Zenon DEF Missed
      <4> QED BY <4>1, <4>2, <1>0, Zenon DEF Control
    <3> QED BY <3>1, <3>2, <3>3, <3>4, <2>0, <1>0, Zenon DEF Control
  <2> QED BY <2>1, <2>2, <2>3
<1>6. Flags'
  BY <1>4, Zenon DEF Flags
<1>7. Control'
  BY <1>0, <1>1, <1>2, <1>4, Zenon DEF Control, Pcs
<1>8. Stocked' /\ Counted' /\ Edits' /\ Paired'
  BY <1>0, <1>1, <1>2, Undisturbed, Zenon
<1>9. Taken'
  <2>1. pc'[Job] = pc[Job]
    BY <1>0, ProcFacts DEF RestartBegins, RestartReads, RestartSkips, Control, Goto, Job, Restart
  <2> QED BY <2>1, <1>0, <1>1, Zenon DEF Taken
<1> QED BY <1>6, <1>7, <1>8, <1>9, Zenon DEF Inv

\* The transaction of an addition or an update begins.
LEMMA EditBeginsStep ==
    ASSUME Inv, NEW e \in Editors, AddBegins(e) \/ UpdateBegins(e)
    PROVE  Inv'
<1>0. Flags /\ Control /\ Stocked /\ Counted /\ Edits /\ Paired /\ Taken
  BY DEF Inv
<1>1. e \in Procs /\ Editors \subseteq Procs
  BY ProcFacts
<1>2. /\ UNCHANGED <<settings, rows, counter, connected, batch, listed, gen, raced, events, work>>
      /\ UNCHANGED <<need, forced, startCfg, cfg, gap, deleted, edits, restarts>>
      /\ dbLock' = e /\ Goto(e, "act", "save") /\ work[e].kind \in {"add", "update"}
  BY DEF AddBegins, UpdateBegins, history, budget
<1>3. /\ pc' \in [Procs -> Pcs] /\ pc[e] = "act" /\ pc'[e] = "save"
      /\ \A f \in Editors : f # e => pc'[f] = pc[f]
  <2>1. "save" \in Pcs
    BY DEF Pcs
  <2> QED BY <2>1, <1>0, <1>1, <1>2, GotoFacts
<1>4. /\ ask' \in [Procs -> BOOLEAN] /\ served' \subseteq Clients
      /\ fault' \subseteq FaultKinds /\ fault \subseteq fault'
  <2>1. work[e].client \in Clients
    BY <1>0, <1>2, <1>3 DEF Edits, Reading
  <2> DEFINE on == IF work[e].entry.enable THEN {work[e].client} ELSE {}
  <2>2. on \subseteq Clients
    BY <2>1, Zenon
  <2>3. \E off : Alter(e, off, on)
    BY Zenon DEF AddBegins, UpdateBegins
  <2> HIDE DEF on
  <2> QED BY <2>2, <2>3, <1>0, <1>1, AlterFacts, Zenon
<1>6. Flags'
  BY <1>0, <1>2, <1>4, Zenon DEF Flags
<1>7. Control'
  BY <1>0, <1>1, <1>2, <1>3, <1>4, Zenon DEF Control, Pcs
<1>8. Stocked' /\ Counted' /\ Edits' /\ Paired'
  <2>1. \A f \in Editors : \/ pc'[f] = pc[f]
                           \/ /\ pc[f] # "idle" /\ pc'[f] # "idle" /\ work[f].kind # "delete"
    BY <1>2, <1>3
  <2> QED BY <2>1, <1>0, <1>2, <1>4, Undisturbed, Zenon
<1>9. Taken'
  BY <1>0, <1>1, <1>2, ProcFacts, TakenKept
<1> QED BY <1>6, <1>7, <1>8, <1>9, Zenon DEF Inv

-----------------------------------------------------------------------------
(* Traffic and time.                                                       *)

\* The counts, as numbers.
LEMMA Numbers ==
    ASSUME Stocked
    PROVE  /\ \A c \in Clients : counter[c] \in Nat /\ batch[c] \in Nat /\ gen[c] \in Nat
           /\ \A c \in Metered : /\ c \in Clients /\ rows[c] \in Row
                                 /\ rows[c].all \in Nat /\ rows[c].used \in Nat
           /\ events \in Nat /\ MaxEvents \in Nat /\ events <= MaxEvents
<1>1. \A c \in Metered : c \in Clients /\ rows[c] \in Row
  BY DEF Stocked
<1>2. \A c \in Metered : rows[c].all \in Nat /\ rows[c].used \in Nat
  BY <1>1 DEF Row
<1>3. events \in Nat /\ MaxEvents \in Nat /\ events <= MaxEvents
  BY BoundsAssumption DEF Stocked
<1> QED BY <1>1, <1>2, <1>3 DEF Stocked

\* The deltas of p's call.
LEMMA DeltaFacts ==
    ASSUME Stocked, NEW p \in {Job, Restart}
    PROVE  /\ Delta(p) \in [Clients -> Nat]
           /\ \A c \in Clients : Delta(p)[c] = IF p = Job THEN batch[c] ELSE 0
<1>1. batch \in [Clients -> Nat]
  BY DEF Stocked
<1> QED BY <1>1 DEF Delta

\* The traffic transaction commits: what the job had taken is in the rows.
LEMMA AddTrafficCommitsStep ==
    ASSUME Inv, NEW p \in {Job, Restart}, AddTrafficCommits(p)
    PROVE  Inv'
<1>0. Flags /\ Control /\ Stocked /\ Counted /\ Edits /\ Paired /\ Taken
  BY DEF Inv
<1>1. p \in Procs
  BY ProcFacts
<1>2. Delta(p) \in [Clients -> Nat]
      /\ \A c \in Clients : Delta(p)[c] = IF p = Job THEN batch[c] ELSE 0
  BY <1>0, DeltaFacts
<1> DEFINE d == Delta(p)
<1> DEFINE l == Listed(p)
<1>3. /\ UNCHANGED <<served, startCfg, counter, connected, work, cfg, forced, gen, gap,
                     raced, deleted, fault, events, edits, restarts>>
      /\ dbLock' = NoOne /\ rows' = After(d, l).rows /\ settings' = After(d, l).settings
      /\ batch' = IF p = Job THEN Cleared ELSE batch
      /\ listed' = IF p = Job THEN {} ELSE listed
  BY DEF AddTrafficCommits, core, history, budget
<1>4. pc' \in [Procs -> Pcs] /\ \A e \in Editors : pc'[e] = pc[e]
  <2>1. \E to \in Pcs : Goto(p, "tx", to)
    BY DEF AddTrafficCommits, Pcs
  <2> QED BY <2>1, <1>0, OthersMove
<1>5. Flags'
  <2>1. need' \in BOOLEAN
    BY Zenon DEF AddTrafficCommits
  <2>2. ask' \in [Procs -> BOOLEAN]
    BY <1>0, <1>1, AskCleared DEF AddTrafficCommits
  <2> QED BY <2>1, <2>2, <1>0, <1>3, Zenon DEF Flags
<1>6. Control'
  <2>1. listed' \subseteq Clients
    BY <1>0, <1>3 DEF Control
  <2> QED BY <1>0, <1>3, <1>4, <2>1, Zenon DEF Control, Pcs
<1>7. /\ DOMAIN rows' = Metered
      /\ \A c \in Metered :
            /\ rows'[c] \in Row
            /\ rows'[c].all = rows[c].all + d[c]
            /\ rows[c].used <= rows[c].all => rows'[c].used <= rows'[c].all
      /\ DOMAIN settings' = Stored /\ Copy(settings')
  <2> HIDE DEF d, l
  <2>1. d \in [Clients -> Nat]
    BY <1>2 DEF d
  <2> QED BY <2>1, <1>0, <1>3, AfterFacts
<1>8. Stored' = Stored /\ Metered' = Metered
  BY <1>7 DEF Stored, Metered
<1>9. /\ batch' \in [Clients -> Nat]
      /\ \A c \in Clients : d[c] + batch'[c] = batch[c] /\ d[c] \in Nat
  <2>1. batch \in [Clients -> Nat]
    BY <1>0 DEF Stocked
  <2>2. CASE p = Job
    BY <2>1, <2>2, <1>2, <1>3 DEF Cleared
  <2>3. CASE p # Job
    BY <2>1, <2>3, <1>2, <1>3
  <2> QED BY <2>2, <2>3
<1> HIDE DEF d, l
<1>10. Stocked'
  <2>1. rows' = [c \in Metered |-> rows'[c]]
    <3>1. rows' = After(Delta(p), Listed(p)).rows
      BY <1>3 DEF d, l
    <3> QED BY <3>1, <1>7 DEF After
  <2>2. rows' \in [Metered -> Row]
    BY <2>1, <1>7, Zenon
  <2> QED BY <2>2, <1>0, <1>3, <1>7, <1>8, <1>9, Zenon DEF Stocked, Copy
<1>11. Counted'
  <2> USE Numbers
  <2>1. ASSUME NEW c \in Clients PROVE counter'[c] + batch'[c] <= events' /\ gen'[c] <= events'
    <3>1. counter[c] + batch[c] <= events /\ gen[c] <= events
      BY <1>0 DEF Counted
    <3>2. batch'[c] \in Nat
      BY <1>9
    <3>3. /\ counter'[c] = counter[c] /\ gen'[c] = gen[c] /\ events' = events
          /\ counter[c] \in Nat /\ batch[c] \in Nat /\ events \in Nat
      BY <1>0, <1>3, Numbers
    <3>4. d[c] + batch'[c] = batch[c] /\ d[c] \in Nat
      BY <1>9
    <3> QED BY <3>1, <3>2, <3>3, <3>4
  <2>2. ASSUME NEW c \in Metered
        PROVE  /\ rows'[c].used <= rows'[c].all
               /\ rows'[c].all + counter'[c] + batch'[c] <= gen'[c]
               /\ \/ "busy" \in fault' \/ c \in raced'
                  \/ rows'[c].all + counter'[c] + batch'[c] = gen'[c]
    <3>1. /\ rows[c].used <= rows[c].all
          /\ rows[c].all + counter[c] + batch[c] <= gen[c]
          /\ \/ "busy" \in fault \/ c \in raced
             \/ rows[c].all + counter[c] + batch[c] = gen[c]
      BY <1>0 DEF Counted
    <3>2. c \in Clients /\ rows[c].all \in Nat /\ counter[c] \in Nat /\ batch[c] \in Nat
      BY <1>0, Numbers
    <3>3. d[c] + batch'[c] = batch[c] /\ batch'[c] \in Nat /\ d[c] \in Nat
      BY <3>2, <1>9
    <3>4. rows'[c].all + counter'[c] + batch'[c] = rows[c].all + counter[c] + batch[c]
      <4>1. rows'[c].all = rows[c].all + d[c] /\ counter'[c] = counter[c]
        BY <1>3, <1>7
      <4> QED BY <3>2, <3>3, <4>1
    <3>5. rows'[c].used <= rows'[c].all
      BY <3>1, <1>7
    <3>6. gen'[c] = gen[c] /\ fault' = fault /\ raced' = raced
      BY <1>3
    <3> QED BY <3>1, <3>4, <3>5, <3>6, Zenon
  <2> QED BY <2>1, <2>2, <1>8, Zenon DEF Counted
<1>12. Edits' /\ Paired'
  <2>1. \A c \in Metered : rows[c].all <= rows'[c].all
    BY <1>0, <1>7, <1>9, Numbers
  <2> QED BY <2>1, <1>0, <1>3, <1>4, <1>8, <1>10, EditsKept, Zenon
<1>13. Taken'
  <2>1. CASE p = Job
    BY <2>1, <1>3 DEF Taken
  <2>2. CASE p # Job
    <3>1. pc'[Job] = pc[Job] /\ batch' = batch
      BY <2>2, <1>0, <1>3, ProcFacts DEF AddTrafficCommits, Control, Goto
    <3> QED BY <3>1, <1>0, Zenon DEF Taken
  <2> QED BY <2>1, <2>2
<1> QED BY <1>5, <1>6, <1>10, <1>11, <1>12, <1>13, Zenon DEF Inv

\* The traffic transaction fails: the loss is on record.
LEMMA AddTrafficFailsStep ==
    ASSUME Inv, NEW p \in {Job, Restart}, AddTrafficFails(p)
    PROVE  Inv'
<1>0. Flags /\ Control /\ Stocked /\ Counted /\ Edits /\ Paired /\ Taken
  BY DEF Inv
<1>1. /\ UNCHANGED <<settings, rows, dbLock, served, startCfg, counter, connected, work,
                     cfg, forced, need, ask, gen, gap, raced, deleted, events, edits,
                     restarts>>
      /\ batch' = IF p = Job THEN Cleared ELSE batch
      /\ listed' = IF p = Job THEN {} ELSE listed
      /\ fault' = {"busy"} /\ fault' \subseteq FaultKinds
  BY DEF AddTrafficFails, Fault, db, core, history, budget
<1>2. pc' \in [Procs -> Pcs] /\ \A e \in Editors : pc'[e] = pc[e]
  <2>1. \E to \in Pcs : Goto(p, "add", to)
    BY DEF AddTrafficFails, Pcs
  <2> QED BY <2>1, <1>0, OthersMove
<1>3. Flags'
  BY <1>0, <1>1, Zenon DEF Flags
<1>4. Control'
  <2>1. listed' \subseteq Clients
    BY <1>0, <1>1 DEF Control
  <2> QED BY <1>0, <1>1, <1>2, <2>1, Zenon DEF Control, Pcs
<1>5. /\ batch' \in [Clients -> Nat]
      /\ \A c \in Clients : batch'[c] <= batch[c] /\ batch'[c] \in Nat
  <2>1. batch \in [Clients -> Nat]
    BY <1>0 DEF Stocked
  <2>2. CASE p = Job
    BY <2>1, <2>2, <1>1 DEF Cleared
  <2>3. CASE p # Job
    BY <2>1, <2>3, <1>1
  <2> QED BY <2>2, <2>3
<1>6. Stored' = Stored /\ Metered' = Metered
  BY <1>1 DEF Stored, Metered
<1>7. Stocked'
  BY <1>0, <1>1, <1>5, <1>6, Zenon DEF Stocked, Copy
<1>8. Counted'
  <2>1. ASSUME NEW c \in Clients PROVE counter'[c] + batch'[c] <= events' /\ gen'[c] <= events'
    <3>1. counter[c] + batch[c] <= events /\ gen[c] <= events
      BY <1>0 DEF Counted
    <3>2. counter[c] \in Nat /\ batch[c] \in Nat /\ events \in Nat
      BY <1>0, Numbers
    <3> QED BY <3>1, <3>2, <1>1, <1>5
  <2>2. ASSUME NEW c \in Metered
        PROVE  /\ rows'[c].used <= rows'[c].all
               /\ rows'[c].all + counter'[c] + batch'[c] <= gen'[c]
    <3>1. /\ rows[c].used <= rows[c].all
          /\ rows[c].all + counter[c] + batch[c] <= gen[c]
      BY <1>0 DEF Counted
    <3>2. /\ c \in Clients /\ rows[c].all \in Nat /\ counter[c] \in Nat /\ batch[c] \in Nat
          /\ gen[c] \in Nat
      BY <1>0, Numbers
    <3> QED BY <3>1, <3>2, <1>1, <1>5
  <2>3. "busy" \in fault'
    BY <1>1
  <2> QED BY <2>1, <2>2, <2>3, <1>6, Zenon DEF Counted
<1>9. Edits' /\ Paired'
  <2>1. \A c \in Metered : rows[c].all <= rows'[c].all
    BY <1>0, <1>1, Numbers
  <2> QED BY <2>1, <1>0, <1>1, <1>2, <1>6, <1>7, EditsKept, Zenon
<1>10. Taken'
  <2>1. CASE p = Job
    BY <2>1, <1>1 DEF Taken
  <2>2. CASE p # Job
    <3>1. pc'[Job] = pc[Job] /\ batch' = batch
      BY <2>2, <1>0, <1>1, ProcFacts DEF AddTrafficFails, Control, Goto
    <3> QED BY <3>1, <1>0, Zenon DEF Taken
  <2> QED BY <2>1, <2>2
<1> QED BY <1>3, <1>4, <1>7, <1>8, <1>9, <1>10, Zenon DEF Inv

\* A client causes traffic.
LEMMA UseStep ==
    ASSUME Inv, NEW c \in Clients, Use(c)
    PROVE  Inv'
<1>0. Flags /\ Control /\ Stocked /\ Counted /\ Edits /\ Paired /\ Taken
  BY DEF Inv
<1>1. /\ UNCHANGED <<settings, rows, dbLock, served, startCfg, pc, batch, listed, work, cfg,
                     forced, need, ask, gap, raced, deleted, fault, edits, restarts>>
      /\ counter' = [counter EXCEPT ![c] = @ + 1]
      /\ gen' = IF c \in Metered THEN [gen EXCEPT ![c] = @ + 1] ELSE gen
      /\ events < MaxEvents /\ events' = events + 1
      /\ connected' = connected \cup {c}
  BY DEF Use, db, calls
<1>2. Flags' /\ Control'
  <2>1. connected' \subseteq Clients
    BY <1>0, <1>1 DEF Control
  <2> QED BY <1>0, <1>1, <2>1, Zenon DEF Flags, Control
<1>3. Stored' = Stored /\ Metered' = Metered
  BY <1>1 DEF Stored, Metered
<1>4. /\ counter \in [Clients -> Nat] /\ gen \in [Clients -> Nat]
      /\ events \in Nat /\ MaxEvents \in Nat
  BY <1>0, Numbers DEF Stocked
<1>5. /\ counter' \in [Clients -> Nat] /\ gen' \in [Clients -> Nat]
      /\ events' \in 0 .. MaxEvents
  BY <1>1, <1>4
<1>6. Stocked'
  BY <1>0, <1>1, <1>3, <1>5, Zenon DEF Stocked, Copy
<1>7. Counted'
  <2>1. ASSUME NEW x \in Clients PROVE counter'[x] + batch'[x] <= events' /\ gen'[x] <= events'
    <3>1. counter[x] + batch[x] <= events /\ gen[x] <= events
      BY <1>0 DEF Counted
    <3>2. counter[x] \in Nat /\ batch[x] \in Nat /\ events \in Nat /\ gen[x] \in Nat
      BY <1>0, Numbers
    <3> QED BY <3>1, <3>2, <1>1, <1>4
  <2>2. ASSUME NEW x \in Metered
        PROVE  /\ rows'[x].used <= rows'[x].all
               /\ rows'[x].all + counter'[x] + batch'[x] <= gen'[x]
               /\ \/ "busy" \in fault' \/ x \in raced'
                  \/ rows'[x].all + counter'[x] + batch'[x] = gen'[x]
    <3>1. /\ rows[x].used <= rows[x].all
          /\ rows[x].all + counter[x] + batch[x] <= gen[x]
          /\ \/ "busy" \in fault \/ x \in raced
             \/ rows[x].all + counter[x] + batch[x] = gen[x]
      BY <1>0 DEF Counted
    <3>2. /\ x \in Clients /\ rows[x].all \in Nat /\ counter[x] \in Nat /\ batch[x] \in Nat
          /\ gen[x] \in Nat
      BY <1>0, Numbers
    <3>3. rows' = rows /\ batch' = batch /\ fault' = fault /\ raced' = raced
      BY <1>1
    <3>4. CASE x = c
      <4>1. counter'[x] = counter[x] + 1 /\ gen'[x] = gen[x] + 1
        BY <3>4, <1>1, <1>4
      <4> QED BY <4>1, <3>1, <3>2, <3>3
    <3>5. CASE x # c
      <4>1. counter'[x] = counter[x] /\ gen'[x] = gen[x]
        BY <3>2, <3>5, <1>1, <1>4
      <4> QED BY <4>1, <3>1, <3>3
    <3> QED BY <3>4, <3>5
  <2> QED BY <2>1, <2>2, <1>3, Zenon DEF Counted
<1>8. Edits' /\ Paired'
  <2>1. \A x \in Metered : rows[x].all <= rows'[x].all
    BY <1>0, <1>1, Numbers
  <2>2. UNCHANGED <<work, raced>> /\ \A e \in Editors : pc'[e] = pc[e]
    BY <1>1
  <2> QED BY <2>1, <2>2, <1>0, <1>3, <1>6, EditsKept, Zenon
<1>9. Taken'
  BY <1>0, <1>1, Zenon DEF Taken
<1> QED BY <1>2, <1>6, <1>7, <1>8, <1>9, Zenon DEF Inv

\* A client connects, and causes no traffic yet.
LEMMA ConnectStep ==
    ASSUME Inv, NEW c \in Clients, Connect(c)
    PROVE  Inv'
<1>0. Flags /\ Control /\ Stocked /\ Counted /\ Edits /\ Paired /\ Taken
  BY DEF Inv
<1>1. /\ UNCHANGED <<settings, rows, dbLock, served, startCfg, counter, pc, batch, listed, work,
                     cfg, forced, need, ask, gen, gap, raced, deleted, fault, edits, restarts>>
      /\ events < MaxEvents /\ events' = events + 1
      /\ connected' = connected \cup {c}
  BY DEF Connect, db, calls, history
<1>2. Flags' /\ Control'
  <2>1. connected' \subseteq Clients
    BY <1>0, <1>1 DEF Control
  <2> QED BY <1>0, <1>1, <2>1, Zenon DEF Flags, Control
<1>3. Stored' = Stored /\ Metered' = Metered
  BY <1>1 DEF Stored, Metered
<1>4. Stocked'
  <2>1. events' \in 0 .. MaxEvents
    BY <1>0, <1>1, Numbers
  <2> QED BY <2>1, <1>0, <1>1, <1>3, Zenon DEF Stocked, Copy
<1>5. Counted'
  <2>1. ASSUME NEW x \in Clients PROVE counter'[x] + batch'[x] <= events' /\ gen'[x] <= events'
    <3>1. counter[x] + batch[x] <= events /\ gen[x] <= events
      BY <1>0 DEF Counted
    <3>2. counter[x] \in Nat /\ batch[x] \in Nat /\ events \in Nat /\ gen[x] \in Nat
      BY <1>0, Numbers
    <3>3. counter' = counter /\ batch' = batch /\ gen' = gen /\ events' = events + 1
      BY <1>1
    <3> QED BY <3>1, <3>2, <3>3
  <2>2. /\ Metered' = Metered /\ rows' = rows /\ counter' = counter /\ batch' = batch
        /\ gen' = gen /\ fault' = fault /\ raced' = raced
    BY <1>1, <1>3
  <2> QED BY <2>1, <2>2, <1>0, Zenon DEF Counted
<1>6. Edits' /\ Paired'
  <2>1. \A x \in Metered : rows[x].all <= rows'[x].all
    BY <1>0, <1>1, Numbers
  <2>2. UNCHANGED <<work, raced>> /\ \A e \in Editors : pc'[e] = pc[e]
    BY <1>1
  <2> QED BY <2>1, <2>2, <1>0, <1>3, <1>4, EditsKept, Zenon
<1>7. Taken'
  BY <1>0, <1>1, Zenon DEF Taken
<1> QED BY <1>2, <1>4, <1>5, <1>6, <1>7, Zenon DEF Inv

\* The job takes the counters: it had nothing left from before.
LEMMA GetXrayTrafficStep ==
    ASSUME Inv, GetXrayTraffic
    PROVE  Inv'
<1>0. Flags /\ Control /\ Stocked /\ Counted /\ Edits /\ Paired /\ Taken
  BY DEF Inv
<1>1. /\ UNCHANGED <<settings, rows, dbLock, served, startCfg, work, cfg, forced, need, ask, gen,
                     gap, raced, deleted, fault, events, edits, restarts>>
      /\ batch' = counter /\ counter' = Cleared /\ Goto(Job, "idle", "add")
      /\ connected' = connected /\ listed' = connected
  BY DEF GetXrayTraffic, db, history, budget
<1>2. /\ pc' \in [Procs -> Pcs] /\ \A e \in Editors : pc'[e] = pc[e]
      /\ pc[Job] = "idle" /\ pc'[Job] = "add"
  <2>1. "add" \in Pcs
    BY DEF Pcs
  <2> QED BY <2>1, <1>0, <1>1, OthersMove, GotoFacts, ProcFacts
<1>3. Flags'
  BY <1>0, <1>1, Zenon DEF Flags
<1>4. Control'
  BY <1>0, <1>1, <1>2, Zenon DEF Control, Pcs
<1>5. Stored' = Stored /\ Metered' = Metered
  BY <1>1 DEF Stored, Metered
<1>6. /\ counter \in [Clients -> Nat] /\ counter' \in [Clients -> Nat]
      /\ \A c \in Clients : batch[c] = 0 /\ counter'[c] = 0 /\ batch'[c] = counter[c]
  <2>1. counter \in [Clients -> Nat]
    BY <1>0 DEF Stocked
  <2>2. batch = Cleared
    BY <1>0, <1>2 DEF Taken
  <2> QED BY <2>1, <2>2, <1>1 DEF Cleared
<1>7. Stocked'
  BY <1>0, <1>1, <1>5, <1>6, Zenon DEF Stocked, Copy
<1>8. Counted'
  <2>1. ASSUME NEW c \in Clients PROVE counter'[c] + batch'[c] = counter[c] + batch[c]
    <3>1. counter[c] \in Nat
      BY <1>6
    <3> QED BY <3>1, <1>6
  <2>2. ASSUME NEW c \in Metered
        PROVE  rows'[c].all + counter'[c] + batch'[c] = rows[c].all + counter[c] + batch[c]
    <3>1. c \in Clients /\ rows[c].all \in Nat /\ counter[c] \in Nat
      BY <1>0, Numbers
    <3>2. batch[c] = 0 /\ counter'[c] = 0 /\ batch'[c] = counter[c] /\ rows' = rows
      BY <3>1, <1>6, <1>1
    <3> QED BY <3>1, <3>2
  <2>3. /\ Metered' = Metered /\ rows' = rows /\ fault' = fault /\ raced' = raced
        /\ events' = events /\ gen' = gen
    BY <1>1, <1>5
  <2> QED BY <2>1, <2>2, <2>3, <1>0, Zenon DEF Counted
<1>9. Edits' /\ Paired'
  <2>1. \A c \in Metered : rows[c].all <= rows'[c].all
    BY <1>0, <1>1, Numbers
  <2> QED BY <2>1, <1>0, <1>1, <1>2, <1>5, <1>7, EditsKept, Zenon
<1>10. Taken'
  BY <1>2 DEF Taken
<1> QED BY <1>3, <1>4, <1>7, <1>8, <1>9, <1>10, Zenon DEF Inv

\* A client expires.
LEMMA ExpireStep ==
    ASSUME Inv, NEW c \in Clients, Expire(c)
    PROVE  Inv'
<1>0. Flags /\ Control /\ Stocked /\ Counted /\ Edits /\ Paired /\ Taken
  BY DEF Inv
<1>1. /\ UNCHANGED <<dbLock, served, startCfg, counter, connected, pc, batch, listed, work,
                     cfg, forced, need, ask, gen, gap, raced, deleted, fault, edits,
                     restarts>>
      /\ settings' = [x \in Stored |-> IF x = c /\ settings[x].exp = "future"
                                       THEN [settings[x] EXCEPT !.exp = "past"] ELSE settings[x]]
      /\ rows' = [x \in Metered |-> IF x = c /\ rows[x].exp = "future"
                                    THEN [rows[x] EXCEPT !.exp = "past"] ELSE rows[x]]
      /\ events < MaxEvents /\ events' = events + 1
  BY Zenon DEF Expire, core, calls, history
<1>2. Flags' /\ Control'
  BY <1>0, <1>1, Zenon DEF Flags, Control
<1>3. DOMAIN settings' = Stored /\ DOMAIN rows' = Metered
  BY <1>1, Zenon
<1>4. Stored' = Stored /\ Metered' = Metered
  BY <1>3 DEF Stored, Metered
<1>5. "past" \in Times
  BY DEF Times
<1>6. Copy(settings')
  <2>1. \A x \in Stored : settings[x] \in Entries /\ x \in Clients
    BY <1>0 DEF Stocked, Copy, Stored
  <2>2. \A x \in Stored : [settings[x] EXCEPT !.exp = "past"] \in Entries
    BY <2>1, <1>5, EntryChanges, Zenon
  <2>3. settings' \in [Stored -> Entries]
    BY <2>1, <2>2, <1>1, Zenon
  <2> QED BY <2>1, <2>3, <1>3, Zenon DEF Copy
<1>7. ASSUME NEW x \in Metered
      PROVE  rows'[x] \in Row /\ rows'[x].all = rows[x].all /\ rows'[x].used = rows[x].used
  <2>1. rows[x] \in Row
    BY <1>0, Numbers
  <2>2. CASE rows'[x] = rows[x]
    BY <2>1, <2>2
  <2>3. CASE rows'[x] = [rows[x] EXCEPT !.exp = "past"]
    <3>1. rows'[x] = [enable |-> rows[x].enable, exp |-> "past", used |-> rows[x].used,
                      all |-> rows[x].all]
      BY <2>1, <2>3, RowExpired, Zenon
    <3>2. rows[x].enable \in BOOLEAN /\ rows[x].used \in Nat /\ rows[x].all \in Nat
      BY <2>1 DEF Row
    <3>3. rows'[x] \in Row
      BY <3>1, <3>2, <1>5, RowMade, Zenon
    <3> QED BY <3>1, <3>3
  <2> QED BY <2>2, <2>3, <1>1, Zenon
<1>8. Stocked'
  <2>1. rows' \in [Metered -> Row]
    <3>1. rows' = [x \in Metered |-> rows'[x]]
      BY <1>1, <1>3, Zenon
    <3> QED BY <3>1, <1>7, Zenon
  <2>2. events' \in 0 .. MaxEvents
    BY <1>0, <1>1, Numbers
  <2> QED BY <2>1, <2>2, <1>0, <1>1, <1>4, <1>6, Zenon DEF Stocked
<1>9. Counted'
  <2>1. ASSUME NEW x \in Clients PROVE counter'[x] + batch'[x] <= events' /\ gen'[x] <= events'
    <3>1. counter[x] + batch[x] <= events /\ gen[x] <= events
      BY <1>0 DEF Counted
    <3>2. counter[x] \in Nat /\ batch[x] \in Nat /\ events \in Nat /\ gen[x] \in Nat
      BY <1>0, Numbers
    <3>3. counter' = counter /\ batch' = batch /\ gen' = gen /\ events' = events + 1
      BY <1>1
    <3> QED BY <3>1, <3>2, <3>3
  <2>2. /\ Metered' = Metered /\ counter' = counter /\ batch' = batch /\ gen' = gen
        /\ fault' = fault /\ raced' = raced
    BY <1>1, <1>4
  <2> QED BY <2>1, <2>2, <1>0, <1>7, Zenon DEF Counted
<1>10. Edits' /\ Paired'
  <2>1. \A x \in Metered : rows[x].all <= rows'[x].all
    BY <1>0, <1>7, Numbers
  <2>2. UNCHANGED <<work, raced>> /\ \A e \in Editors : pc'[e] = pc[e]
    BY <1>1
  <2> QED BY <2>1, <2>2, <1>0, <1>4, <1>8, EditsKept, Zenon
<1>11. Taken'
  BY <1>0, <1>1, Zenon DEF Taken
<1> QED BY <1>2, <1>8, <1>9, <1>10, <1>11, Zenon DEF Inv

\* The core is replaced: what it had not reported does not count.
LEMMA RestartStartsStep ==
    ASSUME Inv, RestartStarts
    PROVE  Inv'
<1>0. Flags /\ Control /\ Stocked /\ Counted /\ Edits /\ Paired /\ Taken
  BY DEF Inv
<1>1. /\ UNCHANGED <<settings, rows, dbLock, batch, listed, work, need, raced, deleted,
                     fault, events, edits, restarts>>
      /\ served' = cfg /\ startCfg' = cfg /\ cfg' = {} /\ gap' = gap \cup Missed(cfg)
      /\ counter' = Cleared /\ connected' = {}
      /\ gen' = [c \in Clients |-> IF c \in Metered THEN gen[c] - counter[c] ELSE gen[c]]
  BY DEF RestartStarts, CountersLost, db, budget
<1>2. pc' \in [Procs -> Pcs] /\ \A e \in Editors : pc'[e] = pc[e]
  <2>1. Goto(Restart, "start", "idle") /\ "idle" \in Pcs
    BY DEF RestartStarts, Pcs
  <2> QED BY <2>1, <1>0, OthersMove
<1>3. Flags'
  <2>1. forced' \in BOOLEAN /\ need' = need
    BY Zenon DEF RestartStarts
  <2>2. ask' \in [Procs -> BOOLEAN]
    BY <1>0, AskCleared, ProcFacts DEF RestartStarts
  <2> QED BY <2>1, <2>2, <1>0, Zenon DEF Flags
<1>4. Control'
  <2>1. Missed(cfg) \subseteq cfg
    BY Zenon DEF Missed
  <2>2. cfg \subseteq Clients /\ gap \subseteq Clients
    BY <1>0 DEF Control
  <2>3. gap' \subseteq Clients /\ cfg' \subseteq Clients /\ connected' \subseteq Clients
    BY <2>1, <2>2, <1>1, Zenon
  <2> QED BY <2>2, <2>3, <1>0, <1>1, <1>2, Zenon DEF Control, Pcs
<1>5. Stored' = Stored /\ Metered' = Metered
  BY <1>1 DEF Stored, Metered
<1>6. ASSUME NEW c \in Metered
      PROVE  /\ rows[c].all + counter[c] + batch[c] <= gen[c] /\ c \in Clients
             /\ rows[c].all \in Nat /\ counter[c] \in Nat /\ batch[c] \in Nat /\ gen[c] \in Nat
             /\ rows[c].used <= rows[c].all
             /\ \/ "busy" \in fault \/ c \in raced
                \/ rows[c].all + counter[c] + batch[c] = gen[c]
  BY <1>0, Numbers DEF Counted
<1>7. counter' \in [Clients -> Nat] /\ gen' \in [Clients -> Nat]
  <2>1. counter' \in [Clients -> Nat]
    BY <1>1 DEF Cleared
  <2>2. ASSUME NEW c \in Clients
        PROVE  (IF c \in Metered THEN gen[c] - counter[c] ELSE gen[c]) \in Nat
    <3>1. CASE c \in Metered
      BY <3>1, <1>6
    <3>2. CASE c \notin Metered
      BY <3>2, <1>0, Numbers
    <3> QED BY <3>1, <3>2
  <2> QED BY <2>1, <2>2, <1>1
<1>8. Stocked'
  BY <1>0, <1>1, <1>5, <1>7, Zenon DEF Stocked, Copy
<1>9. Counted'
  <2>1. ASSUME NEW c \in Clients PROVE counter'[c] + batch'[c] <= events' /\ gen'[c] <= events'
    <3>1. counter[c] + batch[c] <= events /\ gen[c] <= events
      BY <1>0 DEF Counted
    <3>2. counter[c] \in Nat /\ batch[c] \in Nat /\ gen[c] \in Nat /\ events \in Nat
      BY <1>0, Numbers
    <3>3. counter'[c] = 0 /\ gen'[c] = IF c \in Metered THEN gen[c] - counter[c] ELSE gen[c]
      BY <1>1 DEF Cleared
    <3> QED BY <3>1, <3>2, <3>3, <1>1
  <2>2. ASSUME NEW c \in Metered
        PROVE  /\ rows'[c].used <= rows'[c].all
               /\ rows'[c].all + counter'[c] + batch'[c] <= gen'[c]
               /\ \/ "busy" \in fault' \/ c \in raced'
                  \/ rows'[c].all + counter'[c] + batch'[c] = gen'[c]
    <3>1. counter'[c] = 0 /\ gen'[c] = gen[c] - counter[c]
      BY <1>1, <1>6 DEF Cleared
    <3> QED BY <3>1, <1>1, <1>6
  <2> QED BY <2>1, <2>2, <1>5, Zenon DEF Counted
<1>10. Edits' /\ Paired'
  <2>1. \A c \in Metered : rows[c].all <= rows'[c].all
    BY <1>0, <1>1, Numbers
  <2> QED BY <2>1, <1>0, <1>1, <1>2, <1>5, <1>8, EditsKept, Zenon
<1>11. Taken'
  <2>1. pc'[Job] = pc[Job]
    BY <1>0, ProcFacts DEF RestartStarts, Control, Goto, Job, Restart
  <2> QED BY <2>1, <1>0, <1>1, Zenon DEF Taken
<1> QED BY <1>3, <1>4, <1>8, <1>9, <1>10, <1>11, Zenon DEF Inv

-----------------------------------------------------------------------------
(* Edits, one at a time.                                                   *)

\* The one editor is the only one that deletes.
LEMMA SoleEditor ==
    ASSUME OneEditor, NEW e \in Editors, NEW c
    PROVE  Deleting(c) <=> /\ pc[e] = "save" /\ work[e].kind = "delete"
                           /\ work[e].client = c
  BY DEF OneEditor, Deleting

\* After an edit nothing is in progress.
LEMMA EditEnds ==
    ASSUME OneEditor, NEW e \in Editors, pc'[e] = "idle", work'[e] = Idle,
           work' = [f \in Editors |-> work'[f]]
    PROVE  Edits' /\ \A c : ~ Deleting(c)'
<1>1. \A f \in Editors : f = e
  BY DEF OneEditor
<1>2. \A f \in Editors : pc'[f] = "idle" /\ work'[f] = Idle
  BY <1>1, Zenon
<1>3. Edits'
  BY <1>2, Zenon DEF Edits
<1> QED BY <1>2, <1>3 DEF Deleting

\* An edit that has read what is stored begins.
LEMMA BeginStep ==
    ASSUME Inv, OneEditor, NEW e \in Editors, NEW w, Begin(e, w), Reading(w),
           ask' \in [Procs -> BOOLEAN], served' \subseteq Clients,
           fault' \subseteq FaultKinds, fault \subseteq fault'
    PROVE  Inv'
<1>0. Flags /\ Control /\ Stocked /\ Counted /\ Edits /\ Paired /\ Taken
  BY DEF Inv
<1>1. /\ UNCHANGED <<settings, rows, dbLock, need, startCfg, counter, connected, batch,
                     listed, cfg, forced, gen, gap, raced, deleted, events, restarts>>
      /\ edits < MaxEdits /\ edits' = edits + 1
      /\ Goto(e, "idle", "act") /\ work' = [work EXCEPT ![e] = w]
  BY DEF Begin, db, history
<1>2. /\ pc' \in [Procs -> Pcs] /\ pc[e] = "idle" /\ pc'[e] = "act"
  <2>1. e \in Procs /\ "act" \in Pcs
    BY ProcFacts DEF Pcs
  <2> QED BY <2>1, <1>0, <1>1, GotoFacts
<1>3. Flags'
  BY <1>0, <1>1, Zenon DEF Flags
<1>4. Control'
  <2>1. edits' \in 0 .. MaxEdits
    BY <1>0, <1>1, BoundsAssumption DEF Control
  <2> QED BY <2>1, <1>0, <1>1, <1>2, Zenon DEF Control, Pcs
<1>5. Stored' = Stored /\ Metered' = Metered
  BY <1>1 DEF Stored, Metered
<1>6. Stocked'
  BY <1>0, <1>1, <1>5, Zenon DEF Stocked, Copy
<1>7. Counted'
  BY <1>0, <1>1, <1>5 DEF Counted
<1>8. /\ work' = [f \in Editors |-> work'[f]] /\ work'[e] = w
  <2>1. work = [f \in Editors |-> work[f]]
    BY <1>0 DEF Edits
  <2> QED BY <2>1, <1>1
<1>9. Edits'
  <2>1. \A f \in Editors : f = e
    BY DEF OneEditor
  <2>2. Reading(w)'
    BY <1>1, <1>5, Zenon DEF Reading
  <2>3. \A f \in Editors : pc'[f] = "act" /\ work'[f] = w
    BY <2>1, <1>2, <1>8, Zenon
  <2> QED BY <2>2, <2>3, <1>8 DEF Edits
<1>10. Paired'
  <2>1. \A c : ~ Deleting(c) /\ ~ Deleting(c)'
    <3>1. \A f \in Editors : pc[f] # "save" /\ pc'[f] # "save"
      BY <1>2 DEF OneEditor
    <3> QED BY <3>1, Zenon DEF Deleting
  <2> QED BY <2>1, <1>0, <1>1, <1>5, Zenon DEF Paired
<1>11. Taken'
  BY <1>0, <1>1, TakenKept
<1> QED BY <1>3, <1>4, <1>6, <1>7, <1>9, <1>10, <1>11, Zenon DEF Inv

\* An addition, an update or a deletion reads the inbound.
LEMMA ReadInboundStep ==
    ASSUME Inv, OneEditor, NEW e \in Editors, ReadInbound(e)
    PROVE  Inv'
<1>0. Flags /\ Control /\ Stocked
  BY DEF Inv
<1>1. /\ ask' \in [Procs -> BOOLEAN] /\ served' \subseteq Clients
      /\ fault' \subseteq FaultKinds /\ fault \subseteq fault'
  <2>1. UNCHANGED <<served, ask, fault>>
    BY DEF ReadInbound
  <2> QED BY <2>1, <1>0, Zenon DEF Flags, Control
<1>2. PICK c \in Clients, x \in Entries :
        \/ Begin(e, [kind |-> "add", client |-> c, entry |-> x, copy |-> settings])
        \/ /\ c \in Stored
           /\ Begin(e, [kind |-> "update", client |-> c, entry |-> x, copy |-> settings])
        \/ /\ c \in Stored
           /\ Begin(e, [kind |-> "delete", client |-> c, copy |-> settings])
  BY Zenon DEF ReadInbound
<1>3. Copy(settings) /\ DOMAIN settings = Stored
  BY <1>0 DEF Stocked, Stored
<1>4. CASE Begin(e, [kind |-> "add", client |-> c, entry |-> x, copy |-> settings])
  <2> DEFINE w == [kind |-> "add", client |-> c, entry |-> x, copy |-> settings]
  <2>1. w.kind = "add" /\ w.client = c /\ w.entry = x /\ w.copy = settings
    OBVIOUS
  <2>2. Begin(e, w)
    BY <1>4
  <2> HIDE DEF w
  <2>3. Reading(w)
    BY <2>1, <1>3 DEF Reading
  <2> QED BY <2>2, <2>3, <1>1, BeginStep, Zenon
<1>5. CASE c \in Stored /\ Begin(e, [kind |-> "update", client |-> c, entry |-> x, copy |-> settings])
  <2> DEFINE w == [kind |-> "update", client |-> c, entry |-> x, copy |-> settings]
  <2>1. w.kind = "update" /\ w.client = c /\ w.entry = x /\ w.copy = settings
    OBVIOUS
  <2>2. Begin(e, w)
    BY <1>5
  <2> HIDE DEF w
  <2>3. Reading(w)
    BY <2>1, <1>3, <1>5 DEF Reading
  <2> QED BY <2>2, <2>3, <1>1, BeginStep, Zenon
<1>6. CASE c \in Stored /\ Begin(e, [kind |-> "delete", client |-> c, copy |-> settings])
  <2> DEFINE w == [kind |-> "delete", client |-> c, copy |-> settings]
  <2>1. w.kind = "delete" /\ w.client = c /\ w.copy = settings
    OBVIOUS
  <2>2. Begin(e, w)
    BY <1>6
  <2> HIDE DEF w
  <2>3. Reading(w)
    BY <2>1, <1>3, <1>6 DEF Reading
  <2> QED BY <2>2, <2>3, <1>1, BeginStep, Zenon
<1> QED BY <1>2, <1>4, <1>5, <1>6

\* A reset reads the row and tells the core.
LEMMA ResetReadsStep ==
    ASSUME Inv, OneEditor, NEW e \in Editors, ResetReads(e)
    PROVE  Inv'
<1>0. Flags /\ Control /\ Stocked
  BY DEF Inv
<1>1. PICK c \in Metered \cap Stored :
        /\ Begin(e, [kind |-> "reset", client |-> c, row |-> rows[c]])
        /\ Alter(e, {}, IF ~rows[c].enable /\ settings[c].enable THEN {c} ELSE {})
  BY Zenon DEF ResetReads
<1>2. c \in Clients /\ rows[c] \in Row /\ rows[c].all \in Nat /\ c \in Metered
  BY <1>0, Numbers
<1>3. /\ ask' \in [Procs -> BOOLEAN] /\ served' \subseteq Clients
      /\ fault' \subseteq FaultKinds /\ fault \subseteq fault'
  <2> DEFINE on == IF ~rows[c].enable /\ settings[c].enable THEN {c} ELSE {}
  <2>1. on \subseteq Clients
    BY <1>2, Zenon
  <2>2. Alter(e, {}, on)
    BY <1>1
  <2>3. e \in Procs
    BY ProcFacts
  <2> HIDE DEF on
  <2> QED BY <2>1, <2>2, <2>3, <1>0, AlterFacts
<1> DEFINE w == [kind |-> "reset", client |-> c, row |-> rows[c]]
<1>4. w.kind = "reset" /\ w.client = c /\ w.row = rows[c]
  OBVIOUS
<1>5. Begin(e, w)
  BY <1>1
<1> HIDE DEF w
<1>6. Reading(w)
  BY <1>2, <1>4 DEF Reading
<1> QED BY <1>3, <1>5, <1>6, BeginStep, Zenon

\* A purge looks for depleted clients and reads the inbound.
LEMMA DepleteReadsStep ==
    ASSUME Inv, OneEditor, NEW e \in Editors, DepleteReads(e)
    PROVE  Inv'
<1>0. Flags /\ Control /\ Stocked
  BY DEF Inv
<1>1. /\ ask' \in [Procs -> BOOLEAN] /\ served' \subseteq Clients
      /\ fault' \subseteq FaultKinds /\ fault \subseteq fault'
  <2>1. UNCHANGED <<served, ask, fault>>
    BY DEF DepleteReads
  <2> QED BY <2>1, <1>0, Zenon DEF Flags, Control
<1> DEFINE expired == {c \in Metered : rows[c].exp = "past"}
<1> DEFINE gone == Exhausted(expired)
<1> DEFINE w == [kind |-> "deplete", gone |-> gone, expired |-> expired, copy |-> settings]
<1>2. Begin(e, w)
  BY DEF DepleteReads
<1>3. gone \subseteq Clients
  <2>1. gone \subseteq Metered
    BY Zenon DEF Exhausted
  <2>2. Metered \subseteq Clients
    BY <1>0 DEF Stocked
  <2> QED BY <2>1, <2>2, Zenon
<1> HIDE DEF gone, expired
<1>4. w.kind = "deplete" /\ w.gone = gone /\ w.copy = settings
  OBVIOUS
<1>5. Copy(settings) /\ DOMAIN settings = Stored
  BY <1>0 DEF Stocked, Stored
<1> HIDE DEF w
<1>6. Reading(w)
  BY <1>3, <1>4, <1>5 DEF Reading
<1> QED BY <1>1, <1>2, <1>6, BeginStep, Zenon

\* What the end of an edit leaves to show.
LEMMA EndingStep ==
    ASSUME Inv, OneEditor, NEW e \in Editors, NEW from, Goto(e, from, "idle"), Answered(e),
           UNCHANGED <<served, startCfg, counter, connected, batch, listed, cfg, forced,
                       fault, events, edits, restarts>>,
           gap' \subseteq Clients, deleted' \subseteq Clients, dbLock' \in {NoOne, dbLock},
           Stocked', Counted',
           \A c \in Clients \ raced' : c \in Stored' <=> c \in Metered'
    PROVE  Inv'
<1>0. Flags /\ Control /\ Edits /\ Taken
  BY DEF Inv
<1>1. pc' \in [Procs -> Pcs] /\ pc'[e] = "idle"
  <2>1. e \in Procs /\ "idle" \in Pcs
    BY ProcFacts DEF Pcs
  <2> QED BY <2>1, <1>0, GotoFacts
<1>2. Flags' /\ work' = [f \in Editors |-> work'[f]] /\ work'[e] = Idle
  <2>1. work = [f \in Editors |-> work[f]]
    BY <1>0 DEF Edits
  <2> QED BY <2>1, <1>0, AnsweredFacts
<1>3. Control'
  BY <1>0, <1>1, Zenon DEF Control, Pcs
<1>4. Edits' /\ \A c : ~ Deleting(c)'
  BY <1>1, <1>2, EditEnds
<1>5. Paired'
  BY <1>4, Zenon DEF Paired
<1>6. Taken'
  BY <1>0, TakenKept
<1> QED BY <1>2, <1>3, <1>4, <1>5, <1>6, Zenon DEF Inv

\* Where an edit has not deleted a row, rows and clients go together.
LEMMA PairedNow ==
    ASSUME Inv, OneEditor, NEW e \in Editors, pc[e] # "save" \/ work[e].kind # "delete"
    PROVE  \A c \in Clients \ raced : c \in Stored <=> c \in Metered
<1>1. \A c : ~ Deleting(c)
  BY SoleEditor, Zenon
<1> QED BY <1>1, Zenon DEF Inv, Paired

\* An addition commits.
LEMMA AddCommitsStep ==
    ASSUME Inv, OneEditor, NEW e \in Editors, AddCommits(e)
    PROVE  Inv'
<1>0. Flags /\ Control /\ Stocked /\ Counted /\ Edits
  BY DEF Inv
<1> DEFINE w == work[e]
<1> DEFINE k == w.client
<1>1. /\ UNCHANGED <<served, startCfg, counter, connected, batch, listed, cfg, forced, gap,
                     raced, fault, events, edits, restarts>>
      /\ dbLock' = NoOne /\ deleted' = deleted \ {k} /\ w.kind = "add"
      /\ Goto(e, "save", "idle") /\ Answered(e)
      /\ rows' = WithStat(w) /\ settings' = With(w.copy, k, w.entry)
      /\ gen' = IF k \in Metered THEN gen ELSE [gen EXCEPT ![k] = counter[k] + batch[k]]
  BY DEF AddCommits, core, budget
<1>2. pc[e] = "save"
  BY <1>1 DEF Goto
<1>3. k \in Clients /\ w.entry \in Entries /\ Copy(w.copy) /\ DOMAIN w.copy = Stored
  <2>1. Reading(w)
    BY <1>0, <1>2 DEF Edits
  <2> QED BY <2>1, <1>1 DEF Reading
<1> HIDE DEF w, k
<1>4. DOMAIN settings' = Stored \cup {k} /\ settings' \in [Stored \cup {k} -> Entries]
      /\ Stored \subseteq Clients
  <2>1. w.copy \in [DOMAIN w.copy -> Entries] /\ DOMAIN w.copy \subseteq Clients
    BY <1>3 DEF Copy
  <2>2. settings' = [y \in Stored \cup {k} |-> IF y = k THEN w.entry ELSE w.copy[y]]
    BY <1>1, <1>3, Zenon DEF With
  <2> QED BY <2>1, <2>2, <1>3
<1>5. Copy(settings') /\ Stored' = Stored \cup {k}
  BY <1>3, <1>4 DEF Copy, Stored
<1>6. Metered \subseteq Clients /\ rows \in [Metered -> Row] /\ DOMAIN rows = Metered
  BY <1>0 DEF Stocked, Metered
<1>7. /\ DOMAIN rows' = Metered \cup {k} /\ rows' \in [Metered \cup {k} -> Row]
      /\ \A c \in Metered : rows'[c] = rows[c]
      /\ k \notin Metered => rows'[k].used = 0 /\ rows'[k].all = 0
  <2>1. CASE k \in Metered
    <3>1. rows' = rows
      BY <2>1, <1>1 DEF WithStat, k
    <3> QED BY <3>1, <2>1, <1>6
  <2>2. CASE k \notin Metered
    <3> DEFINE r == [enable |-> w.entry.enable, exp |-> w.entry.exp, used |-> 0, all |-> 0]
    <3>1. rows' = With(rows, k, r)
      BY <2>2, <1>1 DEF WithStat, k
    <3>2. r \in Row /\ r.used = 0 /\ r.all = 0
      BY <1>3 DEF Row, Entries
    <3> HIDE DEF r
    <3>3. rows' = [y \in Metered \cup {k} |-> IF y = k THEN r ELSE rows[y]]
      BY <3>1, <1>6, Zenon DEF With
    <3> QED BY <2>2, <3>2, <3>3, <1>6
  <2> QED BY <2>1, <2>2
<1>8. Metered' = Metered \cup {k}
  BY <1>7 DEF Metered
<1>9. counter[k] \in Nat /\ batch[k] \in Nat /\ counter[k] + batch[k] <= events
  BY <1>0, <1>3, Numbers DEF Counted
<1>10. /\ gen' \in [Clients -> Nat]
       /\ \A c \in Clients : c # k \/ k \in Metered => gen'[c] = gen[c]
       /\ k \notin Metered => gen'[k] = counter[k] + batch[k]
  <2>1. gen \in [Clients -> Nat]
    BY <1>0 DEF Stocked
  <2>2. counter[k] + batch[k] \in Nat
    BY <1>9
  <2> QED BY <2>1, <2>2, <1>1, <1>3
<1>11. Stocked'
  <2>1. Metered' \subseteq Clients /\ rows' \in [Metered' -> Row]
    BY <1>3, <1>6, <1>7, <1>8, Zenon
  <2> QED BY <2>1, <1>0, <1>1, <1>5, <1>10, Zenon DEF Stocked, Copy
<1>12. Counted'
  <2>1. ASSUME NEW c \in Clients PROVE counter'[c] + batch'[c] <= events' /\ gen'[c] <= events'
    <3>1. counter[c] + batch[c] <= events /\ gen[c] <= events
      BY <1>0 DEF Counted
    <3> QED BY <3>1, <1>1, <1>9, <1>10
  <2>2. ASSUME NEW c \in Metered'
        PROVE  /\ rows'[c].used <= rows'[c].all
               /\ rows'[c].all + counter'[c] + batch'[c] <= gen'[c]
               /\ \/ "busy" \in fault' \/ c \in raced'
                  \/ rows'[c].all + counter'[c] + batch'[c] = gen'[c]
    <3>1. CASE c \in Metered
      <4>1. rows'[c] = rows[c] /\ gen'[c] = gen[c]
        BY <3>1, <1>6, <1>7, <1>10
      <4> QED BY <4>1, <3>1, <1>0, <1>1, Zenon DEF Counted
    <3>2. CASE c \notin Metered
      <4>1. c = k /\ rows'[c].used = 0 /\ rows'[c].all = 0 /\ gen'[c] = counter[c] + batch[c]
        BY <3>2, <1>7, <1>8, <1>10, Zenon
      <4> QED BY <4>1, <1>1, <1>9
    <3> QED BY <3>1, <3>2
  <2> QED BY <2>1, <2>2, Zenon DEF Counted
<1>13. \A c \in Clients \ raced' : c \in Stored' <=> c \in Metered'
  <2>1. \A c \in Clients \ raced : c \in Stored <=> c \in Metered
    BY <1>1, PairedNow DEF w
  <2> QED BY <2>1, <1>1, <1>5, <1>8
<1>14. gap' \subseteq Clients /\ deleted' \subseteq Clients
  BY <1>0, <1>1 DEF Control
<1> QED BY <1>1, <1>11, <1>12, <1>13, <1>14, EndingStep

\* A row switched and dated anew, field by field.
LEMMA RowUpdated ==
    ASSUME NEW r \in Row, NEW b, NEW t, NEW g, g = [r EXCEPT !.enable = b, !.exp = t]
    PROVE  g = [enable |-> b, exp |-> t, used |-> r.used, all |-> r.all]
  BY Zenon DEF Row

\* One row of the table changed so.
LEMMA RowsUpdated ==
    ASSUME NEW f, NEW c, c \in DOMAIN f, NEW b, NEW t, NEW g,
           g = [f EXCEPT ![c].enable = b, ![c].exp = t]
    PROVE  /\ DOMAIN g = DOMAIN f /\ g[c] = [f[c] EXCEPT !.enable = b, !.exp = t]
           /\ g = [x \in DOMAIN f |-> g[x]]
           /\ \A x \in DOMAIN f : x # c => g[x] = f[x]
  BY Zenon

\* An update commits.
LEMMA UpdateCommitsStep ==
    ASSUME Inv, OneEditor, NEW e \in Editors, UpdateCommits(e)
    PROVE  Inv'
<1>0. Flags /\ Control /\ Stocked /\ Counted /\ Edits
  BY DEF Inv
<1> DEFINE w == work[e]
<1> DEFINE k == w.client
<1>1. /\ UNCHANGED <<served, startCfg, counter, connected, batch, listed, cfg, forced, gap,
                     raced, fault, events, edits, restarts, gen, deleted>>
      /\ dbLock' = NoOne /\ w.kind = "update"
      /\ Goto(e, "save", "idle") /\ Answered(e)
      /\ settings' = [w.copy EXCEPT ![k] = w.entry]
  BY DEF UpdateCommits, core, history, budget
<1>2. rows' = IF k \in Metered
              THEN [rows EXCEPT ![k].enable = w.entry.enable, ![k].exp = w.entry.exp]
              ELSE rows
  BY Zenon DEF UpdateCommits
<1>3. pc[e] = "save"
  BY <1>1 DEF Goto
<1>4. k \in Stored /\ w.entry \in Entries /\ Copy(w.copy) /\ DOMAIN w.copy = Stored
  <2>1. Reading(w)
    BY <1>0, <1>3 DEF Edits
  <2> QED BY <2>1, <1>1 DEF Reading
<1> HIDE DEF w, k
<1>5. DOMAIN settings' = Stored /\ Copy(settings')
  <2>1. w.copy \in [Stored -> Entries] /\ Stored \subseteq Clients
    BY <1>4 DEF Copy
  <2>2. settings' \in [Stored -> Entries]
    BY <2>1, <1>1, <1>4
  <2> QED BY <2>1, <2>2 DEF Copy
<1>6. Metered \subseteq Clients /\ rows \in [Metered -> Row] /\ DOMAIN rows = Metered
  BY <1>0 DEF Stocked, Metered
<1>7. /\ DOMAIN rows' = Metered /\ rows' \in [Metered -> Row]
      /\ \A c \in Metered : rows'[c].used = rows[c].used /\ rows'[c].all = rows[c].all
  <2>1. CASE k \in Metered
    <3>1. rows' = [rows EXCEPT ![k].enable = w.entry.enable, ![k].exp = w.entry.exp]
      BY <2>1, <1>2, Zenon
    <3>2. /\ DOMAIN rows' = Metered
          /\ rows'[k] = [rows[k] EXCEPT !.enable = w.entry.enable, !.exp = w.entry.exp]
          /\ rows' = [x \in Metered |-> rows'[x]]
          /\ \A x \in Metered : x # k => rows'[x] = rows[x]
      BY <2>1, <3>1, <1>6, RowsUpdated, Zenon
    <3>3. rows[k] \in Row
      BY <2>1, <1>6
    <3>4. rows'[k] = [enable |-> w.entry.enable, exp |-> w.entry.exp, used |-> rows[k].used,
                      all |-> rows[k].all]
      <4>1. rows'[k] = [rows[k] EXCEPT !.enable = w.entry.enable, !.exp = w.entry.exp]
        BY <3>2, Zenon
      <4> QED BY <4>1, <3>3, RowUpdated, Zenon
    <3>5. rows'[k] \in Row /\ rows'[k].used = rows[k].used /\ rows'[k].all = rows[k].all
      BY <3>3, <3>4, <1>4 DEF Row, Entries
    <3>6. \A c \in Metered : /\ rows'[c] \in Row
                             /\ rows'[c].used = rows[c].used /\ rows'[c].all = rows[c].all
      <4> SUFFICES ASSUME NEW c \in Metered
                   PROVE  /\ rows'[c] \in Row
                          /\ rows'[c].used = rows[c].used /\ rows'[c].all = rows[c].all
        BY Zenon
      <4>1. rows[c] \in Row
        BY <1>6
      <4>2. rows' = [x \in Metered |-> rows'[x]] /\ (c # k => rows'[c] = rows[c])
        BY <3>2, Zenon
      <4> QED BY <4>1, <4>2, <3>5, Zenon
    <3>7. rows' \in [Metered -> Row]
      <4>1. rows' = [x \in Metered |-> rows'[x]]
        BY <3>2, Zenon
      <4> QED BY <4>1, <3>6, Zenon
    <3>8. DOMAIN rows' = Metered
      BY <3>2, Zenon
    <3> QED BY <3>6, <3>7, <3>8, Zenon
  <2>2. CASE k \notin Metered
    BY <2>2, <1>2, <1>6
  <2> QED BY <2>1, <2>2
<1>8. Stored' = Stored /\ Metered' = Metered
  BY <1>5, <1>7 DEF Stored, Metered
<1>9. Stocked'
  BY <1>0, <1>1, <1>5, <1>7, <1>8, Zenon DEF Stocked
<1>10. Counted'
  <2>1. /\ Metered' = Metered /\ counter' = counter /\ batch' = batch /\ gen' = gen
        /\ fault' = fault /\ raced' = raced /\ events' = events
    BY <1>1, <1>8
  <2> QED BY <2>1, <1>0, <1>7, Zenon DEF Counted
<1>11. \A c \in Clients \ raced' : c \in Stored' <=> c \in Metered'
  <2>1. \A c \in Clients \ raced : c \in Stored <=> c \in Metered
    BY <1>1, PairedNow DEF w
  <2> QED BY <2>1, <1>1, <1>8, Zenon
<1>12. gap' \subseteq Clients /\ deleted' \subseteq Clients
  BY <1>0, <1>1 DEF Control
<1> QED BY <1>1, <1>9, <1>10, <1>11, <1>12, EndingStep

\* DelClientStat deletes the row, or there is none and the deletion ends.
LEMMA DeleteStatStep ==
    ASSUME Inv, OneEditor, NEW e \in Editors, DeleteStat(e)
    PROVE  Inv'
<1>0. Flags /\ Control /\ Stocked /\ Counted /\ Edits /\ Paired /\ Taken
  BY DEF Inv
<1> DEFINE w == work[e]
<1> DEFINE k == w.client
<1> DEFINE found == k \in Metered
<1>1. /\ UNCHANGED <<settings, dbLock, startCfg, counter, connected, need, batch, listed,
                     cfg, forced, gap, raced, deleted, events, edits, restarts>>
      /\ w.kind = "delete" /\ Goto(e, "act", IF found THEN "save" ELSE "idle")
      /\ rows' = Restrict(rows, Metered \ {k})
      /\ gen' = [gen EXCEPT ![k] = 0]
      /\ work' = IF found THEN work ELSE [work EXCEPT ![e] = Idle]
  BY DEF DeleteStat, budget
<1>2. \E off : Alter(e, off, {})
  BY Zenon DEF DeleteStat
<1>3. e \in Procs
  BY ProcFacts
<1>4. /\ pc' \in [Procs -> Pcs] /\ pc[e] = "act" /\ pc'[e] = IF found THEN "save" ELSE "idle"
  <2>1. (IF found THEN "save" ELSE "idle") \in Pcs
    BY DEF Pcs
  <2> QED BY <2>1, <1>0, <1>1, <1>3, GotoFacts
<1>5. Reading(w) /\ k \in Stored /\ k \in Clients
  <2>1. Reading(w)
    BY <1>0, <1>4 DEF Edits
  <2>2. k \in Stored
    BY <2>1, <1>1 DEF Reading
  <2> QED BY <2>1, <2>2, <1>0 DEF Stocked, Copy, Stored
<1>6. /\ ask' \in [Procs -> BOOLEAN] /\ served' \subseteq Clients
      /\ fault' \subseteq FaultKinds /\ fault \subseteq fault'
  <2>1. PICK off : Alter(e, off, {})
    BY <1>2
  <2>2. {} \subseteq Clients
    OBVIOUS
  <2> QED BY <2>1, <2>2, <1>0, <1>3, AlterFacts
<1>7. Flags' /\ Control'
  <2>1. Flags'
    BY <1>0, <1>1, <1>6, Zenon DEF Flags
  <2>2. Control'
    BY <1>0, <1>1, <1>4, <1>6, Zenon DEF Control, Pcs
  <2> QED BY <2>1, <2>2
<1> HIDE DEF w, k, found
<1>8. Stored' = Stored
  BY <1>1 DEF Stored
<1>9. Metered \subseteq Clients /\ rows \in [Metered -> Row] /\ DOMAIN rows = Metered
  BY <1>0 DEF Stocked, Metered
<1>10. rows' = [c \in Metered \ {k} |-> rows[c]]
  BY <1>1, Zenon DEF Restrict
<1>11. /\ DOMAIN rows' = Metered \ {k} /\ rows' \in [Metered \ {k} -> Row]
       /\ \A c \in Metered \ {k} : rows'[c] = rows[c]
  BY <1>9, <1>10
<1>12. Metered' = Metered \ {k}
  BY <1>11 DEF Metered
<1>13. /\ gen' \in [Clients -> Nat] /\ gen'[k] = 0
       /\ \A c \in Clients : c # k => gen'[c] = gen[c]
  <2>1. gen \in [Clients -> Nat]
    BY <1>0 DEF Stocked
  <2> QED BY <2>1, <1>1, <1>5
<1>14. Stocked'
  <2>1. Metered' \subseteq Clients /\ rows' \in [Metered' -> Row]
    BY <1>9, <1>11, <1>12, Zenon
  <2> QED BY <2>1, <1>0, <1>1, <1>8, <1>13, Zenon DEF Stocked, Copy
<1>15. Counted'
  <2>1. ASSUME NEW c \in Clients PROVE counter'[c] + batch'[c] <= events' /\ gen'[c] <= events'
    <3>1. counter[c] + batch[c] <= events /\ gen[c] <= events /\ events \in Nat
      BY <1>0, Numbers DEF Counted
    <3> QED BY <3>1, <1>1, <1>13
  <2>2. ASSUME NEW c \in Metered'
        PROVE  /\ rows'[c].used <= rows'[c].all
               /\ rows'[c].all + counter'[c] + batch'[c] <= gen'[c]
               /\ \/ "busy" \in fault' \/ c \in raced'
                  \/ rows'[c].all + counter'[c] + batch'[c] = gen'[c]
    <3>1. c \in Metered /\ c # k /\ c \in Clients
      BY <1>9, <1>12
    <3>2. rows'[c] = rows[c] /\ gen'[c] = gen[c] /\ counter' = counter /\ batch' = batch
          /\ raced' = raced
      BY <3>1, <1>1, <1>11, <1>13
    <3> QED BY <3>1, <3>2, <1>0, <1>6 DEF Counted
  <2> QED BY <2>1, <2>2, Zenon DEF Counted
<1>16. \A c \in Clients \ raced : c \in Stored <=> c \in Metered
  BY <1>4, PairedNow
<1>17. Edits' /\ Paired'
  <2>1. work = [f \in Editors |-> work[f]]
    BY <1>0 DEF Edits
  <2>2. \A f \in Editors : f = e
    BY DEF OneEditor
  <2>3. CASE found
    <3>1. work' = work /\ pc'[e] = "save" /\ work[e] = w
      BY <2>3, <1>1, <1>4 DEF w
    <3>2. ASSUME NEW v, Reading(v), v.kind = "delete" PROVE Reading(v)'
      <4>1. v.client \in Stored /\ Copy(v.copy) /\ DOMAIN v.copy = Stored
        BY <3>2 DEF Reading
      <4> QED BY <3>2, <4>1, <1>8, Zenon DEF Reading
    <3>3. \A f \in Editors : /\ pc'[f] = "save" /\ work'[f] = work[f]
                             /\ Reading(work[f]) /\ work[f].kind = "delete"
      BY <3>1, <2>2, <1>1, <1>5, Zenon DEF w
    <3>4. Edits'
      BY <2>1, <3>1, <3>2, <3>3, Zenon DEF Edits
    <3>5. \A c : Deleting(c)' <=> c = k
      <4>1. \A c : Deleting(c)' <=> /\ pc'[e] = "save" /\ work'[e].kind = "delete"
                                    /\ work'[e].client = c
        BY <2>2 DEF Deleting
      <4> QED BY <4>1, <3>1, <1>1, Zenon DEF k
    <3>6. Paired'
      BY <3>5, <1>1, <1>8, <1>12, <1>16 DEF Paired
    <3> QED BY <3>4, <3>6
  <2>4. CASE ~found
    <3>1. /\ work' = [f \in Editors |-> work'[f]] /\ work'[e] = Idle /\ pc'[e] = "idle"
      <4>1. work' = [work EXCEPT ![e] = Idle] /\ pc'[e] = "idle"
        BY <2>4, <1>1, <1>4, Zenon
      <4> QED BY <4>1, <2>1
    <3>2. Edits' /\ \A c : ~ Deleting(c)'
      BY <3>1, EditEnds
    <3>3. Metered' = Metered
      BY <2>4, <1>12 DEF found
    <3>4. Paired'
      BY <3>2, <3>3, <1>1, <1>8, <1>16, Zenon DEF Paired
    <3> QED BY <3>2, <3>4
  <2> QED BY <2>3, <2>4
<1>18. Taken'
  BY <1>0, <1>1, TakenKept
<1> QED BY <1>7, <1>14, <1>15, <1>17, <1>18, Zenon DEF Inv

\* The deletion saves the inbound without the client.
LEMMA DeleteSavesStep ==
    ASSUME Inv, OneEditor, NEW e \in Editors, DeleteSaves(e)
    PROVE  Inv'
<1>0. Flags /\ Control /\ Stocked /\ Counted /\ Edits /\ Paired
  BY DEF Inv
<1> DEFINE w == work[e]
<1> DEFINE k == w.client
<1>1. /\ UNCHANGED <<rows, dbLock, served, startCfg, counter, connected, batch, listed, cfg,
                     forced, gen, gap, raced, fault, events, edits, restarts>>
      /\ w.kind = "delete" /\ Goto(e, "save", "idle") /\ Answered(e)
      /\ settings' = Restrict(w.copy, DOMAIN w.copy \ {k})
      /\ deleted' = deleted \cup {k}
  BY DEF DeleteSaves, core, budget
<1>2. pc[e] = "save"
  BY <1>1 DEF Goto
<1>3. k \in Stored /\ Copy(w.copy) /\ DOMAIN w.copy = Stored
  <2>1. Reading(w)
    BY <1>0, <1>2 DEF Edits
  <2> QED BY <2>1, <1>1 DEF Reading
<1>4. Deleting(k)
  BY <1>1, <1>2 DEF Deleting
<1>5. \A c : Deleting(c) => c = k
  BY SoleEditor
<1> HIDE DEF w, k
<1>6. w.copy \in [Stored -> Entries] /\ Stored \subseteq Clients
  BY <1>3 DEF Copy
<1>7. settings' = [c \in Stored \ {k} |-> w.copy[c]]
  BY <1>1, <1>3, Zenon DEF Restrict
<1>8. DOMAIN settings' = Stored \ {k} /\ settings' \in [Stored \ {k} -> Entries]
  BY <1>6, <1>7
<1>9. Copy(settings') /\ Stored' = Stored \ {k} /\ Metered' = Metered
  BY <1>1, <1>6, <1>8 DEF Copy, Stored, Metered
<1>10. Stocked'
  BY <1>0, <1>1, <1>9, Zenon DEF Stocked
<1>11. Counted'
  BY <1>0, <1>1, <1>9 DEF Counted
<1>12. \A c \in Clients \ raced' : c \in Stored' <=> c \in Metered'
  <2>1. k \notin Metered
    BY <1>0, <1>3, <1>4, <1>6 DEF Paired
  <2>2. \A c \in Clients \ raced : c # k => (c \in Stored <=> c \in Metered)
    BY <1>0, <1>5, Zenon DEF Paired
  <2> QED BY <2>1, <2>2, <1>1, <1>9
<1>13. gap' \subseteq Clients /\ deleted' \subseteq Clients
  BY <1>0, <1>1, <1>3, <1>6 DEF Control
<1> QED BY <1>1, <1>10, <1>11, <1>12, <1>13, EndingStep

\* A reset saves the row it has read.
LEMMA ResetSavesStep ==
    ASSUME Inv, OneEditor, NEW e \in Editors, ResetSaves(e)
    PROVE  Inv'
<1>0. Flags /\ Control /\ Stocked /\ Counted /\ Edits
  BY DEF Inv
<1> DEFINE w == work[e]
<1> DEFINE k == w.client
<1>1. /\ UNCHANGED <<settings, dbLock, served, startCfg, counter, connected, batch, listed,
                     cfg, forced, gen, gap, deleted, fault, events, edits, restarts>>
      /\ w.kind = "reset" /\ Goto(e, "act", "idle") /\ Answered(e)
      /\ raced' = IF k \in Metered /\ rows[k].all = w.row.all THEN raced ELSE raced \cup {k}
  BY Zenon DEF ResetSaves, core, budget
<1>2. rows' = With(rows, k, [w.row EXCEPT !.used = 0, !.enable = TRUE])
  BY Zenon DEF ResetSaves
<1>3. pc[e] = "act"
  BY <1>1 DEF Goto
<1>4. k \in Metered /\ w.row \in Row /\ w.row.all <= rows[k].all
  <2>1. Reading(w)
    BY <1>0, <1>3 DEF Edits
  <2> QED BY <2>1, <1>1 DEF Reading
<1> DEFINE r == [w.row EXCEPT !.used = 0, !.enable = TRUE]
<1>5. rows' = With(rows, k, r)
  BY <1>2, Zenon
<1>6. r = [enable |-> TRUE, exp |-> w.row.exp, used |-> 0, all |-> w.row.all]
  BY <1>4, RowReset, Zenon
<1> HIDE DEF r
<1>7. r \in Row /\ r.used = 0 /\ r.all = w.row.all /\ w.row.all \in Nat
  BY <1>4, <1>6 DEF Row
<1>9. \A c \in Clients \ raced : c \in Stored <=> c \in Metered
  BY <1>3, PairedNow
<1> HIDE DEF w, k
<1>10. Metered \subseteq Clients /\ rows \in [Metered -> Row] /\ DOMAIN rows = Metered
  BY <1>0 DEF Stocked, Metered
<1>11. rows' = [y \in Metered |-> IF y = k THEN r ELSE rows[y]]
  <2>1. Metered \cup {k} = Metered
    BY <1>4
  <2>2. rows' = [y \in Metered \cup {k} |-> IF y = k THEN r ELSE rows[y]]
    BY <1>5, <1>10, Zenon DEF With
  <2> QED BY <2>1, <2>2, Zenon
<1>12. /\ DOMAIN rows' = Metered /\ rows' \in [Metered -> Row] /\ rows'[k] = r
       /\ \A c \in Metered : c # k => rows'[c] = rows[c]
  BY <1>4, <1>7, <1>10, <1>11
<1>13. Stored' = Stored /\ Metered' = Metered
  BY <1>1, <1>12 DEF Stored, Metered
<1>14. raced \subseteq raced' /\ raced' \subseteq Clients
  BY <1>0, <1>1, <1>4, <1>10 DEF Stocked
<1>15. Stocked'
  BY <1>0, <1>1, <1>12, <1>13, <1>14, Zenon DEF Stocked, Copy
<1>16. Counted'
  <2>1. \A c \in Clients : counter'[c] + batch'[c] <= events' /\ gen'[c] <= events'
    BY <1>0, <1>1, Zenon DEF Counted
  <2>2. ASSUME NEW c \in Metered
        PROVE  /\ rows'[c].used <= rows'[c].all
               /\ rows'[c].all + counter'[c] + batch'[c] <= gen'[c]
               /\ \/ "busy" \in fault' \/ c \in raced'
                  \/ rows'[c].all + counter'[c] + batch'[c] = gen'[c]
    <3>1. /\ rows[c].used <= rows[c].all
          /\ rows[c].all + counter[c] + batch[c] <= gen[c]
          /\ \/ "busy" \in fault \/ c \in raced
             \/ rows[c].all + counter[c] + batch[c] = gen[c]
      BY <1>0 DEF Counted
    <3>2. /\ c \in Clients /\ rows[c].all \in Nat /\ counter[c] \in Nat /\ batch[c] \in Nat
          /\ gen[c] \in Nat
      BY <1>0, Numbers
    <3>3. counter' = counter /\ batch' = batch /\ gen' = gen /\ fault' = fault
      BY <1>1
    <3>4. CASE c = k
      <4>1. rows'[c].used = 0 /\ rows'[c].all = w.row.all
        BY <3>4, <1>7, <1>12
      <4>2. c \in raced' \/ rows[c].all = w.row.all
        BY <3>4, <1>1
      <4> QED BY <4>1, <4>2, <3>1, <3>2, <3>3, <3>4, <1>4, <1>7, <1>14
    <3>5. CASE c # k
      <4>1. rows'[c] = rows[c]
        BY <3>5, <1>12
      <4> QED BY <4>1, <3>1, <3>3, <1>14
    <3> QED BY <3>4, <3>5
  <2> QED BY <2>1, <2>2, <1>13, Zenon DEF Counted
<1>17. \A c \in Clients \ raced' : c \in Stored' <=> c \in Metered'
  BY <1>9, <1>13, <1>14
<1>18. gap' \subseteq Clients /\ deleted' \subseteq Clients
  BY <1>0, <1>1 DEF Control
<1> QED BY <1>1, <1>15, <1>16, <1>17, <1>18, EndingStep

\* All rows are reset at once.
LEMMA ResetAllStep ==
    ASSUME Inv, NEW e \in Editors, ResetAllClientTraffics(e)
    PROVE  Inv'
<1>0. Flags /\ Control /\ Stocked /\ Counted /\ Edits /\ Paired /\ Taken
  BY DEF Inv
<1>1. /\ UNCHANGED <<settings, dbLock, served, startCfg, counter, connected, pc, batch,
                     listed, work, cfg, forced, ask, gen, gap, raced, deleted, fault,
                     events, restarts>>
      /\ edits < MaxEdits /\ edits' = edits + 1
      /\ rows' = [c \in Metered |-> [rows[c] EXCEPT !.enable = TRUE, !.used = 0]]
  BY Zenon DEF ResetAllClientTraffics, core, calls, history
<1>2. Flags'
  <2>1. need' \in {TRUE, need}
    BY DEF ResetAllClientTraffics
  <2>2. need' = TRUE \/ need' = need
    BY <2>1, Zenon
  <2>3. need' \in BOOLEAN
    BY <2>2, <1>0, Zenon DEF Flags
  <2> QED BY <2>3, <1>0, <1>1, Zenon DEF Flags
<1>3. ASSUME NEW c \in Metered
      PROVE  rows'[c] \in Row /\ rows'[c].used = 0 /\ rows'[c].all = rows[c].all
  <2>1. rows[c] \in Row
    BY <1>0, Numbers
  <2>2. rows'[c] = [rows[c] EXCEPT !.enable = TRUE, !.used = 0]
    BY <1>1, Zenon
  <2>3. rows'[c] = [enable |-> TRUE, exp |-> rows[c].exp, used |-> 0, all |-> rows[c].all]
    BY <2>1, <2>2, RowsReset, Zenon
  <2> QED BY <2>1, <2>3 DEF Row
<1>4. DOMAIN rows' = Metered /\ rows' = [c \in Metered |-> rows'[c]]
  BY <1>1, Zenon
<1>5. UNCHANGED <<settings, dbLock, served, startCfg, counter, connected, pc, batch, listed,
                  work, cfg, forced, ask, gen, gap, raced, deleted, fault, events,
                  restarts>>
  BY <1>1, Zenon
<1>6. Control'
  <2>1. edits' \in 0 .. MaxEdits
    <3>1. edits < MaxEdits /\ edits' = edits + 1
      BY <1>1, Zenon
    <3> QED BY <3>1, <1>0, BoundsAssumption DEF Control
  <2> QED BY <2>1, <1>0, <1>5, Zenon DEF Control
<1>7. Stored' = Stored /\ Metered' = Metered
  BY <1>4, <1>5 DEF Stored, Metered
<1>8. Stocked'
  <2>1. rows' \in [Metered -> Row]
    BY <1>3, <1>4, Zenon
  <2> QED BY <2>1, <1>0, <1>5, <1>7, Zenon DEF Stocked, Copy
<1>9. Counted'
  <2>1. \A c \in Clients : counter'[c] + batch'[c] <= events' /\ gen'[c] <= events'
    BY <1>0, <1>5, Zenon DEF Counted
  <2>2. ASSUME NEW c \in Metered
        PROVE  /\ rows'[c].used <= rows'[c].all
               /\ rows'[c].all + counter'[c] + batch'[c] <= gen'[c]
               /\ \/ "busy" \in fault' \/ c \in raced'
                  \/ rows'[c].all + counter'[c] + batch'[c] = gen'[c]
    <3>1. rows'[c].used = 0 /\ rows'[c].all = rows[c].all /\ rows[c].all \in Nat
      BY <1>0, <1>3, Numbers
    <3> QED BY <3>1, <1>0, <1>5 DEF Counted
  <2> QED BY <2>1, <2>2, <1>7, Zenon DEF Counted
<1>10. Edits' /\ Paired'
  <2>1. \A c \in Metered : rows[c].all <= rows'[c].all
    BY <1>0, <1>3, Numbers
  <2>2. UNCHANGED <<work, raced>> /\ \A f \in Editors : pc'[f] = pc[f]
    BY <1>5
  <2> QED BY <2>1, <2>2, <1>0, <1>7, <1>8, EditsKept, Zenon
<1>11. Taken'
  BY <1>0, <1>5, Zenon DEF Taken
<1> QED BY <1>2, <1>6, <1>8, <1>9, <1>10, <1>11, Zenon DEF Inv

\* A purge deletes clients and rows; those it finds only one half of are on record.
LEMMA DepleteCommitsStep ==
    ASSUME Inv, OneEditor, NEW e \in Editors, DepleteCommits(e)
    PROVE  Inv'
<1>0. Flags /\ Control /\ Stocked /\ Counted /\ Edits
  BY DEF Inv
<1> DEFINE w == work[e]
<1> DEFINE purged == Exhausted(w.expired)
<1>1. /\ UNCHANGED <<dbLock, served, startCfg, counter, connected, batch, listed, cfg,
                     forced, deleted, fault, events, edits, restarts>>
      /\ w.kind = "deplete" /\ Goto(e, "act", "idle") /\ Answered(e)
      /\ settings' = Restrict(w.copy, DOMAIN w.copy \ w.gone)
      /\ rows' = Restrict(rows, Metered \ purged)
      /\ gen' = [c \in Clients |-> IF c \in purged THEN 0 ELSE gen[c]]
      /\ raced' = raced \cup (purged \ w.gone) \cup (w.gone \ purged)
      /\ gap' = gap \cup (w.gone \cap served)
  BY DEF DepleteCommits, core, budget
<1>2. pc[e] = "act"
  BY <1>1 DEF Goto
<1>3. w.gone \subseteq Clients /\ Copy(w.copy) /\ DOMAIN w.copy = Stored
  <2>1. Reading(w)
    BY <1>0, <1>2 DEF Edits
  <2> QED BY <2>1, <1>1 DEF Reading
<1>4. purged \subseteq Metered
  BY Zenon DEF Exhausted
<1>5. \A c \in Clients \ raced : c \in Stored <=> c \in Metered
  BY <1>2, PairedNow
<1> HIDE DEF w, purged
<1>6. Metered \subseteq Clients /\ rows \in [Metered -> Row] /\ DOMAIN rows = Metered
  BY <1>0 DEF Stocked, Metered
<1>7. w.copy \in [Stored -> Entries] /\ Stored \subseteq Clients
  BY <1>3 DEF Copy
<1>8. settings' = [c \in Stored \ w.gone |-> w.copy[c]] /\ rows' = [c \in Metered \ purged |-> rows[c]]
  BY <1>1, <1>3, Zenon DEF Restrict
<1>9. /\ DOMAIN settings' = Stored \ w.gone /\ settings' \in [Stored \ w.gone -> Entries]
      /\ DOMAIN rows' = Metered \ purged /\ rows' \in [Metered \ purged -> Row]
      /\ \A c \in Metered \ purged : rows'[c] = rows[c]
  BY <1>6, <1>7, <1>8
<1>10. /\ Copy(settings') /\ Stored' = Stored \ w.gone /\ Metered' = Metered \ purged
  BY <1>7, <1>9 DEF Copy, Stored, Metered
<1>11. /\ gen' \in [Clients -> Nat]
       /\ \A c \in Clients : gen'[c] = IF c \in purged THEN 0 ELSE gen[c]
  <2>1. gen \in [Clients -> Nat]
    BY <1>0 DEF Stocked
  <2> QED BY <2>1, <1>1
<1>12. raced \subseteq raced' /\ raced' \subseteq Clients
  BY <1>0, <1>1, <1>3, <1>4, <1>6 DEF Stocked
<1>13. Stocked'
  <2>1. Metered' \subseteq Clients /\ rows' \in [Metered' -> Row]
    BY <1>6, <1>9, <1>10, Zenon
  <2> QED BY <2>1, <1>0, <1>1, <1>10, <1>11, <1>12, Zenon DEF Stocked
<1>14. Counted'
  <2>1. ASSUME NEW c \in Clients PROVE counter'[c] + batch'[c] <= events' /\ gen'[c] <= events'
    <3>1. counter[c] + batch[c] <= events /\ gen[c] <= events /\ events \in Nat
      BY <1>0, Numbers DEF Counted
    <3> QED BY <3>1, <1>1, <1>11
  <2>2. ASSUME NEW c \in Metered'
        PROVE  /\ rows'[c].used <= rows'[c].all
               /\ rows'[c].all + counter'[c] + batch'[c] <= gen'[c]
               /\ \/ "busy" \in fault' \/ c \in raced'
                  \/ rows'[c].all + counter'[c] + batch'[c] = gen'[c]
    <3>1. c \in Metered /\ c \notin purged /\ c \in Clients
      BY <1>6, <1>10
    <3>2. rows'[c] = rows[c] /\ gen'[c] = gen[c] /\ counter' = counter /\ batch' = batch
          /\ fault' = fault
      BY <3>1, <1>1, <1>9, <1>11
    <3> QED BY <3>1, <3>2, <1>0, <1>12 DEF Counted
  <2> QED BY <2>1, <2>2, Zenon DEF Counted
<1>15. \A c \in Clients \ raced' : c \in Stored' <=> c \in Metered'
  BY <1>1, <1>5, <1>10
<1>16. gap' \subseteq Clients /\ deleted' \subseteq Clients
  BY <1>0, <1>1, <1>3 DEF Control
<1> QED BY <1>1, <1>13, <1>14, <1>15, <1>16, EndingStep

\* A request fails.
LEMMA EditFailsStep ==
    ASSUME Inv, OneEditor, NEW e \in Editors, EditFails(e)
    PROVE  Inv'
<1>0. Flags /\ Control /\ Stocked /\ Counted /\ Edits /\ Paired /\ Taken
  BY DEF Inv
<1> DEFINE w == work[e]
<1> DEFINE k == w.client
<1>1. /\ UNCHANGED <<settings, rows, dbLock, startCfg, counter, connected, need, batch,
                     listed, cfg, forced, gen, deleted, events, edits, restarts>>
      /\ fault' = {"busy"} /\ fault' \subseteq FaultKinds
      /\ served' = IF w.kind = "add" /\ w.entry.enable THEN served \cup {k} ELSE served
      /\ gap' = gap \cup {k}
      /\ raced' = IF w.kind = "delete" THEN raced \cup {k} ELSE raced
      /\ work' = [work EXCEPT ![e] = Idle] /\ ask' = [ask EXCEPT ![e] = FALSE]
  BY DEF EditFails, Fault, db, budget
<1>2. \/ w.kind \in {"add", "reset"} /\ Goto(e, "act", "idle")
      \/ w.kind = "delete" /\ Goto(e, "save", "idle")
  BY DEF EditFails
<1>3. e \in Procs /\ "idle" \in Pcs
  BY ProcFacts DEF Pcs
<1>4. /\ pc' \in [Procs -> Pcs] /\ pc'[e] = "idle" /\ pc[e] # "idle"
      /\ w.kind # "delete" => pc[e] # "save"
  <2>1. CASE w.kind \in {"add", "reset"} /\ Goto(e, "act", "idle")
    BY <2>1, <1>0, <1>3, GotoFacts
  <2>2. CASE w.kind = "delete" /\ Goto(e, "save", "idle")
    BY <2>2, <1>0, <1>3, GotoFacts
  <2> QED BY <1>2, <2>1, <2>2
<1>5. k \in Clients
  <2>1. Reading(w)
    BY <1>0, <1>4 DEF Edits
  <2>2. w.kind \in {"add", "reset", "delete"}
    BY <1>2
  <2>3. k \in Clients \/ k \in Stored \/ k \in Metered
    BY <2>1, <2>2 DEF Reading
  <2> QED BY <2>3, <1>0 DEF Stocked, Copy, Stored
<1>6. \A c : Deleting(c) => c = k /\ w.kind = "delete"
  BY SoleEditor
<1>7. work' = [f \in Editors |-> work'[f]] /\ work'[e] = Idle
  <2>1. work = [f \in Editors |-> work[f]]
    BY <1>0 DEF Edits
  <2> QED BY <2>1, <1>1
<1>8. Edits' /\ \A c : ~ Deleting(c)'
  BY <1>4, <1>7, EditEnds
<1> HIDE DEF w, k
<1>9. Flags'
  <2>1. ask' \in [Procs -> BOOLEAN]
    BY <1>0, <1>1, <1>3, AskCleared
  <2> QED BY <2>1, <1>0, <1>1, Zenon DEF Flags
<1>10. Control'
  <2>1. served' \subseteq Clients /\ gap' \subseteq Clients
    BY <1>0, <1>1, <1>5 DEF Control
  <2> QED BY <2>1, <1>0, <1>1, <1>4, Zenon DEF Control, Pcs
<1>11. Stored' = Stored /\ Metered' = Metered
  BY <1>1 DEF Stored, Metered
<1>12. raced \subseteq raced' /\ raced' \subseteq Clients /\ (w.kind = "delete" => k \in raced')
  BY <1>0, <1>1, <1>5 DEF Stocked
<1>13. Stocked'
  BY <1>0, <1>1, <1>11, <1>12, Zenon DEF Stocked, Copy
<1>14. Counted'
  <2>1. "busy" \in fault'
    BY <1>1
  <2> QED BY <2>1, <1>0, <1>1, <1>11, Zenon DEF Counted
<1>15. Paired'
  <2>1. \A c \in Clients \ raced' : c \in Stored <=> c \in Metered
    BY <1>0, <1>6, <1>12, Zenon DEF Paired
  <2> QED BY <2>1, <1>8, <1>11, Zenon DEF Paired
<1>16. Taken'
  BY <1>0, <1>1, <1>2, TakenKept
<1> QED BY <1>8, <1>9, <1>10, <1>13, <1>14, <1>15, <1>16, Zenon DEF Inv

-----------------------------------------------------------------------------
(* The theorems.                                                           *)

\* A step that changes nothing keeps the invariant.
LEMMA Stutter ==
    ASSUME Inv, UNCHANGED vars
    PROVE  Inv'
<1>0. Flags /\ Control /\ Stocked /\ Counted /\ Edits /\ Paired /\ Taken
  BY DEF Inv
<1>1. /\ UNCHANGED <<settings, rows, dbLock, served, startCfg, counter, connected, need, pc>>
      /\ UNCHANGED <<batch, listed, work, cfg, forced, ask, gen, gap, raced, deleted, fault>>
      /\ UNCHANGED <<events, edits, restarts>>
  BY DEF vars, db, core, calls, history, budget
<1>2. Flags' /\ Control' /\ Taken'
  BY <1>0, <1>1, Zenon DEF Flags, Control, Taken
<1>3. Stocked' /\ Counted' /\ Edits' /\ Paired'
  BY <1>0, <1>1, Undisturbed
<1> QED BY <1>2, <1>3, Zenon DEF Inv

\* Every step keeps it.
LEMMA NextInv ==
    ASSUME Inv, OneEditor, [Next]_vars
    PROVE  Inv'
<1>1. ASSUME NEW c \in Clients, Connect(c) \/ Use(c) \/ Expire(c) PROVE Inv'
  BY <1>1, ConnectStep, UseStep, ExpireStep
<1>2. ASSUME NEW p \in {Job, Restart}, AddTraffic(p) PROVE Inv'
  BY <1>2, AddTrafficBeginsStep, AddTrafficCommitsStep, AddTrafficFailsStep, Zenon DEF AddTraffic
<1>3. CASE GetXrayTraffic
  BY <1>3, GetXrayTrafficStep
<1>4. CASE RestartBegins \/ RestartReads \/ RestartSkips
  BY <1>4, RestartStep
<1>5. CASE RestartStarts
  BY <1>5, RestartStartsStep
<1>6. ASSUME NEW e \in Editors, Edit(e) PROVE Inv'
  <2>1. CASE ReadInbound(e)
    BY <2>1, ReadInboundStep
  <2>2. CASE AddBegins(e) \/ UpdateBegins(e)
    BY <2>2, EditBeginsStep
  <2>3. CASE AddCommits(e)
    BY <2>3, AddCommitsStep
  <2>4. CASE UpdateCommits(e)
    BY <2>4, UpdateCommitsStep
  <2>5. CASE DeleteStat(e)
    BY <2>5, DeleteStatStep
  <2>6. CASE DeleteSaves(e)
    BY <2>6, DeleteSavesStep
  <2>7. CASE ResetReads(e)
    BY <2>7, ResetReadsStep
  <2>8. CASE ResetSaves(e)
    BY <2>8, ResetSavesStep
  <2>9. CASE ResetAllClientTraffics(e)
    BY <2>9, ResetAllStep
  <2>10. CASE DepleteReads(e)
    BY <2>10, DepleteReadsStep
  <2>11. CASE DepleteCommits(e)
    BY <2>11, DepleteCommitsStep
  <2>12. CASE EditFails(e)
    BY <2>12, EditFailsStep
  <2> QED BY <1>6, <2>1, <2>2, <2>3, <2>4, <2>5, <2>6, <2>7, <2>8, <2>9, <2>10, <2>11, <2>12,
             Zenon DEF Edit
<1>7. CASE UNCHANGED vars
  BY <1>7, Stutter
<1> QED BY <1>1, <1>2, <1>3, <1>4, <1>5, <1>6, <1>7, Zenon DEF Next

\* With one administrator at work the invariant holds in every behaviour.
LEMMA AlwaysInv == ASSUME OneEditor PROVE Spec => []Inv
<1>1. Init => Inv
  BY InitInv
<1>2. Inv /\ [Next]_vars => Inv'
  BY NextInv
<1> QED BY <1>1, <1>2, PTL DEF Spec

\* Whatever the traffic job, renewals, resets, restarts and one administrator do, for
\* any number of clients and any amount of traffic, no unit of traffic is counted twice,
\* and none is lost but by a failed transaction or a reset that raced the job
\* (inbound.go:1157-1214, 1908-1960).
THEOREM TrafficIsAccounted == ASSUME OneEditor PROVE Spec => []TrafficAccounted
<1>1. Inv => TrafficAccounted
  BY InvImplies
<1> QED BY <1>1, AlwaysInv, PTL

\* And between requests a client is in the settings exactly if it has a row, except one
\* that a purge, a reset or a failed deletion has left half done
\* (inbound.go:879, 901, 2040-2048, 2098).
THEOREM ClientsStayMetered == ASSUME OneEditor PROVE Spec => []ClientsAreMetered
<1>1. Inv => ClientsAreMetered
  BY InvImplies
<1> QED BY <1>1, AlwaysInv, PTL

-----------------------------------------------------------------------------
(* Who is cut off.  What a step does to the users of the core is said in   *)
(* terms of the clients that are switched on in the settings, of those     *)
(* that are switched off in their row, and of what the transaction of the  *)
(* job is about to change.                                                 *)

Live(c) == c \in Stored /\ settings[c].enable
Off(c) == c \in Metered /\ ~rows[c].enable

JobOn == After(batch, listed).on
JobOff == After(batch, listed).off

\* The job, or the edit e, is about to save that c is switched on, or will ask for a
\* restart.
JobAdmits(c) == pc[Job] = "tx" /\ (ask[Job] \/ (c \in JobOn /\ Live(c)))
EditAdmits(e, c) ==
    /\ work[e].kind \in {"add", "update", "delete", "reset"} /\ work[e].client = c
    /\ \/ pc[e] = "save" /\ ask[e]
       \/ pc[e] = "save" /\ work[e].kind \in {"add", "update"} /\ work[e].entry.enable
       \/ pc[e] = "act" /\ work[e].kind = "reset" /\ Live(c)

\* If it is about to save that c, a user of the core, is switched off or deleted, it
\* will ask for a restart.
JobExpels(c) == pc[Job] = "tx" /\ c \in JobOff => ask[Job]
Removing(w) == w.kind = "delete" \/ (w.kind = "update" /\ ~w.entry.enable)
EditExpels(e, c) ==
    pc[e] = "save" /\ Removing(work[e]) /\ work[e].client = c => ask[e]

Settled(c) ==
    /\ Cut(c) => JobAdmits(c) \/ \E e \in Editors : EditAdmits(e, c)
    /\ JobExpels(c) /\ \A e \in Editors : EditExpels(e, c)

\* Until a restart that is asked for or under way, the users outside gap are settled:
\* every end of a restart puts those that it missed into gap.
CutOff == \/ need \/ pc[Restart] # "idle"
          \/ \A c \in served \ gap : Settled(c)

\* Who changes the database in several steps holds its lock.
Locked ==
    /\ \A p \in {Job, Restart} : pc[p] = "tx" => dbLock = p
    /\ \A e \in Editors : pc[e] = "save" /\ work[e].kind \in {"add", "update"} => dbLock = e

\* An edit's copy has the switches of the settings, and a purge deletes the rows of
\* all the clients that it deletes: no client keeps its row when it is deleted.
Current(w) ==
    /\ w.kind \in {"add", "update", "delete", "deplete"} =>
        \A c \in Stored : w.copy[c].enable <=> Live(c)
    /\ w.kind = "add" => w.client \notin Stored
    /\ w.kind = "deplete" => w.gone \subseteq Exhausted(w.expired)
Kept ==
    /\ Metered \subseteq Stored
    /\ \A e \in Editors : pc[e] # "idle" => Current(work[e])

CInv == CutOff /\ Locked /\ Kept

\* The invariant says what the property says.
LEMMA CInvImplies ==
    ASSUME CInv
    PROVE  DisabledIsCutOff
<1> SUFFICES ASSUME Quiet, ~need, NEW c \in served, Cut(c), c \notin gap
             PROVE  FALSE
  BY Zenon DEF DisabledIsCutOff
<1>1. pc[Job] = "idle" /\ pc[Restart] = "idle" /\ \A e \in Editors : pc[e] = "idle"
  BY ProcFacts DEF Quiet
<1>2. JobAdmits(c) \/ \E e \in Editors : EditAdmits(e, c)
  BY <1>1, Zenon DEF CInv, CutOff, Settled
<1> QED BY <1>1, <1>2 DEF JobAdmits, EditAdmits

\* A client is cut off if it is not switched on in the settings, or off in its row.
LEMMA CutIs ==
    /\ \A c : Cut(c) <=> ~Live(c) \/ Off(c)
    /\ \A c : Cut(c)' <=> ~Live(c)' \/ Off(c)'
  BY Zenon DEF Cut, Live, Off

\* What the switches depend on.
LEMMA SettingsSame ==
    ASSUME settings' = settings
    PROVE  Stored' = Stored /\ \A c : Live(c)' <=> Live(c)
<1>1. Stored' = Stored
  BY DEF Stored
<1> QED BY <1>1, Zenon DEF Live

\* And the switches in the rows.
LEMMA RowsSame ==
    ASSUME rows' = rows
    PROVE  Metered' = Metered /\ \A c : Off(c)' <=> Off(c)
<1>1. Metered' = Metered
  BY DEF Metered
<1> QED BY <1>1, Zenon DEF Off

\* And the clients that the transaction of the job switches.
LEMMA JobSame ==
    ASSUME settings' = settings, rows' = rows, batch' = batch, listed' = listed
    PROVE  JobOn' = JobOn /\ JobOff' = JobOff
<1>1. Stored' = Stored /\ Metered' = Metered
  BY DEF Stored, Metered
<1> DEFINE starting == {c \in Metered \cap Stored : c \in listed /\ rows[c].exp = "delayed"}
<1> DEFINE counted == [c \in Metered |->
            [rows[c] EXCEPT !.used = @ + batch[c], !.all = @ + batch[c],
                            !.exp = IF c \in starting THEN Started(settings[c].exp) ELSE @]]
<1> DEFINE renewed == {c \in Renewing \cap Metered \cap Stored : counted[c].exp = "past"}
<1> DEFINE fresh == [c \in Metered |->
            IF c \in renewed
            THEN [counted[c] EXCEPT !.exp = "future", !.used = 0, !.enable = TRUE]
            ELSE counted[c]]
<1> DEFINE over == {c \in Metered : fresh[c].enable /\ Depleted(fresh[c])}
<1>2. JobOn = {c \in renewed : ~rows[c].enable} /\ JobOff = over
  BY DEF JobOn, JobOff, After
<1>3. JobOn' = {c \in renewed' : ~rows[c].enable} /\ JobOff' = over'
  BY DEF JobOn, JobOff, After
<1>4. starting' = starting
  BY <1>1
<1>5. counted' = counted
  BY <1>1, <1>4, Zenon
<1>6. renewed' = renewed
  BY <1>1, <1>5, Zenon
<1>7. fresh' = fresh
  BY <1>1, <1>5, <1>6, Zenon
<1>8. over' = over
  BY <1>1, <1>7, Zenon
<1> QED BY <1>2, <1>3, <1>6, <1>8, Zenon

\* What AddTraffic makes of the switches, and that it renews nothing that has no reset
\* period.
LEMMA AfterSwitches ==
    ASSUME Stocked, NEW d \in [Clients -> Nat], NEW l
    PROVE  /\ \A c \in Metered :
                 /\ After(d, l).rows[c].enable => c \notin After(d, l).off
                 /\ c \notin After(d, l).off /\ (rows[c].enable \/ c \in After(d, l).on) =>
                       After(d, l).rows[c].enable
                 /\ c \notin Renewing =>
                       /\ After(d, l).rows[c].used >= rows[c].used
                       /\ rows[c].exp = "past" => After(d, l).rows[c].exp = "past"
           /\ \A c \in After(d, l).on : c \in Metered /\ c \in Stored /\ ~rows[c].enable
           /\ \A c \in After(d, l).off : c \in Metered /\ rows[c].enable
           /\ \A c \in Stored : After(d, l).settings[c].enable = settings[c].enable
<1> DEFINE starting == {c \in Metered \cap Stored : c \in l /\ rows[c].exp = "delayed"}
<1> DEFINE counted == [c \in Metered |->
            [rows[c] EXCEPT !.used = @ + d[c], !.all = @ + d[c],
                            !.exp = IF c \in starting THEN Started(settings[c].exp) ELSE @]]
<1> DEFINE renewed == {c \in Renewing \cap Metered \cap Stored : counted[c].exp = "past"}
<1> DEFINE fresh == [c \in Metered |->
            IF c \in renewed
            THEN [counted[c] EXCEPT !.exp = "future", !.used = 0, !.enable = TRUE]
            ELSE counted[c]]
<1> DEFINE over == {c \in Metered : fresh[c].enable /\ Depleted(fresh[c])}
<1> DEFINE R == [c \in Metered |-> [fresh[c] EXCEPT !.enable = @ /\ c \notin over]]
<1> DEFINE X == [c \in Stored |->
            [settings[c] EXCEPT !.exp = IF c \in renewed THEN "future"
                                        ELSE IF c \in starting THEN Started(@) ELSE @]]
<1> DEFINE on == {c \in renewed : ~rows[c].enable}
<1>1. After(d, l).rows = R /\ After(d, l).settings = X /\ After(d, l).on = on /\ After(d, l).off = over
  <2>1. After(d, l) = [rows |-> R, settings |-> X, on |-> on, off |-> over]
    BY DEF After
  <2> HIDE DEF R, X, on, over
  <2> QED BY <2>1
<1>2. \A c \in Metered : rows[c] \in Row /\ d[c] \in Nat /\ c \in Clients
  BY DEF Stocked
<1>3. \A c \in Stored : settings[c] \in Entries /\ settings[c].exp \in Times
  BY DEF Stocked, Copy, Stored, Entries
<1>4. \A c \in Metered : rows[c].exp \in Times /\ rows[c].used \in Nat /\ rows[c].all \in Nat
  BY <1>2 DEF Row
<1>5. ASSUME NEW c \in Metered
      PROVE  /\ counted[c] \in Row /\ counted[c].enable = rows[c].enable
             /\ counted[c].used >= rows[c].used
             /\ rows[c].exp = "past" => counted[c].exp = "past"
  <2> DEFINE t == IF c \in starting THEN Started(settings[c].exp) ELSE rows[c].exp
  <2>1. t \in Times
    <3>1. CASE c \in starting
      BY <3>1, <1>3, EntryChanges, Zenon
    <3>2. CASE c \notin starting
      BY <3>2, <1>4, <1>5, Zenon
    <3> QED BY <3>1, <3>2, Zenon
  <2>2. rows[c].exp = "past" => t = "past"
    <3>1. rows[c].exp = "past" => c \notin starting
      OBVIOUS
    <3> QED BY <3>1, Zenon
  <2>3. counted[c] = [rows[c] EXCEPT !.used = @ + d[c], !.all = @ + d[c], !.exp = t]
    BY <1>5, Zenon
  <2> HIDE DEF t, counted
  <2>4. counted[c] = [enable |-> rows[c].enable, exp |-> t,
                      used |-> rows[c].used + d[c], all |-> rows[c].all + d[c]]
    BY <1>2, <1>5, <2>1, <2>3, RowCounted, Zenon
  <2>5. rows[c].used + d[c] \in Nat /\ rows[c].all + d[c] \in Nat
        /\ rows[c].used + d[c] >= rows[c].used
    BY <1>2, <1>4, <1>5
  <2>6. rows[c].enable \in BOOLEAN
    BY <1>2, <1>5, Zenon DEF Row
  <2>7. counted[c] \in Row
    BY <2>1, <2>4, <2>5, <2>6, RowMade, Zenon
  <2>8. counted[c].enable = rows[c].enable /\ counted[c].used = rows[c].used + d[c]
        /\ counted[c].exp = t
    BY <2>4
  <2> QED BY <2>2, <2>5, <2>7, <2>8
<1>6. \A c \in Metered : c \notin renewed => fresh[c] = counted[c]
  BY Zenon
<1>7. ASSUME NEW c \in renewed
      PROVE  fresh[c] = [enable |-> TRUE, exp |-> "future", used |-> 0, all |-> counted[c].all]
  <2>1. c \in Metered /\ fresh[c] = [counted[c] EXCEPT !.exp = "future", !.used = 0, !.enable = TRUE]
    BY <1>7, Zenon
  <2> HIDE DEF fresh, counted
  <2> QED BY <1>5, <2>1, RowRenewed, Zenon
<1>8. ASSUME NEW c \in renewed
      PROVE  fresh[c] \in Row /\ fresh[c].enable /\ c \notin over
  <2>0. fresh[c] = [enable |-> TRUE, exp |-> "future", used |-> 0, all |-> counted[c].all]
    BY <1>7, <1>8
  <2>1. fresh[c].enable /\ fresh[c].used = 0 /\ fresh[c].exp = "future"
    <3> HIDE DEF fresh, counted
    <3> QED BY <2>0
  <2>2. ~Depleted(fresh[c])
    <3> HIDE DEF fresh
    <3> QED BY <2>1, ClientsAssumption DEF Depleted
  <2>3. counted[c].all \in Nat
    <3> HIDE DEF counted
    <3>1. counted[c] \in Row
      BY <1>5
    <3> QED BY <3>1 DEF Row
  <2>4. fresh[c] \in Row
    <3>1. TRUE \in BOOLEAN /\ "future" \in Times /\ 0 \in Nat
      BY DEF Times
    <3> HIDE DEF fresh, counted
    <3> QED BY <2>0, <2>3, <3>1, RowMade, Zenon
  <2> QED BY <2>1, <2>2, <2>4, Zenon
<1>9. \A c \in Metered : fresh[c] \in Row
  <2> HIDE DEF fresh, counted, over
  <2> QED BY <1>5, <1>6, <1>8, Zenon
<1>10. \A c \in renewed : c \in Renewing /\ c \in Metered /\ c \in Stored
  BY Zenon
<1>11. ASSUME NEW c \in over PROVE c \in Metered /\ rows[c].enable
  <2>1. c \in Metered /\ fresh[c].enable
    BY <1>11, Zenon
  <2>2. c \notin renewed
    BY <1>8, <1>11, Zenon
  <2>3. fresh[c] = counted[c]
    BY <1>6, <2>1, <2>2, Zenon
  <2> HIDE DEF fresh, counted
  <2>4. counted[c].enable = rows[c].enable
    BY <1>5, <2>1, Zenon
  <2> QED BY <2>1, <2>3, <2>4, Zenon
<1>12. ASSUME NEW c \in Metered
       PROVE  /\ R[c].enable <=> fresh[c].enable /\ c \notin over
              /\ R[c].used = fresh[c].used /\ R[c].exp = fresh[c].exp
  <2> DEFINE b == c \notin over
  <2>1. R[c] = [fresh[c] EXCEPT !.enable = @ /\ b]
    BY <1>12, Zenon
  <2>2. b \in BOOLEAN
    BY Zenon
  <2> HIDE DEF R, b, over, fresh
  <2>3. R[c] = [enable |-> fresh[c].enable /\ b, exp |-> fresh[c].exp,
                used |-> fresh[c].used, all |-> fresh[c].all]
    BY <2>1, <2>2, <1>9, <1>12, RowSwitched, Zenon
  <2> DEFINE v == fresh[c].enable /\ b
  <2>4. R[c] = [enable |-> v, exp |-> fresh[c].exp, used |-> fresh[c].used, all |-> fresh[c].all]
    BY <2>3, Zenon
  <2> HIDE DEF v
  <2>5. R[c].enable = v /\ R[c].used = fresh[c].used /\ R[c].exp = fresh[c].exp
    BY <2>4
  <2> QED BY <2>5, Zenon DEF b, v
<1>13. ASSUME NEW c \in Stored PROVE X[c].enable = settings[c].enable
  <2> DEFINE t == IF c \in renewed THEN "future"
                  ELSE IF c \in starting THEN Started(settings[c].exp) ELSE settings[c].exp
  <2>1. X[c] = [settings[c] EXCEPT !.exp = t]
    BY <1>13, Zenon
  <2> HIDE DEF X, t
  <2>2. settings[c] \in Entries
    BY <1>3, <1>13
  <2> QED BY <2>1, <2>2, Zenon DEF Entries
<1>14. ASSUME NEW c \in Metered
       PROVE  /\ R[c].enable => c \notin over
              /\ c \notin over /\ (rows[c].enable \/ c \in on) => R[c].enable
              /\ c \notin Renewing =>
                    R[c].used >= rows[c].used /\ (rows[c].exp = "past" => R[c].exp = "past")
  <2>1. R[c].enable => c \notin over
    BY <1>12, <1>14, Zenon
  <2>2. ASSUME c \notin over, rows[c].enable \/ c \in on PROVE R[c].enable
    <3>1. fresh[c].enable
      <4>1. CASE c \in renewed
        BY <1>8, <4>1, Zenon
      <4>2. CASE c \notin renewed
        <5>1. rows[c].enable /\ fresh[c] = counted[c]
          BY <1>6, <1>14, <2>2, <4>2, Zenon
        <5> HIDE DEF fresh, counted
        <5> QED BY <1>5, <1>14, <5>1, Zenon
      <4> QED BY <4>1, <4>2, Zenon
    <3> QED BY <1>12, <1>14, <2>2, <3>1, Zenon
  <2>3. ASSUME c \notin Renewing
        PROVE  R[c].used >= rows[c].used /\ (rows[c].exp = "past" => R[c].exp = "past")
    <3>1. fresh[c] = counted[c]
      BY <1>6, <1>10, <1>14, <2>3, Zenon
    <3> HIDE DEF R, fresh, counted
    <3> QED BY <1>5, <1>12, <1>14, <3>1, Zenon
  <2> QED BY <2>1, <2>2, <2>3, Zenon
<1>15. \A c \in on : c \in Metered /\ c \in Stored /\ ~rows[c].enable
  BY <1>10, Zenon
<1> HIDE DEF R, X, on, over
<1> QED BY <1>1, <1>11, <1>13, <1>14, <1>15, Zenon

\* The transaction commits: nobody but those it expels is switched off, those that it
\* admits are not, and what is exhausted stays so.
LEMMA CommitSwitches ==
    ASSUME Stocked, NEW d \in [Clients -> Nat], NEW l,
           rows' = After(d, l).rows, settings' = After(d, l).settings
    PROVE  /\ Stored' = Stored /\ Metered' = Metered
           /\ \A c : Live(c)' <=> Live(c)
           /\ \A c : Off(c)' => Off(c) \/ c \in After(d, l).off
           /\ \A c \in After(d, l).on : c \notin After(d, l).off => ~Off(c)'
           /\ \A E : Exhausted(E) \subseteq Exhausted(E)'
<1>1. DOMAIN rows' = Metered /\ DOMAIN settings' = Stored
  BY AfterFacts
<1>2. Stored' = Stored /\ Metered' = Metered
  BY <1>1 DEF Stored, Metered
<1>3. \A c : Live(c)' <=> Live(c)
  <2>1. \A c \in Stored : settings'[c].enable = settings[c].enable
    BY AfterSwitches
  <2> QED BY <1>2, <2>1, Zenon DEF Live
<1>4. \A c : Off(c)' => Off(c) \/ c \in After(d, l).off
  BY <1>2, AfterSwitches, Zenon DEF Off
<1>5. \A c \in After(d, l).on : c \notin After(d, l).off => ~Off(c)'
  BY <1>2, AfterSwitches, Zenon DEF Off
<1>6. ASSUME NEW E, NEW c \in Exhausted(E) PROVE c \in Exhausted(E)'
  <2>1. c \in Metered \ Renewing /\ (rows[c].used >= Quota \/ (rows[c].exp = "past" /\ c \in E))
    BY <1>6, Zenon DEF Exhausted
  <2>2. rows'[c].used >= rows[c].used /\ (rows[c].exp = "past" => rows'[c].exp = "past")
    BY <2>1, AfterSwitches
  <2>3. rows'[c] \in Row /\ rows[c] \in Row
    BY <2>1, AfterFacts DEF Stocked
  <2>4. rows'[c].used \in Nat /\ rows[c].used \in Nat /\ Quota \in Nat
    BY <2>3, ClientsAssumption DEF Row
  <2>5. rows[c].used >= Quota => rows'[c].used >= Quota
    BY <2>2, <2>4
  <2> QED BY <1>2, <2>1, <2>2, <2>5, Zenon DEF Exhausted
<1> QED BY <1>2, <1>3, <1>4, <1>5, <1>6, Zenon

\* Whom the job admits is off in its row, and whom it expels is not.
LEMMA JobFacts ==
    ASSUME Stocked
    PROVE  /\ \A c \in JobOn : c \in Stored /\ Off(c)
           /\ \A c \in JobOff : ~Off(c)
<1>1. batch \in [Clients -> Nat]
  BY DEF Stocked
<1> QED BY <1>1, AfterSwitches, Zenon DEF JobOn, JobOff, Off

\* A process takes the lock, gives it back, or moves without.
LEMMA LockMoves ==
    ASSUME Control, Locked, NEW p \in Procs, NEW from, NEW to \in Pcs, Goto(p, from, to),
           \A f \in Editors : f # p => work'[f] = work[f],
           \/ /\ dbLock' = dbLock
              /\ to \notin {"tx", "save"} \/ (to = "save" /\ p \in Editors /\ work'[p].kind = "delete")
           \/ dbLock = NoOne /\ dbLock' = p
           \/ dbLock = p /\ dbLock' = NoOne /\ to \notin {"tx", "save"}
    PROVE  Locked'
<1>1. pc[p] = from /\ pc'[p] = to /\ \A q \in Procs : q # p => pc'[q] = pc[q]
  BY GotoFacts
<1>2. /\ Job \in Procs /\ Restart \in Procs /\ Editors \subseteq Procs
      /\ \A q \in Procs : q # NoOne /\ \A e \in Editors : e # Job /\ e # Restart
  BY ProcFacts, ClientsAssumption
<1>3. ASSUME NEW q \in {Job, Restart}, pc'[q] = "tx" PROVE dbLock' = q
  <2>1. CASE q = p
    BY <1>1, <1>2, <1>3, <2>1
  <2>2. CASE q # p
    <3>1. dbLock = q
      BY <1>1, <1>2, <1>3, <2>2 DEF Locked
    <3> QED BY <1>2, <2>2, <3>1
  <2> QED BY <2>1, <2>2
<1>4. ASSUME NEW q \in Editors, pc'[q] = "save", work'[q].kind \in {"add", "update"}
      PROVE  dbLock' = q
  <2>1. CASE q = p
    BY <1>1, <1>2, <1>4, <2>1
  <2>2. CASE q # p
    <3>1. dbLock = q
      BY <1>1, <1>2, <1>4, <2>2 DEF Locked
    <3> QED BY <1>2, <2>2, <3>1
  <2> QED BY <2>1, <2>2
<1> QED BY <1>3, <1>4 DEF Locked

\* No edit is disturbed by a step that keeps the clients, their switches in the
\* settings, and what is exhausted.
LEMMA KeptKept ==
    ASSUME Kept, Stored' = Stored, Metered' \subseteq Metered, \A c : Live(c)' <=> Live(c),
           \A E : Exhausted(E) \subseteq Exhausted(E)', work' = work,
           \A e \in Editors : pc'[e] # "idle" => pc[e] # "idle"
    PROVE  Kept'
<1>1. \A w : Current(w) => Current(w)'
  BY Zenon DEF Current
<1> QED BY <1>1, Zenon DEF Kept

\* After the only edit has ended, or before it begins, only rows and clients matter.
LEMMA KeptEnds ==
    ASSUME OneEditor, NEW e \in Editors, pc'[e] = "idle", Metered' \subseteq Stored'
    PROVE  Kept'
BY DEF OneEditor, Kept

\* With one editor, a client is settled by the job or by this edit.
LEMMA SettledIs ==
    ASSUME OneEditor, NEW e \in Editors
    PROVE  /\ \A c : Settled(c) <=> /\ Cut(c) => JobAdmits(c) \/ EditAdmits(e, c)
                                    /\ JobExpels(c) /\ EditExpels(e, c)
           /\ \A c : Settled(c)' <=> /\ Cut(c)' => JobAdmits(c)' \/ EditAdmits(e, c)'
                                     /\ JobExpels(c)' /\ EditExpels(e, c)'
<1>1. \A f \in Editors : f = e
  BY DEF OneEditor
<1> QED BY <1>1, Zenon DEF Settled

\* A step of others leaves all settled.
LEMMA ViewSame ==
    ASSUME CutOff, served' = served, gap' = gap, ask' = ask, work' = work, need' = need,
           pc'[Restart] = pc[Restart], \A e \in Editors : pc'[e] = pc[e],
           \A c : (Live(c)' <=> Live(c)) /\ (Off(c)' <=> Off(c)),
           pc'[Job] = "tx" <=> pc[Job] = "tx",
           pc[Job] = "tx" => JobOn' = JobOn /\ JobOff' = JobOff
    PROVE  CutOff'
<1>1. \A c : Cut(c)' <=> Cut(c)
  BY CutIs, Zenon
<1>2. \A c : JobAdmits(c) => JobAdmits(c)'
  BY Zenon DEF JobAdmits
<1>3. \A c : JobExpels(c) => JobExpels(c)'
  BY Zenon DEF JobExpels
<1>4. \A e \in Editors : \A c : (EditAdmits(e, c) => EditAdmits(e, c)')
                            /\ (EditExpels(e, c) => EditExpels(e, c)')
  BY Zenon DEF EditAdmits, EditExpels
<1>5. \A c : Settled(c) => Settled(c)'
  BY <1>1, <1>2, <1>3, <1>4, Zenon DEF Settled
<1> QED BY <1>5, Zenon DEF CutOff

-----------------------------------------------------------------------------
(* The steps of the job, of restarts, of the core and of time.             *)

\* While a restart is under way nothing is asked of the rest.
LEMMA RestartCutOff ==
    ASSUME pc'[Restart] # "idle"
    PROVE  CutOff'
  BY DEF CutOff

\* What is exhausted depends on the rows.
LEMMA RowsExhausted ==
    ASSUME rows' = rows
    PROVE  \A E : Exhausted(E) \subseteq Exhausted(E)'
  BY Zenon DEF Exhausted, Metered

\* Traffic, the read of the counters, a failed transaction and steps elsewhere.
LEMMA ViewStep ==
    ASSUME Inv, CInv,
           UNCHANGED <<settings, rows, dbLock, served, gap, ask, work, need>>,
           \/ pc' = pc /\ batch' = batch /\ listed' = listed
           \/ Goto(Job, "idle", "add") \/ Goto(Job, "add", "idle")
    PROVE  CInv'
<1>0. Control /\ Locked /\ Kept /\ CutOff
  BY DEF Inv, CInv
<1>1. (\A c : Live(c)' <=> Live(c)) /\ (\A c : Off(c)' <=> Off(c)) /\ Stored' = Stored /\ Metered' = Metered
  BY SettingsSame, RowsSame
<1>2. /\ \A q \in Procs : q # Job => pc'[q] = pc[q]
      /\ (pc'[Job] = "tx" <=> pc[Job] = "tx")
      /\ (pc[Job] = "tx" => batch' = batch /\ listed' = listed)
  BY <1>0, ProcFacts DEF Control, Goto
<1>3. Restart \in Procs /\ Job # Restart /\ \A e \in Editors : e \in Procs /\ e # Job
  BY ProcFacts DEF Job, Restart
<1>4. pc[Job] = "tx" => JobOn' = JobOn /\ JobOff' = JobOff
  BY <1>2, JobSame
<1>5. CutOff'
  BY <1>0, <1>1, <1>2, <1>3, <1>4, ViewSame, Zenon
<1>6. Locked'
  BY <1>0, <1>2, <1>3 DEF Locked
<1>7. Kept'
  BY <1>0, <1>1, <1>2, <1>3, RowsExhausted, KeptKept
<1> QED BY <1>5, <1>6, <1>7 DEF CInv

\* Time passes, outside every transaction.
LEMMA ExpireCut ==
    ASSUME Inv, CInv, NEW k \in Clients, Expire(k)
    PROVE  CInv'
<1>0. Control /\ Stocked /\ Locked /\ Kept /\ CutOff
  BY DEF Inv, CInv
<1>1. /\ UNCHANGED <<dbLock, served, gap, ask, work, need, pc>> /\ dbLock = NoOne
      /\ settings' = [x \in Stored |-> IF x = k /\ settings[x].exp = "future"
                                       THEN [settings[x] EXCEPT !.exp = "past"] ELSE settings[x]]
      /\ rows' = [x \in Metered |-> IF x = k /\ rows[x].exp = "future"
                                    THEN [rows[x] EXCEPT !.exp = "past"] ELSE rows[x]]
  BY DEF Expire, core, calls, history
<1>2. Stored' = Stored /\ Metered' = Metered
  BY <1>1 DEF Stored, Metered
<1>3. \A c : Live(c)' <=> Live(c)
  <2>1. ASSUME NEW c \in Stored PROVE settings'[c].enable = settings[c].enable
    <3>1. settings[c] \in Entries
      BY <1>0, <2>1 DEF Stocked, Copy, Stored
    <3>2. [settings[c] EXCEPT !.exp = "past"].enable = settings[c].enable
      BY <3>1, Zenon DEF Entries
    <3>3. settings'[c] = IF c = k /\ settings[c].exp = "future"
                         THEN [settings[c] EXCEPT !.exp = "past"] ELSE settings[c]
      BY <1>1, <2>1, Zenon
    <3> QED BY <3>2, <3>3, Zenon
  <2> QED BY <1>2, <2>1, Zenon DEF Live
<1>4. ASSUME NEW c \in Metered
      PROVE  /\ rows'[c].enable = rows[c].enable /\ rows'[c].used = rows[c].used
             /\ rows[c].exp = "past" => rows'[c].exp = "past"
  <2>1. rows[c] \in Row
    BY <1>0, <1>4 DEF Stocked
  <2>2. rows'[c] = IF c = k /\ rows[c].exp = "future"
                   THEN [rows[c] EXCEPT !.exp = "past"] ELSE rows[c]
    BY <1>1, <1>4, Zenon
  <2>3. CASE rows'[c] = rows[c]
    BY <2>3, Zenon
  <2>4. CASE rows'[c] = [rows[c] EXCEPT !.exp = "past"]
    <3>1. /\ rows'[c].enable = rows[c].enable /\ rows'[c].used = rows[c].used
          /\ rows'[c].exp = "past"
      BY <2>1, <2>4, Zenon DEF Row
    <3> QED BY <3>1, Zenon
  <2> QED BY <2>2, <2>3, <2>4, Zenon
<1>5. \A c : Off(c)' <=> Off(c)
  BY <1>2, <1>4, Zenon DEF Off
<1>6. \A E : Exhausted(E) \subseteq Exhausted(E)'
  BY <1>2, <1>4, Zenon DEF Exhausted
<1>7. pc[Job] # "tx"
  BY <1>0, <1>1, ClientsAssumption, ProcFacts DEF Locked
<1>8. CutOff'
  BY <1>0, <1>1, <1>3, <1>5, <1>7, ViewSame, Zenon
<1>9. Locked'
  BY <1>0, <1>1, Zenon DEF Locked
<1>10. Kept'
  BY <1>0, <1>1, <1>2, <1>3, <1>6, KeptKept, Zenon
<1> QED BY <1>8, <1>9, <1>10 DEF CInv

\* RestartXray begins, reads the database, or is in its own traffic transaction.
LEMMA RestartCut ==
    ASSUME Inv, CInv, RestartBegins \/ RestartReads \/ AddTraffic(Restart)
    PROVE  CInv'
<1>0. Control /\ Stocked /\ Locked /\ Kept
  BY DEF Inv, CInv
<1> DEFINE d == Delta(Restart)
<1> DEFINE l == Listed(Restart)
<1>1. d \in [Clients -> Nat]
  BY <1>0, DeltaFacts
<1>2. /\ work' = work
      /\ \E from \in Pcs, to \in Pcs \ {"idle", "save"} :
            /\ Goto(Restart, from, to)
            /\ \/ dbLock' = dbLock /\ to # "tx"
               \/ dbLock = NoOne /\ dbLock' = Restart
               \/ from = "tx" /\ to = "read" /\ dbLock' = NoOne
  <2>1. CASE RestartBegins \/ RestartReads
    BY <2>1 DEF RestartBegins, RestartReads, Pcs, db
  <2>2. CASE AddTraffic(Restart)
    BY <2>2 DEF AddTraffic, AddTrafficBegins, AddTrafficCommits, AddTrafficFails, Pcs, db, Job, Restart
  <2> QED BY <2>1, <2>2
<1>3. PICK from \in Pcs, to \in Pcs \ {"idle", "save"} :
            /\ Goto(Restart, from, to)
            /\ \/ dbLock' = dbLock /\ to # "tx"
               \/ dbLock = NoOne /\ dbLock' = Restart
               \/ from = "tx" /\ to = "read" /\ dbLock' = NoOne
  BY <1>2
<1>4. Restart \in Procs /\ \A e \in Editors : e \in Procs /\ e # Restart
  BY ProcFacts
<1>5. pc[Restart] = from /\ pc'[Restart] = to /\ \A q \in Procs : q # Restart => pc'[q] = pc[q]
  BY <1>0, <1>3, <1>4, GotoFacts
<1>6. CutOff'
  BY <1>5, RestartCutOff
<1>7. Locked'
  <2>1. from = "tx" => dbLock = Restart
    BY <1>0, <1>5 DEF Locked
  <2> QED BY <1>0, <1>2, <1>3, <1>4, <2>1, LockMoves
<1>8. /\ Stored' = Stored /\ Metered' = Metered /\ \A c : Live(c)' <=> Live(c)
      /\ \A E : Exhausted(E) \subseteq Exhausted(E)'
  <2>1. CASE settings' = settings /\ rows' = rows
    BY <2>1, SettingsSame, RowsSame, RowsExhausted
  <2>2. CASE AddTrafficCommits(Restart)
    <3>1. rows' = After(d, l).rows /\ settings' = After(d, l).settings
      BY <2>2 DEF AddTrafficCommits
    <3> HIDE DEF d, l
    <3> QED BY <1>0, <1>1, <3>1, CommitSwitches
  <2>3. (settings' = settings /\ rows' = rows) \/ AddTrafficCommits(Restart)
    BY DEF RestartBegins, RestartReads, AddTraffic, AddTrafficBegins, AddTrafficFails, db
  <2> QED BY <2>1, <2>2, <2>3
<1>9. Kept'
  BY <1>0, <1>2, <1>4, <1>5, <1>8, KeptKept
<1> QED BY <1>6, <1>7, <1>9 DEF CInv

\* A restart ends: what it may have missed is in gap.
LEMMA RestartEndsCut ==
    ASSUME Inv, CInv, RestartSkips \/ RestartStarts
    PROVE  CInv'
<1>0. Control /\ Locked /\ Kept
  BY DEF Inv, CInv
<1>1. /\ UNCHANGED <<settings, rows, dbLock, work>> /\ Goto(Restart, "start", "idle")
      /\ Missed(served') \subseteq gap'
  <2>1. CASE RestartSkips
    BY <2>1, Zenon DEF RestartSkips, db, core
  <2>2. CASE RestartStarts
    BY <2>2, Zenon DEF RestartStarts, db
  <2> QED BY <2>1, <2>2
<1>2. /\ Restart \in Procs /\ Job \in Procs /\ Job # Restart
      /\ \A e \in Editors : e \in Procs /\ e # Restart
  BY ProcFacts DEF Job, Restart
<1>3. "idle" \in Pcs /\ pc[Restart] = "start" /\ \A q \in Procs : q # Restart => pc'[q] = pc[q]
  <2>1. "idle" \in Pcs
    BY DEF Pcs
  <2> QED BY <1>0, <1>1, <1>2, <2>1, GotoFacts
<1>4. Stored' = Stored /\ Metered' = Metered /\ \A c : (Live(c)' <=> Live(c)) /\ (Off(c)' <=> Off(c))
  BY <1>1, SettingsSame, RowsSame
<1>5. ASSUME NEW c \in served' \ gap' PROVE Settled(c)'
  <2>1. ~Cut(c) /\ dbLock = NoOne /\ \A e \in Editors : pc[e] # "save"
    BY <1>1, <1>5, Zenon DEF Missed
  <2>2. ~Cut(c)'
    BY <2>1, <1>4, CutIs, Zenon
  <2>3. pc'[Job] # "tx" /\ \A e \in Editors : pc'[e] # "save"
    BY <1>0, <1>2, <1>3, <2>1, ClientsAssumption, ProcFacts DEF Locked
  <2> QED BY <2>2, <2>3, Zenon DEF Settled, JobExpels, EditExpels
<1>6. CutOff'
  BY <1>5, Zenon DEF CutOff
<1>7. Locked'
  BY <1>0, <1>1, <1>2, <1>3, LockMoves
<1>8. Kept'
  BY <1>0, <1>1, <1>2, <1>3, <1>4, RowsExhausted, KeptKept, Zenon
<1> QED BY <1>6, <1>7, <1>8 DEF CInv

\* Another process's answer does not concern the edits.
LEMMA EditsSame ==
    ASSUME Control, Flags, work' = work, \A e \in Editors : pc'[e] = pc[e] /\ (ask'[e] <=> ask[e]),
           \A c : Live(c)' <=> Live(c)
    PROVE  \A e \in Editors : \A c : /\ EditAdmits(e, c)' <=> EditAdmits(e, c)
                                     /\ EditExpels(e, c)' <=> EditExpels(e, c)
  BY Zenon DEF EditAdmits, EditExpels

\* Whom p's API calls leave or let in, and that only p's answer is concerned.
LEMMA AlterUsers ==
    ASSUME Flags, NEW p \in Procs, NEW off, NEW on, Alter(p, off, on)
    PROVE  /\ \A c \in served' : c \in served \/ c \in on
           /\ \A c \in served' : c \in off => c \in on \/ ask'[p]
           /\ \A q \in Procs : q # p => (ask'[q] <=> ask[q])
           /\ ask[p] => ask'[p]
<1>0. ask \in [Procs -> BOOLEAN]
  BY Zenon DEF Flags
<1>1. CASE /\ served' = (served \ off) \cup on
           /\ ask' = [ask EXCEPT ![p] = @ \/ on \cap (served \ off) # {}]
  <2> DEFINE v == ask[p] \/ on \cap (served \ off) # {}
  <2>1. ask' = [ask EXCEPT ![p] = v]
    BY <1>1, Zenon
  <2>2. ask[p] => v
    BY Zenon
  <2> HIDE DEF v
  <2>3. ask'[p] = v /\ \A q \in Procs : q # p => ask'[q] = ask[q]
    BY <1>0, <2>1, Zenon
  <2> QED BY <1>1, <2>2, <2>3, Zenon
<1>2. CASE ask' = [ask EXCEPT ![p] = TRUE] /\ UNCHANGED served
  <2>1. ask'[p] /\ \A q \in Procs : q # p => ask'[q] = ask[q]
    BY <1>0, <1>2, Zenon
  <2> QED BY <1>2, <2>1, Zenon
<1> QED BY <1>1, <1>2, Zenon DEF Alter

\* A deletion that has begun has deleted the row.
LEMMA DeletingHasNoRow ==
    ASSUME Inv, NEW e \in Editors, pc[e] = "save", work[e].kind = "delete"
    PROVE  work[e].client \in Clients /\ work[e].client \notin Metered
<1>1. Reading(work[e])
  BY DEF Inv, Edits
<1>2. work[e].client \in Stored /\ Stored \subseteq Clients
  BY <1>1 DEF Reading, Inv, Stocked, Copy, Stored
<1> QED BY <1>2, Zenon DEF Inv, Paired, Deleting

\* The transaction of the job begins.
LEMMA JobBeginsCut ==
    ASSUME Inv, CInv, AddTrafficBegins(Job)
    PROVE  CInv'
<1>0. Flags /\ Control /\ Stocked /\ Locked /\ Kept /\ CutOff
  BY DEF Inv, CInv
<1>1. Delta(Job) = batch /\ Listed(Job) = listed
  BY DEF Delta, Listed
<1>2. /\ UNCHANGED <<settings, rows, batch, listed, work, need>> /\ dbLock = NoOne /\ dbLock' = Job
      /\ Goto(Job, "add", "tx") /\ Alter(Job, JobOff, JobOn)
      /\ gap' = gap \cup {c \in JobOn : ~settings[c].enable}
  BY <1>1 DEF AddTrafficBegins, JobOn, JobOff
<1>3. /\ Restart \in Procs /\ Job \in Procs /\ Job # Restart
      /\ \A e \in Editors : e \in Procs /\ e # Job
  BY ProcFacts DEF Job, Restart
<1>4. "tx" \in Pcs /\ pc[Job] = "add" /\ pc'[Job] = "tx" /\ \A q \in Procs : q # Job => pc'[q] = pc[q]
  <2>1. "tx" \in Pcs
    BY DEF Pcs
  <2> QED BY <1>0, <1>2, <1>3, <2>1, GotoFacts
<1>5. /\ Stored' = Stored /\ Metered' = Metered
      /\ \A c : (Live(c)' <=> Live(c)) /\ (Off(c)' <=> Off(c))
      /\ JobOn' = JobOn /\ JobOff' = JobOff
  BY <1>2, SettingsSame, RowsSame, JobSame
<1>6. /\ \A c \in served' : c \in served \/ c \in JobOn
      /\ \A c \in served' : c \in JobOff => c \in JobOn \/ ask'[Job]
      /\ \A e \in Editors : ask'[e] <=> ask[e]
  BY <1>0, <1>2, <1>3, AlterUsers, Zenon
<1>7. \A e \in Editors : \A c : /\ EditAdmits(e, c)' <=> EditAdmits(e, c)
                                /\ EditExpels(e, c)' <=> EditExpels(e, c)
  BY <1>0, <1>2, <1>3, <1>4, <1>5, <1>6, EditsSame, Zenon
<1>8. (\A c \in JobOn : c \in Stored /\ Off(c)) /\ (\A c \in JobOff : ~Off(c))
  BY <1>0, JobFacts
<1>9. ASSUME \A c \in served \ gap : Settled(c), NEW c \in served' \ gap'
      PROVE  Settled(c)'
  <2>1. CASE c \in JobOn
    <3>1. Live(c)
      BY <1>2, <1>8, <1>9, <2>1, Zenon DEF Live
    <3>2. JobAdmits(c)'
      BY <1>4, <1>5, <2>1, <3>1, Zenon DEF JobAdmits
    <3>3. JobExpels(c)'
      BY <1>5, <1>8, <2>1, Zenon DEF JobExpels
    <3>4. ASSUME NEW e \in Editors PROVE EditExpels(e, c)
      <4> SUFFICES ASSUME pc[e] = "save", Removing(work[e]), work[e].client = c
                   PROVE  FALSE
        BY Zenon DEF EditExpels
      <4>1. work[e].kind = "delete"
        BY <1>0, <1>2, <1>3, ClientsAssumption DEF Locked, Removing
      <4>2. c \in Metered
        BY <1>8, <2>1, Zenon DEF Off
      <4> QED BY <4>1, <4>2, DeletingHasNoRow
    <3> QED BY <1>7, <3>2, <3>3, <3>4, Zenon DEF Settled
  <2>2. CASE c \notin JobOn
    <3>1. c \in served \ gap
      BY <1>2, <1>6, <1>9, <2>2, Zenon
    <3>2. Settled(c)
      BY <1>9, <3>1, Zenon
    <3>3. ~JobAdmits(c)
      BY <1>4 DEF JobAdmits
    <3>4. JobExpels(c)'
      BY <1>5, <1>6, <1>9, <2>2, Zenon DEF JobExpels
    <3>5. Cut(c)' <=> Cut(c)
      BY <1>5, CutIs, Zenon
    <3> QED BY <1>7, <3>2, <3>3, <3>4, <3>5, Zenon DEF Settled
  <2> QED BY <2>1, <2>2
<1>10. CutOff'
  BY <1>0, <1>2, <1>3, <1>4, <1>9, Zenon DEF CutOff
<1>11. Locked'
  BY <1>0, <1>2, <1>3, <1>4, LockMoves
<1>12. Kept'
  BY <1>0, <1>2, <1>3, <1>4, <1>5, RowsExhausted, KeptKept, Zenon
<1> QED BY <1>10, <1>11, <1>12 DEF CInv

\* And commits.
LEMMA JobCommitsCut ==
    ASSUME Inv, CInv, AddTrafficCommits(Job)
    PROVE  CInv'
<1>0. Flags /\ Control /\ Stocked /\ Locked /\ Kept /\ CutOff
  BY DEF Inv, CInv
<1>1. Delta(Job) = batch /\ Listed(Job) = listed /\ batch \in [Clients -> Nat]
  BY <1>0 DEF Delta, Listed, Stocked
<1>2. /\ UNCHANGED <<served, gap, work>> /\ dbLock' = NoOne
      /\ Goto(Job, "tx", "idle")
      /\ rows' = After(batch, listed).rows /\ settings' = After(batch, listed).settings
      /\ need' = (need \/ ask[Job]) /\ ask' = [ask EXCEPT ![Job] = FALSE]
  BY <1>1, Zenon DEF AddTrafficCommits, core, history
<1>3. /\ Restart \in Procs /\ Job \in Procs /\ Job # Restart
      /\ \A e \in Editors : e \in Procs /\ e # Job
  BY ProcFacts DEF Job, Restart
<1>4. "idle" \in Pcs /\ pc[Job] = "tx" /\ pc'[Job] = "idle" /\ \A q \in Procs : q # Job => pc'[q] = pc[q]
  <2>1. "idle" \in Pcs
    BY DEF Pcs
  <2> QED BY <1>0, <1>2, <1>3, <2>1, GotoFacts
<1>5. /\ Stored' = Stored /\ Metered' = Metered
      /\ \A c : Live(c)' <=> Live(c)
      /\ \A c : Off(c)' => Off(c) \/ c \in JobOff
      /\ \A c \in JobOn : c \notin JobOff => ~Off(c)'
      /\ \A E : Exhausted(E) \subseteq Exhausted(E)'
  BY <1>0, <1>1, <1>2, CommitSwitches DEF JobOn, JobOff
<1>6. \A e \in Editors : ask'[e] <=> ask[e]
  <2>1. ask \in [Procs -> BOOLEAN]
    BY <1>0, Zenon DEF Flags
  <2> QED BY <1>2, <1>3, <2>1, Zenon
<1>7. \A e \in Editors : \A c : /\ EditAdmits(e, c)' <=> EditAdmits(e, c)
                                /\ EditExpels(e, c)' <=> EditExpels(e, c)
  BY <1>0, <1>2, <1>3, <1>4, <1>5, <1>6, EditsSame, Zenon
<1>8. ASSUME ~ask[Job], NEW c, Settled(c)
      PROVE  Settled(c)'
  <2>1. c \notin JobOff
    BY <1>4, <1>8, Zenon DEF Settled, JobExpels
  <2>2. JobAdmits(c) => ~Cut(c)'
    BY <1>5, <1>8, <2>1, CutIs, Zenon DEF JobAdmits
  <2>3. Cut(c)' => Cut(c)
    BY <1>5, <2>1, CutIs, Zenon
  <2>4. JobExpels(c)'
    BY <1>4 DEF JobExpels
  <2> QED BY <1>7, <1>8, <2>2, <2>3, <2>4, Zenon DEF Settled
<1>9. CutOff'
  BY <1>0, <1>2, <1>3, <1>4, <1>8, Zenon DEF CutOff
<1>10. Locked'
  <2>1. dbLock = Job
    BY <1>0, <1>4 DEF Locked
  <2> QED BY <1>0, <1>2, <1>3, <1>4, <2>1, LockMoves
<1>11. Kept'
  BY <1>0, <1>2, <1>3, <1>4, <1>5, KeptKept, Zenon
<1> QED BY <1>9, <1>10, <1>11 DEF CInv

-----------------------------------------------------------------------------
(* The steps of the one editor.                                            *)

\* It moves alone.
LEMMA EditMoves ==
    ASSUME Control, NEW e \in Editors, NEW from, NEW to \in Pcs, Goto(e, from, to)
    PROVE  /\ pc[e] = from /\ pc'[e] = to /\ pc'[Job] = pc[Job] /\ pc'[Restart] = pc[Restart]
           /\ e \in Procs /\ Job \in Procs /\ e # Job
<1>1. e \in Procs /\ Job \in Procs /\ Restart \in Procs /\ e # Job /\ e # Restart
  BY ProcFacts
<1> QED BY <1>1, GotoFacts

\* While nobody or an editor holds the lock, the job is not in its transaction.
LEMMA NoJob ==
    ASSUME Locked, dbLock \in Editors \cup {NoOne}
    PROVE  pc[Job] # "tx"
  BY ClientsAssumption, ProcFacts DEF Locked

\* Then a client is settled by this edit.
LEMMA SettledByEdit ==
    ASSUME OneEditor, NEW e \in Editors, pc[Job] # "tx", pc'[Job] = pc[Job]
    PROVE  \A c : /\ Settled(c) <=> (Cut(c) => EditAdmits(e, c)) /\ EditExpels(e, c)
                  /\ Settled(c)' <=> (Cut(c)' => EditAdmits(e, c)') /\ EditExpels(e, c)'
<1>1. \A c : ~JobAdmits(c) /\ ~JobAdmits(c)' /\ JobExpels(c) /\ JobExpels(c)'
  BY DEF JobAdmits, JobExpels
<1> QED BY <1>1, SettledIs, Zenon

\* An edit that has only read, or has ended, admits and expels nobody.
LEMMA EditIdle ==
    ASSUME NEW e \in Editors
    PROVE  /\ pc[e] # "save" /\ ~(pc[e] = "act" /\ work[e].kind = "reset") =>
                \A c : ~EditAdmits(e, c) /\ EditExpels(e, c)
           /\ pc'[e] # "save" /\ ~(pc'[e] = "act" /\ work'[e].kind = "reset") =>
                \A c : ~EditAdmits(e, c)' /\ EditExpels(e, c)'
  BY Zenon DEF EditAdmits, EditExpels

\* What the beginning of an edit leaves alone.
LEMMA BeginFacts ==
    ASSUME Inv, CInv, OneEditor, NEW e \in Editors, NEW w, Begin(e, w), Current(w)
    PROVE  /\ UNCHANGED <<settings, rows, dbLock, need, batch, listed, gap>>
           /\ pc[e] = "idle" /\ pc'[e] = "act" /\ work'[e] = w
           /\ pc'[Job] = pc[Job] /\ pc'[Restart] = pc[Restart]
           /\ Stored' = Stored /\ Metered' = Metered
           /\ \A c : (Live(c)' <=> Live(c)) /\ (Off(c)' <=> Off(c)) /\ (Cut(c)' <=> Cut(c))
           /\ JobOn' = JobOn /\ JobOff' = JobOff
           /\ Locked' /\ Kept'
<1>0. Control /\ Edits /\ Locked /\ Kept
  BY DEF Inv, CInv
<1>1. /\ UNCHANGED <<settings, rows, dbLock, need, batch, listed, gap>>
      /\ Goto(e, "idle", "act") /\ work' = [work EXCEPT ![e] = w]
  BY DEF Begin, db, history
<1>2. "act" \in Pcs
  BY DEF Pcs
<1>3. /\ pc[e] = "idle" /\ pc'[e] = "act" /\ pc'[Job] = pc[Job] /\ pc'[Restart] = pc[Restart]
      /\ e \in Procs
  BY <1>0, <1>1, <1>2, EditMoves
<1>4. work = [f \in Editors |-> work[f]]
  BY <1>0 DEF Edits
<1>5. work'[e] = w /\ \A f \in Editors : f # e => work'[f] = work[f]
  BY <1>1, <1>4
<1>6. /\ Stored' = Stored /\ Metered' = Metered
      /\ \A c : (Live(c)' <=> Live(c)) /\ (Off(c)' <=> Off(c))
      /\ JobOn' = JobOn /\ JobOff' = JobOff
  BY <1>1, SettingsSame, RowsSame, JobSame
<1>7. \A c : Cut(c)' <=> Cut(c)
  BY <1>6, CutIs, Zenon
<1>8. Locked'
  BY <1>0, <1>1, <1>2, <1>3, <1>5, LockMoves
<1>9. Current(w)'
  <2>1. \A E : Exhausted(E) \subseteq Exhausted(E)'
    BY <1>1, RowsExhausted
  <2> QED BY <1>6, <2>1, Zenon DEF Current
<1>10. \A f \in Editors : f = e
  BY DEF OneEditor
<1>11. Kept'
  <2>1. Metered' \subseteq Stored'
    BY <1>0, <1>6, Zenon DEF Kept
  <2>2. \A f \in Editors : Current(work[f])'
    BY <1>5, <1>9, <1>10, Zenon
  <2> QED BY <2>1, <2>2, Zenon DEF Kept
<1> QED BY <1>1, <1>3, <1>5, <1>6, <1>7, <1>8, <1>11

\* An edit that does not touch the core yet begins.
LEMMA BeginCut ==
    ASSUME Inv, CInv, OneEditor, NEW e \in Editors, NEW w, Begin(e, w), Current(w),
           w.kind # "reset", served' = served, ask' = ask
    PROVE  CInv'
<1>1. /\ UNCHANGED <<settings, rows, dbLock, need, batch, listed, gap>>
      /\ pc[e] = "idle" /\ pc'[e] = "act" /\ work'[e] = w
      /\ pc'[Job] = pc[Job] /\ pc'[Restart] = pc[Restart]
      /\ \A c : (Live(c)' <=> Live(c)) /\ (Cut(c)' <=> Cut(c))
      /\ JobOn' = JobOn /\ JobOff' = JobOff
      /\ Locked' /\ Kept'
  BY BeginFacts
<1>2. \A c : /\ ~EditAdmits(e, c) /\ EditExpels(e, c)
             /\ ~EditAdmits(e, c)' /\ EditExpels(e, c)'
  BY <1>1, EditIdle, Zenon
<1>3. \A c : (JobAdmits(c)' <=> JobAdmits(c)) /\ (JobExpels(c)' <=> JobExpels(c))
  BY <1>1, Zenon DEF JobAdmits, JobExpels
<1>4. \A c : Settled(c)' <=> Settled(c)
  BY <1>1, <1>2, <1>3, SettledIs, Zenon
<1>5. CutOff'
  BY <1>1, <1>4, Zenon DEF CutOff, CInv
<1> QED BY <1>1, <1>5 DEF CInv

\* ReadInbound and DepleteReads.
LEMMA ReadsCut ==
    ASSUME Inv, CInv, OneEditor, NEW e \in Editors, ReadInbound(e) \/ DepleteReads(e)
    PROVE  CInv'
<1>1. \A c \in Stored : settings[c].enable <=> Live(c)
  BY Zenon DEF Live
<1>2. CASE ReadInbound(e)
  <2>1. served' = served /\ ask' = ask
    BY <1>2 DEF ReadInbound
  <2>2. PICK c \in Clients, x \in Entries :
          \/ /\ c \notin Stored
             /\ Begin(e, [kind |-> "add", client |-> c, entry |-> x, copy |-> settings])
          \/ /\ c \in Stored
             /\ Begin(e, [kind |-> "update", client |-> c, entry |-> x, copy |-> settings])
          \/ /\ c \in Stored
             /\ Begin(e, [kind |-> "delete", client |-> c, copy |-> settings])
    BY <1>2, Zenon DEF ReadInbound
  <2>3. ASSUME NEW w, Begin(e, w), w.kind \in {"add", "update", "delete"}, w.copy = settings,
               w.kind = "add" => w.client \notin Stored
        PROVE  CInv'
    <3>1. Current(w)
      BY <1>1, <2>3 DEF Current
    <3> QED BY <2>1, <2>3, <3>1, BeginCut
  <2>4. CASE c \notin Stored
    <3> DEFINE w == [kind |-> "add", client |-> c, entry |-> x, copy |-> settings]
    <3>1. w.kind = "add" /\ w.client = c /\ w.copy = settings
      OBVIOUS
    <3>2. Begin(e, w)
      BY <2>2, <2>4
    <3> HIDE DEF w
    <3> QED BY <2>3, <2>4, <3>1, <3>2
  <2>5. CASE Begin(e, [kind |-> "update", client |-> c, entry |-> x, copy |-> settings])
    <3> DEFINE w == [kind |-> "update", client |-> c, entry |-> x, copy |-> settings]
    <3>1. w.kind = "update" /\ w.copy = settings
      OBVIOUS
    <3>2. Begin(e, w)
      BY <2>5
    <3> HIDE DEF w
    <3> QED BY <2>3, <3>1, <3>2
  <2>6. CASE Begin(e, [kind |-> "delete", client |-> c, copy |-> settings])
    <3> DEFINE w == [kind |-> "delete", client |-> c, copy |-> settings]
    <3>1. w.kind = "delete" /\ w.copy = settings
      OBVIOUS
    <3>2. Begin(e, w)
      BY <2>6
    <3> HIDE DEF w
    <3> QED BY <2>3, <3>1, <3>2
  <2> QED BY <2>2, <2>4, <2>5, <2>6
<1>3. CASE DepleteReads(e)
  <2> DEFINE expired == {c \in Metered : rows[c].exp = "past"}
             gone == Exhausted(expired)
             w == [kind |-> "deplete", gone |-> gone, expired |-> expired, copy |-> settings]
  <2>1. Begin(e, w) /\ served' = served /\ ask' = ask
    BY <1>3, Zenon DEF DepleteReads
  <2>2. w.kind = "deplete" /\ w.gone = gone /\ w.expired = expired /\ w.copy = settings
    <3> HIDE DEF gone, expired
    <3> QED OBVIOUS
  <2>3. Current(w)
    <3> HIDE DEF w, expired
    <3> QED BY <1>1, <2>2 DEF Current
  <2> HIDE DEF w
  <2> QED BY <2>1, <2>2, <2>3, BeginCut
<1> QED BY <1>2, <1>3

\* ResetClientTraffic lets a client in again that it is about to switch on.
LEMMA ResetReadsCut ==
    ASSUME Inv, CInv, OneEditor, NEW e \in Editors, ResetReads(e)
    PROVE  CInv'
<1>0. Flags /\ Stocked /\ CutOff
  BY DEF Inv, CInv
<1>1. PICK k \in Metered \cap Stored :
        /\ Begin(e, [kind |-> "reset", client |-> k, row |-> rows[k]])
        /\ Alter(e, {}, IF ~rows[k].enable /\ settings[k].enable THEN {k} ELSE {})
  BY Zenon DEF ResetReads
<1> DEFINE w == [kind |-> "reset", client |-> k, row |-> rows[k]]
           on == IF ~rows[k].enable /\ settings[k].enable THEN {k} ELSE {}
<1>2. w.kind = "reset" /\ w.client = k /\ Begin(e, w)
  BY <1>1
<1>3. \A c \in on : c = k /\ Live(k) /\ Off(k)
  BY <1>1, Zenon DEF Live, Off
<1> HIDE DEF w, on
<1>4. Current(w)
  BY <1>2 DEF Current
<1>5. /\ UNCHANGED <<settings, rows, dbLock, need, batch, listed, gap>>
      /\ pc[e] = "idle" /\ pc'[e] = "act" /\ work'[e] = w
      /\ pc'[Job] = pc[Job] /\ pc'[Restart] = pc[Restart]
      /\ \A c : (Live(c)' <=> Live(c)) /\ (Cut(c)' <=> Cut(c))
      /\ JobOn' = JobOn /\ JobOff' = JobOff
      /\ Locked' /\ Kept'
  BY <1>2, <1>4, BeginFacts
<1>6. (\A c \in served' : c \in served \/ c \in on) /\ (ask'[Job] <=> ask[Job])
  <2>1. Alter(e, {}, on)
    BY <1>1 DEF on
  <2>2. e \in Procs /\ Job \in Procs /\ e # Job
    BY ProcFacts
  <2> QED BY <1>0, <2>1, <2>2, AlterUsers, Zenon
<1>7. \A c : ~EditAdmits(e, c) /\ EditExpels(e, c)' /\ EditExpels(e, c)
  BY <1>5, EditIdle, Zenon DEF EditExpels
<1>8. \A c : (JobAdmits(c)' <=> JobAdmits(c)) /\ (JobExpels(c)' <=> JobExpels(c))
  BY <1>5, <1>6, Zenon DEF JobAdmits, JobExpels
<1>9. \A c \in on : EditAdmits(e, c)' /\ JobExpels(c)'
  <2>1. \A c \in on : EditAdmits(e, c)'
    BY <1>2, <1>3, <1>5 DEF EditAdmits
  <2>2. \A c \in on : JobExpels(c)
    BY <1>0, <1>3, JobFacts, Zenon DEF JobExpels
  <2> QED BY <1>8, <2>1, <2>2, Zenon
<1>10. \A c : (Settled(c) \/ c \in on) => Settled(c)'
  BY <1>5, <1>7, <1>8, <1>9, SettledIs, Zenon
<1>11. CutOff'
  BY <1>0, <1>5, <1>6, <1>10, Zenon DEF CutOff
<1> QED BY <1>5, <1>11 DEF CInv

\* When nobody holds the lock and the edit has not told the core, every settled user of
\* the core is switched on.
LEMMA SettledBefore ==
    ASSUME OneEditor, Locked, NEW e \in Editors, dbLock = NoOne, pc'[Job] = pc[Job],
           pc[e] # "save", ~(pc[e] = "act" /\ work[e].kind = "reset")
    PROVE  /\ pc[Job] # "tx"
           /\ \A c : Settled(c) => ~Cut(c)
<1>1. pc[Job] # "tx"
  BY NoJob
<1> QED BY <1>1, SettledByEdit, EditIdle, Zenon

\* The transactions of AddInboundClient and UpdateInboundClient begin.
LEMMA EditBeginsCut ==
    ASSUME Inv, CInv, OneEditor, NEW e \in Editors, AddBegins(e) \/ UpdateBegins(e)
    PROVE  CInv'
<1>0. Flags /\ Control /\ Edits /\ Locked /\ Kept /\ CutOff
  BY DEF Inv, CInv
<1> DEFINE w == work[e]
           k == w.client
           on == IF w.entry.enable THEN {k} ELSE {}
           off == IF w.kind = "update" /\ w.copy[k].enable THEN {k} ELSE {}
<1>1. /\ UNCHANGED <<settings, rows, need, batch, listed, gap,
                     work>> /\ dbLock = NoOne /\ dbLock' = e
      /\ w.kind \in {"add", "update"} /\ Goto(e, "act", "save")
  BY DEF AddBegins, UpdateBegins, history
<1>2. Alter(e, off, on)
  <2>1. CASE AddBegins(e)
    <3>1. Alter(e, {}, on) /\ w.kind # "update"
      BY <2>1 DEF AddBegins
    <3>2. off = {}
      BY <3>1, Zenon
    <3> QED BY <3>1, <3>2, Zenon
  <2>2. CASE UpdateBegins(e)
    <3>1. w.kind = "update" /\ Alter(e, IF w.copy[k].enable THEN {k} ELSE {}, on)
      BY <2>2, Zenon DEF UpdateBegins
    <3>2. off = IF w.copy[k].enable THEN {k} ELSE {}
      BY <3>1, Zenon
    <3> QED BY <3>1, <3>2, Zenon
  <2> QED BY <2>1, <2>2
<1>3. /\ \A c \in on : c = k /\ w.entry.enable
      /\ w.entry.enable => on = {k}
      /\ w.kind = "update" /\ w.copy[k].enable => k \in off
  BY Zenon
<1>4. "save" \in Pcs
  BY DEF Pcs
<1>5. /\ pc[e] = "act" /\ pc'[e] = "save" /\ pc'[Job] = pc[Job] /\ pc'[Restart] = pc[Restart]
      /\ e \in Procs
  BY <1>0, <1>1, <1>4, EditMoves
<1>6. w.kind = "update" => k \in Stored
  <2>1. Reading(w)
    BY <1>0, <1>5 DEF Edits
  <2> QED BY <2>1 DEF Reading
<1>7. w.kind = "update" => (w.copy[k].enable <=> Live(k))
  <2>1. Current(w)
    BY <1>0, <1>5 DEF Kept
  <2> QED BY <1>6, <2>1, Zenon DEF Current
<1> HIDE DEF w, k, on, off
<1>8. /\ Stored' = Stored /\ Metered' = Metered
      /\ \A c : (Live(c)' <=> Live(c)) /\ (Off(c)' <=> Off(c))
  BY <1>1, SettingsSame, RowsSame
<1>9. \A c : Cut(c)' <=> Cut(c)
  BY <1>8, CutIs, Zenon
<1>10. /\ \A c \in served' : c \in served \/ c \in on
       /\ \A c \in served' : c \in off => c \in on \/ ask'[e]
  BY <1>0, <1>2, <1>5, AlterUsers, Zenon
<1>11. pc[Job] # "tx" /\ \A c : Settled(c) => ~Cut(c)
  BY <1>0, <1>1, <1>5, SettledBefore DEF w
<1>12. work'[e] = w
  BY <1>1 DEF w
<1>13. \A c : c # k => EditExpels(e, c)'
  BY <1>12, Zenon DEF EditExpels, k
<1>14. ASSUME \A c \in served \ gap : Settled(c), NEW c \in served' \ gap'
       PROVE  Settled(c)'
  <2>1. CASE c \in on
    <3>1. EditAdmits(e, c)'
      BY <1>1, <1>3, <1>5, <1>12, <2>1 DEF EditAdmits, k
    <3>2. EditExpels(e, c)'
      BY <1>1, <1>3, <1>12, <2>1 DEF EditExpels, Removing
    <3> QED BY <1>5, <1>11, <3>1, <3>2, SettledByEdit, Zenon
  <2>2. CASE c \notin on
    <3>1. ~Cut(c)'
      BY <1>1, <1>9, <1>10, <1>11, <1>14, <2>2, Zenon
    <3>2. EditExpels(e, c)'
      <4>1. CASE c # k
        BY <1>13, <4>1
      <4>2. CASE c = k
        <5>1. ~w.entry.enable
          BY <1>3, <2>2, <4>2, Zenon
        <5>2. CASE w.kind = "add"
          BY <1>12, <5>2 DEF EditExpels, Removing
        <5>3. CASE w.kind = "update"
          <6>1. Live(k)
            BY <1>8, <3>1, <4>2, CutIs, Zenon
          <6>2. ask'[e]
            BY <1>3, <1>7, <1>10, <1>14, <2>2, <4>2, <5>3, <6>1, Zenon
          <6> QED BY <6>2, Zenon DEF EditExpels
        <5> QED BY <1>1, <5>2, <5>3
      <4> QED BY <4>1, <4>2
    <3> QED BY <1>5, <1>11, <3>1, <3>2, SettledByEdit, Zenon
  <2> QED BY <2>1, <2>2
<1>15. CutOff'
  BY <1>0, <1>1, <1>5, <1>14, Zenon DEF CutOff
<1>16. Locked'
  BY <1>0, <1>1, <1>4, <1>5, LockMoves
<1>17. Kept'
  <2>1. \A f \in Editors : f = e
    BY DEF OneEditor
  <2> QED BY <1>0, <1>1, <1>5, <1>8, <2>1, RowsExhausted, KeptKept, Zenon
<1> QED BY <1>15, <1>16, <1>17 DEF CInv

\* The switches when an entry is added to a copy of the settings, or replaced in it.
LEMMA LiveWith ==
    ASSUME NEW f, NEW k, NEW x, settings' = With(f, k, x)
    PROVE  /\ Stored' = DOMAIN f \cup {k}
           /\ Live(k)' <=> x.enable
           /\ \A c : c # k => (Live(c)' <=> c \in DOMAIN f /\ f[c].enable)
<1>1. settings' = [y \in DOMAIN f \cup {k} |-> IF y = k THEN x ELSE f[y]]
  BY Zenon DEF With
<1>2. Stored' = DOMAIN f \cup {k}
  BY <1>1 DEF Stored
<1>3. settings'[k] = x /\ \A c \in DOMAIN f : c # k => settings'[c] = f[c]
  BY <1>1, Zenon
<1> QED BY <1>2, <1>3, Zenon DEF Live

\* The same for the rows.
LEMMA OffWith ==
    ASSUME Stocked, NEW k, NEW r, rows' = With(rows, k, r)
    PROVE  /\ Metered' = Metered \cup {k}
           /\ Off(k)' <=> ~r.enable
           /\ \A c : c # k => (Off(c)' <=> Off(c))
<1>1. rows' = [y \in Metered \cup {k} |-> IF y = k THEN r ELSE rows[y]]
  BY Zenon DEF With, Metered
<1>2. Metered' = Metered \cup {k}
  BY <1>1 DEF Metered
<1>3. rows'[k] = r /\ \A c \in Metered : c # k => rows'[c] = rows[c]
  BY <1>1, Zenon
<1> QED BY <1>2, <1>3, Zenon DEF Off

\* When clients leave the settings.
LEMMA LiveRestrict ==
    ASSUME NEW f, NEW S, settings' = Restrict(f, S)
    PROVE  Stored' = S /\ \A c : Live(c)' <=> c \in S /\ f[c].enable
<1>1. settings' = [x \in S |-> f[x]]
  BY Zenon DEF Restrict
<1>2. Stored' = S /\ \A c \in S : settings'[c] = f[c]
  BY <1>1 DEF Stored
<1> QED BY <1>2, Zenon DEF Live

\* When rows are deleted.
LEMMA OffRestrict ==
    ASSUME NEW S, rows' = Restrict(rows, S), S \subseteq Metered
    PROVE  Metered' = S /\ \A c : Off(c)' <=> c \in S /\ Off(c)
<1>1. rows' = [x \in S |-> rows[x]]
  BY Zenon DEF Restrict
<1>2. Metered' = S /\ \A c \in S : rows'[c] = rows[c]
  BY <1>1 DEF Metered
<1> QED BY <1>2, Zenon DEF Off

\* An answer asks for the restart that the edit asks for.
LEMMA AnsweredAsks ==
    ASSUME NEW e \in Editors, Answered(e)
    PROVE  (need => need') /\ (ask[e] => need')
  BY Zenon DEF Answered

\* An edit ends whose users, outside gap, are now switched on or were settled by it.
LEMMA EndsCut ==
    ASSUME Inv, CInv, OneEditor, NEW e \in Editors, NEW from, Goto(e, from, "idle"),
           dbLock \in {e, NoOne}, dbLock' = NoOne, need => need',
           ~need' => \A c \in served' \ gap' :
                        /\ c \in served \ gap
                        /\ (Cut(c) => EditAdmits(e, c)) /\ EditExpels(e, c) => ~Cut(c)',
           Metered' \subseteq Stored'
    PROVE  CInv'
<1>0. Control /\ Locked /\ Kept /\ CutOff /\ Edits
  BY DEF Inv, CInv
<1>1. "idle" \in Pcs
  BY DEF Pcs
<1>2. /\ pc[e] = from /\ pc'[e] = "idle" /\ pc'[Job] = pc[Job] /\ pc'[Restart] = pc[Restart]
      /\ e \in Procs
  BY <1>0, <1>1, EditMoves
<1>3. pc[Job] # "tx"
  BY <1>0, NoJob
<1>4. ASSUME ~need', \A c \in served \ gap : Settled(c), NEW c \in served' \ gap'
      PROVE  Settled(c)'
  <2>1. c \in served \ gap
    BY <1>4, Zenon
  <2>2. (Cut(c) => EditAdmits(e, c)) /\ EditExpels(e, c)
    BY <1>2, <1>3, <1>4, <2>1, SettledByEdit, Zenon
  <2>3. ~Cut(c)'
    BY <1>4, <2>2, Zenon
  <2>4. EditExpels(e, c)'
    BY <1>2, EditIdle, Zenon
  <2> QED BY <1>2, <1>3, <2>3, <2>4, SettledByEdit, Zenon
<1>5. CutOff'
  BY <1>0, <1>2, <1>4, Zenon DEF CutOff
<1>6. Locked'
  <2>1. \A f \in Editors : f = e
    BY DEF OneEditor
  <2>2. \A p \in {Job, Restart} : pc'[p] # "tx"
    BY <1>0, <1>2, ClientsAssumption, ProcFacts DEF Locked
  <2> QED BY <1>2, <2>1, <2>2 DEF Locked
<1>7. Kept'
  BY <1>2, KeptEnds
<1> QED BY <1>5, <1>6, <1>7 DEF CInv

\* What an addition, an update or a deletion has copied is what is switched on.
LEMMA CopySwitches ==
    ASSUME Inv, CInv, NEW e \in Editors, pc[e] # "idle",
           work[e].kind \in {"add", "update", "delete", "deplete"}
    PROVE  /\ DOMAIN work[e].copy = Stored
           /\ \A c \in Stored : work[e].copy[c].enable <=> Live(c)
<1>1. Reading(work[e]) /\ Current(work[e])
  BY DEF Inv, Edits, CInv, Kept
<1> QED BY <1>1 DEF Reading, Current

\* An addition commits.
LEMMA AddCommitsCut ==
    ASSUME Inv, CInv, OneEditor, NEW e \in Editors, AddCommits(e)
    PROVE  CInv'
<1>0. Control /\ Stocked /\ Locked /\ Kept
  BY DEF Inv, CInv
<1> DEFINE w == work[e]
           k == w.client
<1>1. /\ UNCHANGED <<served, gap>> /\ dbLock' = NoOne /\ w.kind = "add"
      /\ Goto(e, "save", "idle") /\ Answered(e)
      /\ rows' = WithStat(w) /\ settings' = With(w.copy, k, w.entry)
  BY DEF AddCommits, core
<1>2. pc[e] = "save"
  BY <1>1 DEF Goto
<1>3. dbLock = e
  BY <1>0, <1>1, <1>2 DEF Locked
<1>4. DOMAIN w.copy = Stored /\ \A c \in Stored : w.copy[c].enable <=> Live(c)
  BY <1>1, <1>2, CopySwitches
<1>5. k \notin Stored /\ Metered \subseteq Stored
  BY <1>0, <1>1, <1>2 DEF Kept, Current
<1>6. \A c : EditAdmits(e, c) => c = k /\ (ask[e] \/ w.entry.enable)
  BY <1>1, <1>2 DEF EditAdmits
<1> DEFINE r == [enable |-> w.entry.enable, exp |-> w.entry.exp, used |-> 0, all |-> 0]
<1>7. rows' = With(rows, k, r)
  BY <1>1, <1>5, Zenon DEF WithStat
<1>8. r.enable = w.entry.enable
  BY Zenon
<1> HIDE DEF w, k, r
<1>9. /\ Stored' = Stored \cup {k} /\ \A c : c = k => (Live(c)' <=> w.entry.enable)
      /\ \A c : c # k => (Live(c)' <=> c \in Stored /\ w.copy[c].enable)
  BY <1>1, <1>4, LiveWith, Zenon
<1>10. /\ Metered' = Metered \cup {k} /\ \A c : c = k => (Off(c)' <=> ~w.entry.enable)
       /\ \A c : c # k => (Off(c)' <=> Off(c))
  BY <1>0, <1>7, <1>8, OffWith, Zenon
<1>11. ASSUME ~need', NEW c \in served' \ gap', Cut(c) => EditAdmits(e, c)
       PROVE  c \in served \ gap /\ ~Cut(c)'
  <2>1. c \in served \ gap
    BY <1>1, <1>11, Zenon
  <2>2. ~ask[e]
    BY <1>1, <1>11, AnsweredAsks, Zenon
  <2>3. CASE c = k
    <3>1. Cut(c)
      BY <1>5, <2>3, CutIs, Zenon DEF Live
    <3>2. w.entry.enable
      BY <1>6, <1>11, <2>2, <3>1, Zenon
    <3> QED BY <1>9, <1>10, <2>1, <2>3, <3>2, CutIs, Zenon
  <2>4. CASE c # k
    <3>1. Live(c) /\ ~Off(c)
      BY <1>6, <1>11, <2>4, CutIs, Zenon
    <3>2. c \in Stored /\ w.copy[c].enable
      BY <1>4, <3>1, Zenon DEF Live
    <3> QED BY <1>9, <1>10, <2>1, <2>4, <3>1, <3>2, CutIs, Zenon
  <2> QED BY <2>3, <2>4
<1>12. Metered' \subseteq Stored'
  BY <1>5, <1>9, <1>10, Zenon
<1>13. need => need'
  BY <1>1, AnsweredAsks
<1>14. dbLock \in {e, NoOne}
  BY <1>3
<1> QED BY <1>1, <1>11, <1>12, <1>13, <1>14, EndsCut, Zenon

\* An update commits.
LEMMA UpdateCommitsCut ==
    ASSUME Inv, CInv, OneEditor, NEW e \in Editors, UpdateCommits(e)
    PROVE  CInv'
<1>0. Control /\ Stocked /\ Locked /\ Kept
  BY DEF Inv, CInv
<1> DEFINE w == work[e]
           k == w.client
<1>1. /\ UNCHANGED <<served, gap>> /\ dbLock' = NoOne /\ w.kind = "update"
      /\ Goto(e, "save", "idle") /\ Answered(e)
      /\ settings' = [w.copy EXCEPT ![k] = w.entry]
  BY DEF UpdateCommits, core, history
<1>2. rows' = IF k \in Metered
              THEN [rows EXCEPT ![k].enable = w.entry.enable, ![k].exp = w.entry.exp]
              ELSE rows
  BY Zenon DEF UpdateCommits
<1>3. pc[e] = "save"
  BY <1>1 DEF Goto
<1>4. dbLock = e
  BY <1>0, <1>1, <1>3 DEF Locked
<1>5. DOMAIN w.copy = Stored /\ \A c \in Stored : w.copy[c].enable <=> Live(c)
  BY <1>1, <1>3, CopySwitches
<1>6. k \in Stored /\ Metered \subseteq Stored
  <2>1. Reading(w)
    BY <1>3 DEF Inv, Edits
  <2> QED BY <1>0, <1>1, <2>1 DEF Reading, Kept
<1>7. \A c : EditAdmits(e, c) => c = k /\ (ask[e] \/ w.entry.enable)
  BY <1>1, <1>3 DEF EditAdmits
<1>8. EditExpels(e, k) => w.entry.enable \/ ask[e]
  BY <1>1, <1>3, Zenon DEF EditExpels, Removing
<1> HIDE DEF w, k
<1>9. /\ Stored' = Stored /\ \A c : c = k => (Live(c)' <=> w.entry.enable)
      /\ \A c : c # k => (Live(c)' <=> c \in Stored /\ w.copy[c].enable)
  <2>1. settings' = [x \in Stored |-> IF x = k THEN w.entry ELSE w.copy[x]]
    BY <1>1, <1>5, <1>6
  <2>2. Stored' = Stored
    BY <2>1 DEF Stored
  <2>3. settings'[k] = w.entry /\ \A c \in Stored : c # k => settings'[c] = w.copy[c]
    BY <1>6, <2>1, Zenon
  <2> QED BY <1>6, <2>2, <2>3, Zenon DEF Live
<1>10. /\ Metered' = Metered
       /\ \A c : c = k => (Off(c)' => ~w.entry.enable)
       /\ \A c : c # k => (Off(c)' <=> Off(c))
  <2>1. CASE k \in Metered
    <3>1. rows' = [rows EXCEPT ![k].enable = w.entry.enable, ![k].exp = w.entry.exp]
      BY <1>2, <2>1, Zenon
    <3>2. DOMAIN rows = Metered
      BY DEF Metered
    <3>3. /\ DOMAIN rows' = Metered
          /\ rows'[k] = [rows[k] EXCEPT !.enable = w.entry.enable, !.exp = w.entry.exp]
          /\ \A x \in Metered : x # k => rows'[x] = rows[x]
      BY <2>1, <3>1, <3>2, RowsUpdated, Zenon
    <3>4. rows[k] \in Row
      BY <1>0, <2>1 DEF Stocked
    <3> DEFINE b == w.entry.enable
    <3>5. rows'[k] = [enable |-> b, exp |-> w.entry.exp, used |-> rows[k].used,
                      all |-> rows[k].all]
      <4>1. rows'[k] = [rows[k] EXCEPT !.enable = w.entry.enable, !.exp = w.entry.exp]
        BY <3>3, Zenon
      <4> QED BY <3>4, <4>1, RowUpdated, Zenon
    <3>6. rows'[k].enable = b
      <4> HIDE DEF b
      <4> QED BY <3>5
    <3>7. Metered' = Metered
      BY <3>3 DEF Metered
    <3> QED BY <2>1, <3>3, <3>6, <3>7, Zenon DEF Off
  <2>2. CASE k \notin Metered
    <3>1. rows' = rows
      BY <1>2, <2>2, Zenon
    <3> QED BY <2>2, <3>1, RowsSame, Zenon DEF Off
  <2> QED BY <2>1, <2>2
<1>11. ASSUME ~need', NEW c \in served' \ gap', Cut(c) => EditAdmits(e, c), EditExpels(e, c)
       PROVE  c \in served \ gap /\ ~Cut(c)'
  <2>1. c \in served \ gap
    BY <1>1, <1>11, Zenon
  <2>2. ~ask[e]
    BY <1>1, <1>11, AnsweredAsks, Zenon
  <2>3. CASE c = k
    <3>1. w.entry.enable
      BY <1>8, <1>11, <2>2, <2>3, Zenon
    <3> QED BY <1>9, <1>10, <2>1, <2>3, <3>1, CutIs, Zenon
  <2>4. CASE c # k
    <3>1. Live(c) /\ ~Off(c)
      BY <1>7, <1>11, <2>4, CutIs, Zenon
    <3>2. c \in Stored /\ w.copy[c].enable
      BY <1>5, <3>1, Zenon DEF Live
    <3> QED BY <1>9, <1>10, <2>1, <2>4, <3>1, <3>2, CutIs, Zenon
  <2> QED BY <2>3, <2>4
<1>12. Metered' \subseteq Stored'
  BY <1>6, <1>9, <1>10, Zenon
<1>13. need => need'
  BY <1>1, AnsweredAsks
<1>14. dbLock \in {e, NoOne}
  BY <1>4
<1> QED BY <1>1, <1>11, <1>12, <1>13, <1>14, EndsCut, Zenon

\* A deletion saves the inbound without the client.
LEMMA DeleteSavesCut ==
    ASSUME Inv, CInv, OneEditor, NEW e \in Editors, DeleteSaves(e)
    PROVE  CInv'
<1>0. Control /\ Stocked /\ Locked /\ Kept
  BY DEF Inv, CInv
<1> DEFINE w == work[e]
           k == w.client
<1>1. /\ UNCHANGED <<served, gap, rows, dbLock>> /\ dbLock = NoOne /\ w.kind = "delete"
      /\ Goto(e, "save", "idle") /\ Answered(e)
      /\ settings' = Restrict(w.copy, DOMAIN w.copy \ {k})
  BY DEF DeleteSaves, core
<1>2. pc[e] = "save"
  BY <1>1 DEF Goto
<1>3. DOMAIN w.copy = Stored /\ \A c \in Stored : w.copy[c].enable <=> Live(c)
  BY <1>1, <1>2, CopySwitches
<1>4. k \notin Metered /\ Metered \subseteq Stored
  BY <1>0, <1>1, <1>2, DeletingHasNoRow DEF Kept
<1>5. \A c : EditAdmits(e, c) => ask[e]
  BY <1>1, <1>2 DEF EditAdmits
<1>6. EditExpels(e, k) => ask[e]
  BY <1>1, <1>2 DEF EditExpels, Removing
<1> HIDE DEF w, k
<1>7. Stored' = Stored \ {k} /\ \A c : Live(c)' <=> c \in Stored \ {k} /\ w.copy[c].enable
  BY <1>1, <1>3, LiveRestrict, Zenon
<1>8. Metered' = Metered /\ \A c : Off(c)' <=> Off(c)
  BY <1>1, RowsSame
<1>9. ASSUME ~need', NEW c \in served' \ gap', Cut(c) => EditAdmits(e, c), EditExpels(e, c)
      PROVE  c \in served \ gap /\ ~Cut(c)'
  <2>1. c \in served \ gap
    BY <1>1, <1>9, Zenon
  <2>2. ~ask[e]
    BY <1>1, <1>9, AnsweredAsks, Zenon
  <2>3. c # k
    BY <1>6, <1>9, <2>2, Zenon
  <2>4. Live(c) /\ ~Off(c)
    BY <1>5, <1>9, <2>2, CutIs, Zenon
  <2>5. c \in Stored /\ w.copy[c].enable
    BY <1>3, <2>4, Zenon DEF Live
  <2>6. Live(c)'
    BY <1>7, <2>3, <2>5
  <2> QED BY <1>8, <2>1, <2>4, <2>6, CutIs, Zenon
<1>10. Metered' \subseteq Stored'
  BY <1>4, <1>7, <1>8
<1>11. need => need'
  BY <1>1, AnsweredAsks
<1>12. dbLock \in {e, NoOne} /\ dbLock' = NoOne
  BY <1>1
<1> QED BY <1>1, <1>9, <1>10, <1>11, <1>12, EndsCut, Zenon

\* A reset saves the row, switched on.
LEMMA ResetSavesCut ==
    ASSUME Inv, CInv, OneEditor, NEW e \in Editors, ResetSaves(e)
    PROVE  CInv'
<1>0. Stocked /\ Kept
  BY DEF Inv, CInv
<1> DEFINE w == work[e]
           k == w.client
           r == [w.row EXCEPT !.used = 0, !.enable = TRUE]
<1>1. /\ UNCHANGED <<served, gap, settings, dbLock>> /\ dbLock = NoOne /\ w.kind = "reset"
      /\ Goto(e, "act", "idle") /\ Answered(e) /\ rows' = With(rows, k, r)
  BY DEF ResetSaves, core
<1>2. pc[e] = "act"
  BY <1>1 DEF Goto
<1>3. k \in Metered /\ w.row \in Row
  <2>1. Reading(w)
    BY <1>2 DEF Inv, Edits
  <2> QED BY <1>1, <2>1 DEF Reading
<1>4. r.enable
  <2>1. r = [enable |-> TRUE, exp |-> w.row.exp, used |-> 0, all |-> w.row.all]
    BY <1>3, RowReset, Zenon
  <2> HIDE DEF r
  <2> QED BY <2>1
<1>5. \A c : EditAdmits(e, c) => c = k /\ Live(c)
  BY <1>1, <1>2, Zenon DEF EditAdmits
<1> HIDE DEF w, k, r
<1>6. /\ Metered' = Metered \cup {k} /\ \A c : c = k => ~Off(c)'
      /\ \A c : c # k => (Off(c)' <=> Off(c))
  BY <1>0, <1>1, <1>4, OffWith, Zenon
<1>7. Stored' = Stored /\ \A c : Live(c)' <=> Live(c)
  BY <1>1, SettingsSame
<1>8. ASSUME NEW c \in served' \ gap', Cut(c) => EditAdmits(e, c)
      PROVE  c \in served \ gap /\ ~Cut(c)'
  <2>1. c \in served \ gap
    BY <1>1, <1>8, Zenon
  <2>2. Live(c)
    BY <1>5, <1>8, CutIs, Zenon
  <2>3. CASE c = k
    BY <1>6, <1>7, <2>1, <2>2, <2>3, CutIs, Zenon
  <2>4. CASE c # k
    BY <1>5, <1>6, <1>7, <1>8, <2>1, <2>2, <2>4, CutIs, Zenon
  <2> QED BY <2>3, <2>4
<1>9. Metered' \subseteq Stored'
  BY <1>0, <1>3, <1>6, <1>7, Zenon DEF Kept
<1>10. need => need'
  BY <1>1, AnsweredAsks
<1>11. dbLock \in {e, NoOne} /\ dbLock' = NoOne
  BY <1>1
<1> QED BY <1>1, <1>8, <1>9, <1>10, <1>11, EndsCut, Zenon

\* ResetAllClientTraffics switches every row on.
LEMMA ResetAllCut ==
    ASSUME Inv, CInv, OneEditor, NEW e \in Editors, ResetAllClientTraffics(e)
    PROVE  CInv'
<1>0. Flags /\ Stocked /\ Locked /\ Kept /\ CutOff
  BY DEF Inv, CInv
<1>1. /\ UNCHANGED <<settings, dbLock, served, gap, pc, work, ask>> /\ dbLock = NoOne
      /\ pc[e] = "idle" /\ need' \in {TRUE, need}
      /\ rows' = [c \in Metered |-> [rows[c] EXCEPT !.enable = TRUE, !.used = 0]]
  BY DEF ResetAllClientTraffics, core, calls, history
<1>2. Stored' = Stored /\ Metered' = Metered /\ \A c : Live(c)' <=> Live(c)
  BY <1>1, SettingsSame DEF Metered
<1>3. \A c : ~Off(c)'
  <2>1. ASSUME NEW c \in Metered PROVE rows'[c].enable
    <3>1. rows[c] \in Row
      BY <1>0, <2>1 DEF Stocked
    <3>2. rows'[c] = [rows[c] EXCEPT !.enable = TRUE, !.used = 0]
      BY <1>1, <2>1, Zenon
    <3>3. rows'[c] = [enable |-> TRUE, exp |-> rows[c].exp, used |-> 0, all |-> rows[c].all]
      BY <3>1, <3>2, RowsReset, Zenon
    <3> QED BY <3>3
  <2> QED BY <1>2, <2>1, Zenon DEF Off
<1>4. \A c : Cut(c)' => Cut(c)
  BY <1>2, <1>3, CutIs, Zenon
<1>5. pc[Job] # "tx" /\ pc'[Job] = pc[Job] /\ pc'[Restart] = pc[Restart] /\ pc'[e] = "idle"
  BY <1>0, <1>1, NoJob
<1>6. \A c : Settled(c) => Settled(c)'
  BY <1>1, <1>4, <1>5, EditIdle, SettledByEdit, Zenon
<1>7. need => need'
  BY <1>1, Zenon
<1>8. CutOff'
  BY <1>0, <1>1, <1>5, <1>6, <1>7, Zenon DEF CutOff
<1>9. Locked'
  BY <1>0, <1>1, Zenon DEF Locked
<1>10. Kept'
  <2>1. Metered' \subseteq Stored'
    BY <1>0, <1>2, Zenon DEF Kept
  <2> QED BY <1>5, <2>1, KeptEnds
<1> QED BY <1>8, <1>9, <1>10 DEF CInv

\* A purge commits: it has deleted the rows of all the clients that it deletes.
LEMMA DepleteCommitsCut ==
    ASSUME Inv, CInv, OneEditor, NEW e \in Editors, DepleteCommits(e)
    PROVE  CInv'
<1>0. Locked /\ Kept
  BY DEF Inv, CInv
<1> DEFINE w == work[e]
           purged == Exhausted(w.expired)
<1>1. /\ UNCHANGED <<served, dbLock>> /\ dbLock = NoOne /\ w.kind = "deplete"
      /\ Goto(e, "act", "idle") /\ Answered(e) /\ gap' = gap \cup (w.gone \cap served)
      /\ settings' = Restrict(w.copy, DOMAIN w.copy \ w.gone)
      /\ rows' = Restrict(rows, Metered \ purged)
  BY DEF DepleteCommits, core
<1>2. pc[e] = "act"
  BY <1>1 DEF Goto
<1>3. DOMAIN w.copy = Stored /\ \A c \in Stored : w.copy[c].enable <=> Live(c)
  BY <1>1, <1>2, CopySwitches
<1>4. w.gone \subseteq purged /\ Metered \subseteq Stored
  BY <1>0, <1>1, <1>2 DEF Kept, Current
<1>5. \A c : ~EditAdmits(e, c)
  BY <1>1 DEF EditAdmits
<1> HIDE DEF w, purged
<1>6. /\ Stored' = Stored \ w.gone
      /\ \A c : Live(c)' <=> c \in Stored \ w.gone /\ w.copy[c].enable
  BY <1>1, <1>3, LiveRestrict, Zenon
<1>7. Metered' = Metered \ purged /\ \A c : Off(c)' => Off(c)
  <2>1. Metered \ purged \subseteq Metered
    BY Zenon
  <2> QED BY <1>1, <2>1, OffRestrict, Zenon
<1>8. ASSUME NEW c \in served' \ gap', Cut(c) => EditAdmits(e, c)
      PROVE  c \in served \ gap /\ ~Cut(c)'
  <2>1. c \in served \ gap /\ c \notin w.gone
    BY <1>1, <1>8, Zenon
  <2>2. Live(c) /\ ~Off(c)
    BY <1>5, <1>8, CutIs, Zenon
  <2>3. c \in Stored /\ w.copy[c].enable
    BY <1>3, <2>2, Zenon DEF Live
  <2>4. Live(c)'
    BY <1>6, <2>1, <2>3
  <2> QED BY <1>7, <2>1, <2>2, <2>4, CutIs, Zenon
<1>9. Metered' \subseteq Stored'
  BY <1>4, <1>6, <1>7
<1>10. need => need'
  BY <1>1, AnsweredAsks
<1>11. dbLock \in {e, NoOne} /\ dbLock' = NoOne
  BY <1>1
<1> QED BY <1>1, <1>8, <1>9, <1>10, <1>11, EndsCut, Zenon

\* An edit fails; its client is in gap.
LEMMA EditFailsCut ==
    ASSUME Inv, CInv, OneEditor, NEW e \in Editors, EditFails(e)
    PROVE  CInv'
<1>0. Flags /\ Control /\ Stocked /\ Edits /\ Locked /\ Kept /\ CutOff
  BY DEF Inv, CInv
<1> DEFINE k == work[e].client
<1>1. /\ UNCHANGED <<settings, rows, dbLock, need, batch, listed>>
      /\ \E from : Goto(e, from, "idle")
      /\ \A c \in served' : c \in served \/ c = k
      /\ gap' = gap \cup {k} /\ ask' = [ask EXCEPT ![e] = FALSE]
      /\ work' = [work EXCEPT ![e] = Idle]
  BY Zenon DEF EditFails, db
<1>2. \A c : c # k => ~EditAdmits(e, c)
  BY Zenon DEF EditAdmits
<1> HIDE DEF k
<1>3. PICK from : Goto(e, from, "idle")
  BY <1>1
<1>4. "idle" \in Pcs
  BY DEF Pcs
<1>5. /\ pc[e] = from /\ pc'[e] = "idle" /\ pc'[Job] = pc[Job] /\ pc'[Restart] = pc[Restart]
      /\ e \in Procs /\ Job \in Procs /\ e # Job
  BY <1>0, <1>3, <1>4, EditMoves
<1>6. ask'[Job] <=> ask[Job]
  <2>1. ask \in [Procs -> BOOLEAN]
    BY <1>0, Zenon DEF Flags
  <2> QED BY <1>1, <1>5, <2>1, Zenon
<1>7. /\ Stored' = Stored /\ Metered' = Metered
      /\ \A c : (Live(c)' <=> Live(c)) /\ (Off(c)' <=> Off(c))
      /\ JobOn' = JobOn /\ JobOff' = JobOff
  BY <1>1, SettingsSame, RowsSame, JobSame
<1>8. \A c : (JobAdmits(c) => JobAdmits(c)') /\ (JobExpels(c) => JobExpels(c)')
  BY <1>5, <1>6, <1>7, Zenon DEF JobAdmits, JobExpels
<1>9. \A c : Cut(c)' <=> Cut(c)
  BY <1>7, CutIs, Zenon
<1>10. \A c : EditExpels(e, c)'
  BY <1>5, EditIdle
<1>11. \A c : c # k /\ Settled(c) => Settled(c)'
  BY <1>2, <1>8, <1>9, <1>10, SettledIs, Zenon
<1>12. \A c \in served' \ gap' : c \in served \ gap /\ c # k
  BY <1>1, Zenon
<1>13. CutOff'
  BY <1>0, <1>1, <1>5, <1>11, <1>12, Zenon DEF CutOff
<1>14. Locked'
  <2>1. \A f \in Editors : f # e => work'[f] = work[f]
    BY DEF OneEditor
  <2> QED BY <1>0, <1>1, <1>3, <1>4, <1>5, <2>1, LockMoves
<1>15. Kept'
  <2>1. Metered' \subseteq Stored'
    BY <1>0, <1>7, Zenon DEF Kept
  <2> QED BY <1>5, <2>1, KeptEnds
<1> QED BY <1>13, <1>14, <1>15 DEF CInv

\* A deletion deletes the row, and tells the core, or ends.
LEMMA DeleteStatCut ==
    ASSUME Inv, CInv, OneEditor, NEW e \in Editors, DeleteStat(e)
    PROVE  CInv'
<1>0. Flags /\ Control /\ Stocked /\ Edits /\ Locked /\ Kept /\ CutOff
  BY DEF Inv, CInv
<1> DEFINE w == work[e]
           k == w.client
           found == k \in Metered
           off == IF found /\ w.copy[k].enable /\ rows[k].enable THEN {k} ELSE {}
<1>1. /\ UNCHANGED <<settings, dbLock, need, batch, listed, gap>> /\ dbLock = NoOne
      /\ w.kind = "delete" /\ Goto(e, "act", IF found THEN "save" ELSE "idle")
      /\ rows' = Restrict(rows, Metered \ {k})
      /\ work' = IF found THEN work ELSE [work EXCEPT ![e] = Idle]
  BY DEF DeleteStat
<1>2. Alter(e, off, {})
  BY Zenon DEF DeleteStat
<1>3. /\ pc[e] = "act" /\ pc'[e] = (IF found THEN "save" ELSE "idle")
      /\ pc'[Job] = pc[Job] /\ pc'[Restart] = pc[Restart] /\ e \in Procs
  <2>1. (IF found THEN "save" ELSE "idle") \in Pcs
    BY DEF Pcs
  <2> QED BY <1>0, <1>1, <2>1, EditMoves
<1>4. \A c \in Stored : w.copy[c].enable <=> Live(c)
  BY <1>1, <1>3, CopySwitches
<1>5. pc[Job] # "tx" /\ \A c : Settled(c) => ~Cut(c)
  BY <1>0, <1>1, <1>3, SettledBefore
<1>6. Stored' = Stored /\ \A c : Live(c)' <=> Live(c)
  BY <1>1, SettingsSame
<1>7. \A c : c = k /\ found /\ Live(c) /\ ~Off(c) => c \in off
  BY <1>4, Zenon DEF Live, Off
<1>8. \A f \in Editors : f # e => work'[f] = work[f]
  BY DEF OneEditor
<1>9. found => pc'[e] = "save" /\ work'[e] = w
  BY <1>1, <1>3, Zenon
<1>10. ~found => pc'[e] = "idle"
  BY <1>3, Zenon
<1>11. \A c : c # k /\ found => EditExpels(e, c)'
  BY <1>9, Zenon DEF EditExpels
<1> HIDE DEF w, k, found, off
<1>12. Metered' = Metered \ {k} /\ \A c : Off(c)' => Off(c)
  <2>1. Metered \ {k} \subseteq Metered
    BY Zenon
  <2> QED BY <1>1, <2>1, OffRestrict, Zenon
<1>13. \A c : ~Cut(c) => ~Cut(c)'
  BY <1>6, <1>12, CutIs, Zenon
<1>14. \A c \in served' : c \in served /\ (c \in off => ask'[e])
  <2>1. PICK on : on = {} /\ Alter(e, off, on)
    BY <1>2, Zenon
  <2>2. \A c \in served' : (c \in served \/ c \in on) /\ (c \in off => c \in on \/ ask'[e])
    BY <1>0, <1>3, <2>1, AlterUsers, Zenon
  <2> QED BY <2>1, <2>2
<1>15. ASSUME \A c \in served \ gap : Settled(c), NEW c \in served' \ gap'
       PROVE  Settled(c)'
  <2>1. ~Cut(c)
    BY <1>1, <1>5, <1>14, <1>15, Zenon
  <2>2. EditExpels(e, c)'
    <3>1. CASE ~found
      BY <1>10, <3>1, EditIdle, Zenon
    <3>2. CASE found /\ c # k
      BY <1>11, <3>2, Zenon
    <3>3. CASE found /\ c = k
      <4>1. ask'[e]
        BY <1>7, <1>14, <1>15, <2>1, <3>3, CutIs, Zenon
      <4> QED BY <4>1, Zenon DEF EditExpels
    <3> QED BY <3>1, <3>2, <3>3
  <2> QED BY <1>3, <1>5, <1>13, <2>1, <2>2, SettledByEdit, Zenon
<1>16. CutOff'
  BY <1>0, <1>1, <1>3, <1>15, Zenon DEF CutOff
<1>17. Locked'
  <2>1. CASE found
    <3>1. Goto(e, "act", "save") /\ work'[e].kind = "delete"
      BY <1>1, <1>9, <2>1, Zenon
    <3>2. "save" \in Pcs
      BY DEF Pcs
    <3> QED BY <1>0, <1>1, <1>3, <1>8, <3>1, <3>2, LockMoves
  <2>2. CASE ~found
    <3>1. Goto(e, "act", "idle")
      BY <1>1, <2>2, Zenon
    <3>2. "idle" \in Pcs
      BY DEF Pcs
    <3> QED BY <1>0, <1>1, <1>3, <1>8, <3>1, <3>2, LockMoves
  <2> QED BY <2>1, <2>2
<1>18. Kept'
  <2>1. Metered' \subseteq Stored'
    BY <1>0, <1>6, <1>12, Zenon DEF Kept
  <2>2. CASE found
    <3>1. w.kind = "delete" /\ work'[e] = w
      BY <1>1, <1>9, <2>2
    <3>2. ASSUME NEW v, v.kind = "delete", \A c \in Stored : v.copy[c].enable <=> Live(c)
          PROVE  Current(v)'
      BY <1>6, <3>2 DEF Current
    <3>3. \A f \in Editors : f = e
      BY DEF OneEditor
    <3>4. \A f \in Editors : Current(work[f])'
      BY <1>4, <3>1, <3>2, <3>3, Zenon
    <3> QED BY <2>1, <3>4, Zenon DEF Kept
  <2>3. CASE ~found
    BY <1>10, <2>1, <2>3, KeptEnds
  <2> QED BY <2>2, <2>3
<1> QED BY <1>16, <1>17, <1>18 DEF CInv

\* Nobody is cut off when the core starts.
LEMMA InitCInv == Init => CInv
<1> SUFFICES ASSUME Init PROVE CInv
  OBVIOUS
<1>1. \A p \in Procs : pc[p] = "idle"
  BY DEF Init
<1>2. pc[Job] = "idle" /\ pc[Restart] = "idle" /\ \A e \in Editors : pc[e] = "idle"
  BY <1>1, ProcFacts
<1>3. PICK S \in SUBSET Clients \ {{}}, x \in Entries : x.enable /\ settings = [c \in S |-> x]
  BY DEF Init
<1>4. rows = [c \in Stored |-> [enable |-> settings[c].enable, exp |-> settings[c].exp,
                                used |-> 0, all |-> 0]] /\ served = Stored
  BY DEF Init
<1>5. Metered = Stored
  BY <1>4 DEF Metered
<1>6. \A c \in Stored : settings[c].enable
  BY <1>3, Zenon DEF Stored
<1>7. \A c \in Stored : rows[c].enable
  <2>1. ASSUME NEW c \in Stored PROVE rows[c].enable = settings[c].enable
    <3> DEFINE b == settings[c].enable
               t == settings[c].exp
    <3>1. rows[c] = [enable |-> b, exp |-> t, used |-> 0, all |-> 0]
      BY <1>4, <2>1, Zenon
    <3>2. rows[c].enable = b
      <4> HIDE DEF b, t
      <4> QED BY <3>1
    <3> QED BY <3>2
  <2> QED BY <1>6, <2>1, Zenon
<1>8. \A c \in served : ~Cut(c)
  BY <1>4, <1>5, <1>6, <1>7, Zenon DEF Cut
<1>9. CutOff
  BY <1>2, <1>8 DEF CutOff, Settled, JobExpels, EditExpels
<1>10. Locked /\ Kept
  BY <1>2, <1>5 DEF Locked, Kept
<1> QED BY <1>9, <1>10 DEF CInv

\* Every step keeps it.
LEMMA NextCInv ==
    ASSUME Inv, CInv, OneEditor, [Next]_vars
    PROVE  CInv'
<1>1. ASSUME NEW c \in Clients, Connect(c) \/ Use(c) \/ Expire(c) PROVE CInv'
  <2>1. CASE Connect(c) \/ Use(c)
    <3>1. UNCHANGED <<settings, rows, dbLock, served, gap, ask, work, need, pc, batch, listed>>
      BY <2>1 DEF Connect, Use, db, calls, history
    <3> QED BY <3>1, ViewStep
  <2> QED BY <1>1, <2>1, ExpireCut
<1>2. CASE GetXrayTraffic \/ AddTrafficFails(Job)
  <2>1. /\ UNCHANGED <<settings, rows, dbLock, served, gap, ask, work, need>>
        /\ Goto(Job, "idle", "add") \/ Goto(Job, "add", "idle")
    BY <1>2 DEF GetXrayTraffic, AddTrafficFails, db, core, history
  <2> QED BY <2>1, ViewStep
<1>3. CASE AddTrafficBegins(Job) \/ AddTrafficCommits(Job)
  BY <1>3, JobBeginsCut, JobCommitsCut
<1>4. CASE RestartBegins \/ RestartReads \/ AddTraffic(Restart)
  BY <1>4, RestartCut
<1>5. CASE RestartSkips \/ RestartStarts
  BY <1>5, RestartEndsCut
<1>6. ASSUME NEW e \in Editors, Edit(e) PROVE CInv'
  <2>1. CASE ReadInbound(e) \/ DepleteReads(e)
    BY <2>1, ReadsCut
  <2>2. CASE AddBegins(e) \/ UpdateBegins(e)
    BY <2>2, EditBeginsCut
  <2>3. CASE AddCommits(e)
    BY <2>3, AddCommitsCut
  <2>4. CASE UpdateCommits(e)
    BY <2>4, UpdateCommitsCut
  <2>5. CASE DeleteStat(e)
    BY <2>5, DeleteStatCut
  <2>6. CASE DeleteSaves(e)
    BY <2>6, DeleteSavesCut
  <2>7. CASE ResetReads(e)
    BY <2>7, ResetReadsCut
  <2>8. CASE ResetSaves(e)
    BY <2>8, ResetSavesCut
  <2>9. CASE ResetAllClientTraffics(e)
    BY <2>9, ResetAllCut
  <2>10. CASE DepleteCommits(e)
    BY <2>10, DepleteCommitsCut
  <2>11. CASE EditFails(e)
    BY <2>11, EditFailsCut
  <2> QED BY <1>6, <2>1, <2>2, <2>3, <2>4, <2>5, <2>6, <2>7, <2>8, <2>9, <2>10, <2>11, Zenon DEF Edit
<1>7. CASE UNCHANGED vars
  <2>1. UNCHANGED <<settings, rows, dbLock, served, gap, ask, work, need, pc, batch, listed>>
    BY <1>7 DEF vars, db, core, calls, history
  <2> QED BY <2>1, ViewStep
<1> QED BY <1>1, <1>2, <1>3, <1>4, <1>5, <1>6, <1>7, Zenon DEF Next, AddTraffic

\* Whatever the job, renewals, resets, restarts and one administrator do, for any number
\* of clients, no client that is deleted or switched off stays a user of the core when
\* the calls have ended and no restart is asked for, except where a restart, a renewal,
\* a purge or a failed save has left it there (inbound.go:1415-1459).
THEOREM DisabledAreCutOff == ASSUME OneEditor PROVE Spec => []DisabledIsCutOff
<1>1. Init => Inv /\ CInv
  BY InitInv, InitCInv
<1>2. (Inv /\ CInv) /\ [Next]_vars => (Inv /\ CInv)'
  BY NextInv, NextCInv
<1>3. Inv /\ CInv => DisabledIsCutOff
  BY CInvImplies
<1> QED BY <1>1, <1>2, <1>3, PTL DEF Spec
=============================================================================
