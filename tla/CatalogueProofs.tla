-------------------------- MODULE CatalogueProofs --------------------------
(***************************************************************************)
(* What holds of Catalogue for any number of requests, ids, names,         *)
(* managers, trips and users.                                              *)
(***************************************************************************)
EXTENDS Catalogue, TLAPS

StartPc == {"destination", "employee", "trip"}
Writing == {"insert", "reactivate"}

(* A handler of startTrip between the read of the driver and its insert.   *)
Starting(h) == h.pc \in StartPc \/ (h.pc \in Writing /\ h.starting)

(* What a handler needs for the call it waits for.                         *)
Equipped(h) ==
  /\ h.pc \in StartPc => h.starting
  /\ h.pc = "insert" =>
       /\ h.kind \in Kinds /\ h.name \in Names
       /\ h.kind = "occupation" => h.scope = NULL
  /\ h.pc \in Writing /\ h.starting =>
       /\ h.kind \in {"destination", "employee"}
       /\ h.kind = "employee" => h.destination \in Ids
  /\ h.pc \in {"destination", "employee"} \cup Writing => h.employee = NULL
  /\ h.pc \in {"employee", "trip", "edit"} => h.destination \in Ids
  /\ h.pc \in {"trip", "edit"} => h.employee \in Ids
  /\ h.pc = "edit" => h.trip \in Trips
  /\ h.pc \in {"reactivate", "look", "write", "delete", "register"} =>
       h.id \in Ids

(* The entries a handler holds are of the kind it read, or gone.           *)
HeldOfKind(h) ==
  /\ h.destination # NULL =>
       entry[h.destination].kind \in {"destination", "gone"}
  /\ h.employee # NULL => entry[h.employee].kind \in {"employee", "gone"}
  /\ h.pc \in {"reactivate", "look", "write"} => entry[h.id].kind # NULL
  /\ h.pc = "reactivate" /\ h.starting => entry[h.id].kind \in {h.kind, "gone"}
  /\ h.pc = "register" => entry[h.id].kind \in {"occupation", "gone"}
  /\ h.pc \in {"look", "write"} /\ entry[h.id].kind = "occupation" =>
       h.manager = NULL

(* A name that was looked for is only in entries written since.            *)
LookLasts(h) ==
  /\ h.pc = "insert" => Found(h.kind, h.scope, h.name) \subseteq h.missed
  /\ h.pc = "write" /\ h.name # NULL /\ Exists(h.id) =>
       Found(entry[h.id].kind, h.scope, h.name) \subseteq h.missed \cup {h.id}

(* What a start has chosen is as it was read, unless it was written since. *)
ChoiceLasts(h) ==
  Starting(h) =>
    /\ \A i \in {h.destination, h.employee} \ (h.missed \cup {NULL}) :
         Exists(i) /\ entry[i].active /\ entry[i].manager = h.scope
    /\ h.pc = "reactivate" /\ h.id \notin h.missed =>
         Exists(h.id) /\ entry[h.id].manager = h.scope

Sound(h) == HeldOfKind(h) /\ LookLasts(h) /\ ChoiceLasts(h)

CatalogueInv ==
  /\ TypeOK
  /\ \A r \in Requests : Equipped(req[r])
  /\ \A r \in Requests : Sound(req[r])
  /\ DuplicatesExplained

-----------------------------------------------------------------------------
(* Handlers                                                                *)

LEMMA IdleTyped == Idle \in Handler
BY DEF Idle, Handler, Pc, Optional

LEMMA IdleSound == Equipped(Idle) /\ Sound(Idle) /\ Sound(Idle)'
BY DEF Idle, Equipped, Sound, HeldOfKind, LookLasts, ChoiceLasts, Starting,
       StartPc, Writing

(* Replacing one handler leaves the others as they are.                    *)
LEMMA BecomeStep ==
  ASSUME NEW r \in Requests, NEW h \in Handler,
         req \in [Requests -> Handler], Become(r, h)
  PROVE  /\ req' \in [Requests -> Handler]
         /\ req'[r] = h
         /\ \A q \in Requests \ {r} : req'[q] = req[q]
BY DEF Become

(* What is sound depends on the entries alone.                             *)
LEMMA SoundKept ==
  ASSUME NEW h \in Handler, Sound(h), UNCHANGED entry
  PROVE  Sound(h)'
BY DEF Sound, HeldOfKind, LookLasts, ChoiceLasts, Found, OfKind, Exists

(* A step that writes no entry keeps the invariant if the handler it moves *)
(* on is sound and the trips and users it leaves keep their references.    *)
LEMMA HandlerStep ==
  ASSUME CatalogueInv, NEW r \in Requests, NEW h \in Handler, Become(r, h),
         Equipped(h), Sound(h)', UNCHANGED <<entry, unchecked>>,
         trip' \in [Trips -> Trip], user' \in [Users -> Optional(Ids)],
         ReferencesHold'
  PROVE  CatalogueInv'
<1> USE DEF CatalogueInv
<1>1. /\ req' \in [Requests -> Handler]
      /\ req'[r] = h
      /\ \A q \in Requests \ {r} : req'[q] = req[q]
  BY BecomeStep DEF TypeOK
<1>2. TypeOK'
  BY <1>1 DEF TypeOK
<1>3. \A q \in Requests : Equipped(req'[q])
  BY <1>1
<1>4. (\A q \in Requests : Sound(req[q]))'
  BY <1>1, SoundKept DEF TypeOK
<1>5. DuplicatesExplained'
  BY DEF DuplicatesExplained, Exists
<1> QED
  BY <1>2, <1>3, <1>4, <1>5

LEMMA QuietStep ==
  ASSUME CatalogueInv, NEW r \in Requests, NEW h \in Handler, Become(r, h),
         Equipped(h), Sound(h)', UNCHANGED <<entry, trip, user, unchecked>>
  PROVE  CatalogueInv'
<1>1. ReferencesHold'
  BY DEF CatalogueInv, TypeOK, ReferencesHold, TripExists, OfKind
<1> QED
  BY <1>1, HandlerStep DEF CatalogueInv, TypeOK

LEMMA FailStep ==
  ASSUME CatalogueInv, NEW r \in Requests, Return(r),
         UNCHANGED <<entry, trip, user, unchecked>>
  PROVE  CatalogueInv'
BY IdleTyped, IdleSound, QuietStep DEF Return

-----------------------------------------------------------------------------
(* A write of an entry                                                     *)

LEMMA MatchesSymmetric ==
  ASSUME NEW kind, NEW n, NEW m
  PROVE  Matches(kind, n, m) <=> Matches(kind, m, n)
BY DEF Matches

(* The other handlers stay as they are, but for the entry they missed.     *)
LEMMA WritingStep ==
  ASSUME NEW r \in Requests, NEW h \in Handler, NEW i \in Ids, NEW kind,
         req \in [Requests -> Handler], BecomeWriting(r, h, i, kind)
  PROVE  /\ req' \in [Requests -> Handler]
         /\ req'[r] = h
         /\ \A q \in Requests \ {r} :
              req'[q] = IF ReliesOn(req[q], i, kind)
                        THEN [req[q] EXCEPT !.missed = @ \cup {i}]
                        ELSE req[q]
<1>1. \A q \in Requests : [req[q] EXCEPT !.missed = @ \cup {i}] \in Handler
  BY DEF Handler
<1> QED
  BY <1>1 DEF BecomeWriting

(* What a handler needs says nothing of what it missed.                    *)
LEMMA MissedFree ==
  ASSUME NEW h \in Handler, NEW i \in Ids, Equipped(h)
  PROVE  Equipped([h EXCEPT !.missed = @ \cup {i}])
BY DEF Equipped, Handler

(* Entry i is written with e: what handler h read is as it was, or it is   *)
(* among what h missed.                                                    *)
LEMMA SoundAfterWrite ==
  ASSUME NEW h \in Handler, NEW i \in Ids, NEW e \in Entry,
         entry \in [Ids -> Entry], entry' = [entry EXCEPT ![i] = e],
         e.kind # NULL,
         e.kind \in {entry[i].kind, "gone"} \/ entry[i].kind = NULL,
         Equipped(h), Sound(h), ~ReliesOn(h, i, e.kind)
  PROVE  Sound(h)'
<1> USE DEF Sound
<1>1. \A j \in Ids : entry'[j] = IF j = i THEN e ELSE entry[j]
  OBVIOUS
<1>2. i # h.destination /\ i # h.employee
  BY DEF ReliesOn
<1>3. h \in Handler /\ h.destination \in Optional(Ids)
      /\ h.employee \in Optional(Ids)
  BY DEF Handler
<1>4. HeldOfKind(h)'
  BY <1>1, <1>2, <1>3, NoKind
     DEF HeldOfKind, Equipped, ReliesOn, Optional, Kinds
<1>5. LookLasts(h)'
  BY <1>1, NoKind
     DEF LookLasts, HeldOfKind, Equipped, ReliesOn, Found, OfKind, Exists, Kinds
<1>6. ChoiceLasts(h)'
  BY <1>1, <1>2, <1>3
     DEF ChoiceLasts, Equipped, ReliesOn, Optional, Exists, Starting
<1> QED
  BY <1>4, <1>5, <1>6

LEMMA SoundMissed ==
  ASSUME NEW h \in Handler, NEW i \in Ids, NEW e \in Entry,
         entry \in [Ids -> Entry], entry' = [entry EXCEPT ![i] = e],
         e.kind # NULL,
         e.kind \in {entry[i].kind, "gone"} \/ entry[i].kind = NULL,
         Equipped(h), Sound(h),
         NEW g \in Handler, g = [h EXCEPT !.missed = @ \cup {i}]
  PROVE  Sound(g)'
<1> USE DEF Sound
<1>1. \A j \in Ids : entry'[j] = IF j = i THEN e ELSE entry[j]
  OBVIOUS
<1>2. /\ g.pc = h.pc /\ g.starting = h.starting /\ g.kind = h.kind
      /\ g.id = h.id /\ g.name = h.name /\ g.scope = h.scope
      /\ g.manager = h.manager /\ g.destination = h.destination
      /\ g.employee = h.employee /\ g.missed = h.missed \cup {i}
  BY DEF Handler
<1>3. h.destination \in Optional(Ids) /\ h.employee \in Optional(Ids)
  BY DEF Handler
<1>4. HeldOfKind(g)'
  BY <1>1, <1>2, <1>3, NoKind DEF HeldOfKind, Equipped, Optional, Kinds
<1>5. LookLasts(g)'
  BY <1>1, <1>2, NoKind
     DEF LookLasts, HeldOfKind, Equipped, Found, OfKind, Exists, Kinds
<1>6. ChoiceLasts(g)'
  BY <1>1, <1>2, <1>3
     DEF ChoiceLasts, Equipped, Optional, Exists, Starting
<1> QED
  BY <1>4, <1>5, <1>6

(* Entry i is written with e by handler r, which becomes h.                *)
LEMMA OthersStep ==
  ASSUME CatalogueInv, NEW r \in Requests, NEW h \in Handler,
         NEW i \in Ids, NEW e \in Entry,
         entry' = [entry EXCEPT ![i] = e],
         e.kind # NULL,
         e.kind \in {entry[i].kind, "gone"} \/ entry[i].kind = NULL,
         BecomeWriting(r, h, i, e.kind), Equipped(h), Sound(h)'
  PROVE  /\ req' \in [Requests -> Handler]
         /\ (\A q \in Requests : Equipped(req[q]))'
         /\ (\A q \in Requests : Sound(req[q]))'
<1> USE DEF CatalogueInv
<1>0. entry \in [Ids -> Entry]
  BY DEF TypeOK
<1>1. /\ req' \in [Requests -> Handler]
      /\ req'[r] = h
      /\ \A q \in Requests \ {r} :
           req'[q] = IF ReliesOn(req[q], i, e.kind)
                     THEN [req[q] EXCEPT !.missed = @ \cup {i}]
                     ELSE req[q]
  BY WritingStep DEF TypeOK
<1>2. (\A q \in Requests : Equipped(req[q]))'
  BY <1>1, MissedFree DEF TypeOK
<1>3. ASSUME NEW q \in Requests \ {r}, ~ReliesOn(req[q], i, e.kind)
      PROVE  Sound(req[q])'
  <2>1. PICK g \in Handler : g = req[q]
    BY DEF TypeOK
  <2>2. Equipped(g) /\ Sound(g) /\ ~ReliesOn(g, i, e.kind)
    BY <1>3, <2>1
  <2>3. Sound(g)'
    BY <1>0, <2>2, SoundAfterWrite
  <2> QED
    BY <1>1, <1>3, <2>1, <2>3
<1>4. ASSUME NEW q \in Requests \ {r}, ReliesOn(req[q], i, e.kind)
      PROVE  Sound(req[q])'
  <2>1. PICK f \in Handler : f = req[q]
    BY DEF TypeOK
  <2>2. PICK g \in Handler : g = [f EXCEPT !.missed = @ \cup {i}]
    BY <2>1, <1>1, <1>4
  <2>3. Equipped(f) /\ Sound(f)
    BY <2>1
  <2>4. Sound(g)'
    BY <1>0, <2>2, <2>3, SoundMissed
  <2> QED
    BY <1>1, <1>4, <2>1, <2>2, <2>4
<1>5. ASSUME NEW q \in Requests PROVE Sound(req[q])'
  BY <1>1, <1>3, <1>4
<1> QED
  BY <1>1, <1>2, <1>5

RepeatsUnchecked(i, e) ==
  /\ \A p \in unchecked : i \notin p => p \in unchecked'
  /\ \A j \in Ids \ {i} :
       /\ e.kind \in Kinds
       /\ entry[j].kind = e.kind
       /\ entry[j].manager = e.manager
       /\ Matches(e.kind, e.name, entry[j].name)
       => /\ {i, j} \in unchecked'
          /\ e.kind = "destination" => e.name # entry[j].name

(* A duplicate is explained if what a write of i drops involves i, and what*)
(* it leaves unchecked has every entry that e now repeats.                 *)
LEMMA DuplicatesStep ==
  ASSUME CatalogueInv, NEW i \in Ids, NEW e \in Entry,
         entry' = [entry EXCEPT ![i] = e],
         RepeatsUnchecked(i, e)
  PROVE  DuplicatesExplained'
<1> SUFFICES ASSUME NEW j \in Ids, NEW k \in Ids, j # k,
                    Exists(j)', entry'[j].kind = entry'[k].kind,
                    entry'[j].manager = entry'[k].manager,
                    Matches(entry'[j].kind, entry'[j].name, entry'[k].name)
             PROVE  /\ {j, k} \in unchecked'
                    /\ entry'[j].kind = "destination" =>
                         entry'[j].name # entry'[k].name
  BY DEF DuplicatesExplained, Matches
<1>1. \A l \in Ids : entry'[l] = IF l = i THEN e ELSE entry[l]
  BY DEF CatalogueInv, TypeOK
<1>2. CASE j = i
  BY <1>1, <1>2 DEF Exists, RepeatsUnchecked
<1>3. CASE k = i
  <2>1. Matches(e.kind, e.name, entry[j].name)
    BY <1>1, <1>3, MatchesSymmetric
  <2>2. {i, j} = {j, k}
    BY <1>3
  <2> QED
    BY <1>1, <1>3, <2>1, <2>2 DEF Exists, RepeatsUnchecked
<1>4. CASE j # i /\ k # i
  BY <1>1, <1>4
     DEF CatalogueInv, DuplicatesExplained, Exists, RepeatsUnchecked
<1> QED
  BY <1>2, <1>3, <1>4

UncheckedTyped == unchecked \subseteq {{i, j} : i, j \in Ids}

LEMMA RecheckStep ==
  ASSUME NEW i \in Ids, NEW others \in SUBSET Ids, Recheck(i, others),
         UncheckedTyped
  PROVE  /\ UncheckedTyped'
         /\ \A p \in unchecked : i \notin p => p \in unchecked'
         /\ \A j \in others \ {i} : {i, j} \in unchecked'
BY DEF Recheck, UncheckedTyped

(* Everything names entries of its kind still, if i keeps its kind or      *)
(* nothing named it.                                                       *)
LEMMA ReferencesStep ==
  ASSUME CatalogueInv, NEW i \in Ids, NEW e \in Entry,
         entry' = [entry EXCEPT ![i] = e],
         UNCHANGED trip,
         user' \in [Users -> Optional(Ids)],
         \A u \in Users : user'[u] \in {user[u], NULL},
         \/ e.kind = entry[i].kind
         \/ entry[i].kind = NULL
         \/ TripsOf(i) = {} /\ \A u \in Users : user'[u] # i
  PROVE  ReferencesHold'
<1> USE DEF CatalogueInv, TypeOK, ReferencesHold
<1>1. \A l \in Ids : entry'[l] = IF l = i THEN e ELSE entry[l]
  OBVIOUS
<1>2. ASSUME NEW t \in Trips, TripExists(t)'
      PROVE  /\ trip[t].destination \in OfKind("destination")'
             /\ trip[t].employee \in OfKind("employee")'
  BY <1>1, <1>2, NoKind DEF TripExists, OfKind, TripsOf, Kinds
<1>3. ASSUME NEW u \in Users, user'[u] # NULL
      PROVE  user'[u] \in OfKind("occupation")'
  BY <1>1, <1>3, NoKind DEF OfKind, Kinds
<1> QED
  BY <1>2, <1>3 DEF TripExists

(* What entry i may become: it keeps its kind, or begins, or ends with no  *)
(* trip and no user naming it.                                             *)
Follows(i, e) ==
  /\ e.kind # NULL
  /\ e.kind = "occupation" => e.manager = NULL
  /\ e.kind \in {entry[i].kind, "gone"} \/ entry[i].kind = NULL
  /\ \/ e.kind = entry[i].kind
     \/ entry[i].kind = NULL
     \/ TripsOf(i) = {} /\ \A u \in Users : user'[u] # i

UsersLeft == user' \in [Users -> Optional(Ids)]
               /\ \A u \in Users : user'[u] \in {user[u], NULL}

(* What every write of an entry keeps.                                     *)
LEMMA EntryStep ==
  ASSUME CatalogueInv, NEW r \in Requests, NEW h \in Handler,
         NEW i \in Ids, NEW e \in Entry,
         entry' = [entry EXCEPT ![i] = e], Follows(i, e),
         BecomeWriting(r, h, i, e.kind), Equipped(h), Sound(h)',
         UNCHANGED trip, UsersLeft, UncheckedTyped', DuplicatesExplained'
  PROVE  CatalogueInv'
<1>1. /\ req' \in [Requests -> Handler]
      /\ (\A q \in Requests : Equipped(req[q]))'
      /\ (\A q \in Requests : Sound(req[q]))'
  BY OthersStep DEF Follows
<1>2. ReferencesHold'
  BY ReferencesStep DEF Follows, UsersLeft
<1>3. TypeOK'
  <2>1. entry' \in [Ids -> Entry] /\ trip' \in [Trips -> Trip]
    BY DEF CatalogueInv, TypeOK
  <2>2. \A j \in Ids :
          entry'[j].kind = "occupation" => entry'[j].manager = NULL
    BY DEF CatalogueInv, TypeOK, Follows
  <2> QED
    BY <1>1, <1>2, <2>1, <2>2 DEF TypeOK, UsersLeft, UncheckedTyped
<1> QED
  BY <1>1, <1>3 DEF CatalogueInv

-----------------------------------------------------------------------------
(* Choices of a start                                                      *)

ChosenFrom(g, h, kind, i) ==
  /\ g.starting = h.starting /\ g.scope = h.scope
  /\ g.missed = h.missed \cap {h.destination, i}
  /\ kind = "destination" =>
       g.pc = "employee" /\ g.destination = i /\ g.employee = h.employee
  /\ kind = "employee" =>
       g.pc = "trip" /\ g.destination = h.destination /\ g.employee = i

LEMMA ChosenTyped ==
  ASSUME NEW h \in Handler, NEW kind \in {"destination", "employee"},
         NEW i \in Ids
  PROVE  /\ Chosen(h, kind, i) \in Handler
         /\ ChosenFrom(Chosen(h, kind, i), h, kind, i)
<1> DEFINE n == [h EXCEPT !.kind = NULL, !.id = NULL, !.name = NULL,
                          !.missed = @ \cap {h.destination, i}]
           d == [n EXCEPT !.pc = "employee", !.destination = i]
           e == [n EXCEPT !.pc = "trip", !.employee = i]
<1>1. Chosen(h, kind, i) = IF kind = "destination" THEN d ELSE e
  BY DEF Chosen
<1>2. /\ n \in Handler /\ n.starting = h.starting /\ n.scope = h.scope
      /\ n.missed = h.missed \cap {h.destination, i}
      /\ n.destination = h.destination /\ n.employee = h.employee
  BY DEF Handler, Optional
<1> HIDE DEF n
<1>3. /\ d \in Handler
      /\ d.starting = n.starting /\ d.scope = n.scope /\ d.missed = n.missed
      /\ d.pc = "employee" /\ d.destination = i /\ d.employee = n.employee
  <2>1. n \in Handler /\ "employee" \in Pc /\ i \in Optional(Ids)
    BY <1>2 DEF Pc, Optional
  <2>2. d \in Handler
    BY <2>1 DEF Handler
  <2>3. d.starting = n.starting /\ d.scope = n.scope /\ d.missed = n.missed
    BY <2>1 DEF Handler
  <2>4. d.pc = "employee" /\ d.destination = i /\ d.employee = n.employee
    BY <2>1 DEF Handler
  <2> QED
    BY <2>2, <2>3, <2>4
<1>4. /\ e \in Handler
      /\ e.starting = n.starting /\ e.scope = n.scope /\ e.missed = n.missed
      /\ e.pc = "trip" /\ e.destination = n.destination /\ e.employee = i
  <2>1. n \in Handler /\ "trip" \in Pc /\ i \in Optional(Ids)
    BY <1>2 DEF Pc, Optional
  <2>2. e \in Handler
    BY <2>1 DEF Handler
  <2>3. e.starting = n.starting /\ e.scope = n.scope /\ e.missed = n.missed
    BY <2>1 DEF Handler
  <2>4. e.pc = "trip" /\ e.destination = n.destination /\ e.employee = i
    BY <2>1 DEF Handler
  <2> QED
    BY <2>2, <2>3, <2>4
<1> HIDE DEF d, e
<1>5. CASE kind = "destination"
  BY <1>1, <1>2, <1>3, <1>5 DEF ChosenFrom
<1>6. CASE kind = "employee"
  BY <1>1, <1>2, <1>4, <1>6 DEF ChosenFrom
<1> QED
  BY <1>5, <1>6

(* A start goes on soundly with entry i if what it holds from then on is   *)
(* as it was read, unless it was written since.                            *)
LEMMA ChosenReady ==
  ASSUME NEW h \in Handler, NEW kind \in {"destination", "employee"},
         NEW i \in Ids, h.starting, h.employee = NULL,
         kind = "employee" =>
           /\ h.destination \in Ids
           /\ entry'[h.destination].kind \in {"destination", "gone"}
           /\ h.destination \notin h.missed \cup {i} =>
                /\ entry'[h.destination].kind \in Kinds
                /\ entry'[h.destination].active
                /\ entry'[h.destination].manager = h.scope,
         entry'[i].kind \in {kind, "gone"},
         i \notin h.missed =>
           /\ entry'[i].kind \in Kinds
           /\ entry'[i].active
           /\ entry'[i].manager = h.scope
  PROVE  /\ Chosen(h, kind, i) \in Handler
         /\ Equipped(Chosen(h, kind, i))
         /\ Sound(Chosen(h, kind, i))'
<1>1. PICK g \in Handler : g = Chosen(h, kind, i) /\ ChosenFrom(g, h, kind, i)
  BY ChosenTyped
<1>2. i # NULL
  BY CatalogueConstants
<1>3. Equipped(g)
  BY <1>1 DEF ChosenFrom, Equipped, StartPc, Writing
<1>4. HeldOfKind(g)'
  BY <1>1, <1>2 DEF ChosenFrom, HeldOfKind
<1>5. LookLasts(g)'
  BY <1>1 DEF ChosenFrom, LookLasts
<1>6. ChoiceLasts(g)'
  BY <1>1, <1>2 DEF ChosenFrom, ChoiceLasts, Exists
<1> QED
  BY <1>1, <1>3, <1>4, <1>5, <1>6 DEF Sound

-----------------------------------------------------------------------------
(* create, and the start and the edit of a trip                            *)

LEMMA CreateLookStep ==
  ASSUME CatalogueInv, NEW r \in Requests, NEW kind \in Kinds,
         NEW name \in Names, NEW manager \in Optional(Managers),
         CreateLook(r, kind, name, manager)
  PROVE  CatalogueInv'
<1>1. /\ manager \in ListsOf(kind)
      /\ UNCHANGED <<entry, trip, user, unchecked>>
  BY DEF CreateLook
<1>2. CASE /\ Found(kind, manager, name) = {}
           /\ Become(r, [Idle EXCEPT !.kind = kind, !.name = name,
                                     !.scope = manager, !.pc = "insert"])
  <2> DEFINE h == [Idle EXCEPT !.kind = kind, !.name = name,
                               !.scope = manager, !.pc = "insert"]
  <2>1. /\ h \in Handler /\ Become(r, h)
        /\ h.pc = "insert" /\ ~h.starting /\ h.kind = kind /\ h.name = name
        /\ h.scope = manager /\ h.destination = NULL /\ h.employee = NULL
    BY <1>2 DEF Idle, Handler, Pc, Optional
  <2> HIDE DEF h
  <2>2. Equipped(h)
    BY <1>1, <2>1 DEF Equipped, StartPc, Writing, ListsOf
  <2>3. Sound(h)
    BY <1>2, <2>1
       DEF Sound, HeldOfKind, LookLasts, ChoiceLasts, Starting, StartPc, Writing
  <2> QED
    BY <1>1, <2>1, <2>2, <2>3, SoundKept, QuietStep
<1>3. ASSUME NEW i \in Found(kind, manager, name),
             Become(r, [Idle EXCEPT !.pc = "reactivate", !.id = i])
      PROVE  CatalogueInv'
  <2> DEFINE h == [Idle EXCEPT !.pc = "reactivate", !.id = i]
  <2>1. /\ h \in Handler /\ Become(r, h)
        /\ h.pc = "reactivate" /\ ~h.starting /\ h.id = i
        /\ h.destination = NULL /\ h.employee = NULL
        /\ i \in Ids /\ entry[i].kind = kind
    BY <1>3 DEF Idle, Handler, Pc, Optional, Found, OfKind
  <2> HIDE DEF h
  <2>2. Equipped(h)
    BY <2>1 DEF Equipped, StartPc, Writing
  <2>3. Sound(h)
    BY <2>1, NoKind
       DEF Sound, HeldOfKind, LookLasts, ChoiceLasts, Starting, StartPc, Writing
  <2> QED
    BY <1>1, <2>1, <2>2, <2>3, SoundKept, QuietStep
<1> QED
  BY <1>2, <1>3 DEF CreateLook

LEMMA StartReadStep ==
  ASSUME CatalogueInv, NEW r \in Requests, NEW manager \in Managers,
         StartRead(r, manager)
  PROVE  CatalogueInv'
<1> DEFINE h == [Idle EXCEPT !.pc = "destination", !.starting = TRUE,
                             !.scope = manager]
<1>1. /\ h \in Handler /\ Become(r, h) /\ h.pc = "destination" /\ h.starting
      /\ h.destination = NULL /\ h.employee = NULL
      /\ UNCHANGED <<entry, trip, user, unchecked>>
  BY DEF StartRead, Idle, Handler, Pc, Optional
<1> HIDE DEF h
<1>2. Equipped(h)
  BY <1>1 DEF Equipped, StartPc, Writing
<1>3. Sound(h)
  BY <1>1 DEF Sound, HeldOfKind, LookLasts, ChoiceLasts
<1> QED
  BY <1>1, <1>2, <1>3, SoundKept, QuietStep

(* The entry a start goes on with, without a write.                        *)
LEMMA ChooseStep ==
  ASSUME CatalogueInv, NEW r \in Requests,
         NEW kind \in {"destination", "employee"}, NEW i \in Ids,
         At(r, kind), entry[i].kind = kind, entry[i].active,
         entry[i].manager = req[r].scope,
         Become(r, Chosen(req[r], kind, i)),
         UNCHANGED <<entry, trip, user, unchecked>>
  PROVE  CatalogueInv'
<1>1. /\ req[r] \in Handler /\ Equipped(req[r]) /\ Sound(req[r])
  BY DEF CatalogueInv, TypeOK
<1>2. req[r].starting /\ req[r].employee = NULL
  BY <1>1 DEF Equipped, StartPc, At
<1>3. kind = "employee" =>
        /\ req[r].destination \in Ids
        /\ entry[req[r].destination].kind \in {"destination", "gone"}
        /\ req[r].destination \notin req[r].missed =>
             /\ Exists(req[r].destination)
             /\ entry[req[r].destination].active
             /\ entry[req[r].destination].manager = req[r].scope
  BY <1>1, CatalogueConstants
     DEF Equipped, At, Sound, HeldOfKind, ChoiceLasts, Starting, StartPc
<1>4. PICK h \in Handler : h = req[r]
  BY <1>1
<1>5. PICK g \in Handler : g = Chosen(h, kind, i) /\ Equipped(g) /\ Sound(g)'
  BY <1>2, <1>3, <1>4, ChosenReady DEF Exists, Kinds
<1> QED
  BY <1>4, <1>5, QuietStep

LEMMA StartCustomStep ==
  ASSUME CatalogueInv, NEW r \in Requests,
         NEW kind \in {"destination", "employee"}, NEW name \in Names,
         StartCustom(r, kind, name)
  PROVE  CatalogueInv'
<1> DEFINE found == Found(kind, req[r].scope, name)
<1>1. At(r, kind) /\ UNCHANGED <<entry, trip, user, unchecked>>
  BY DEF StartCustom
<1>2. \/ /\ found = {}
         /\ Become(r, [req[r] EXCEPT !.pc = "insert", !.kind = kind,
                                     !.name = name])
      \/ \E i \in found :
           \/ entry[i].active /\ Become(r, Chosen(req[r], kind, i))
           \/ Become(r, [req[r] EXCEPT !.pc = "reactivate", !.kind = kind,
                                       !.id = i])
  BY DEF StartCustom
<1>3. req[r] \in Handler /\ Equipped(req[r]) /\ Sound(req[r])
  BY DEF CatalogueInv, TypeOK
<1>4. /\ req[r].starting /\ req[r].employee = NULL
      /\ kind = "employee" => req[r].destination \in Ids
  BY <1>1, <1>3 DEF Equipped, StartPc, At
<1>5. \A i \in found :
        i \in Ids /\ entry[i].kind = kind /\ entry[i].manager = req[r].scope
  BY DEF Found, OfKind
<1>6. CASE /\ found = {}
           /\ Become(r, [req[r] EXCEPT !.pc = "insert", !.kind = kind,
                                       !.name = name])
  <2> DEFINE h == [req[r] EXCEPT !.pc = "insert", !.kind = kind, !.name = name]
  <2>1. /\ h \in Handler /\ Become(r, h)
        /\ h.pc = "insert" /\ h.kind = kind /\ h.name = name
        /\ h.starting = req[r].starting /\ h.scope = req[r].scope
        /\ h.destination = req[r].destination
        /\ h.employee = req[r].employee /\ h.missed = req[r].missed
    <3>1. /\ req[r] \in Handler /\ "insert" \in Pc
          /\ kind \in Optional(Kinds) /\ name \in Optional(Names)
      BY <1>3 DEF Pc, Optional, Kinds
    <3>2. h \in Handler
      BY <3>1 DEF Handler
    <3>3. /\ h.pc = "insert" /\ h.kind = kind /\ h.name = name
          /\ h.starting = req[r].starting /\ h.scope = req[r].scope
      BY <3>1 DEF Handler
    <3>4. /\ h.destination = req[r].destination
          /\ h.employee = req[r].employee /\ h.missed = req[r].missed
      BY <3>1 DEF Handler
    <3> QED
      BY <1>6, <3>2, <3>3, <3>4
  <2> HIDE DEF h
  <2>2. Equipped(h)
    BY <1>4, <2>1 DEF Equipped, StartPc, Writing, Kinds
  <2>3. Sound(h)
    BY <1>1, <1>3, <1>6, <2>1
       DEF Sound, HeldOfKind, LookLasts, ChoiceLasts, Starting, StartPc, At
  <2> QED
    BY <1>1, <2>1, <2>2, <2>3, SoundKept, QuietStep
<1>7. ASSUME NEW i \in found, entry[i].active,
             Become(r, Chosen(req[r], kind, i))
      PROVE  CatalogueInv'
  BY <1>1, <1>5, <1>7, ChooseStep
<1>8. ASSUME NEW i \in found,
             Become(r, [req[r] EXCEPT !.pc = "reactivate", !.kind = kind,
                                      !.id = i])
      PROVE  CatalogueInv'
  <2> DEFINE h == [req[r] EXCEPT !.pc = "reactivate", !.kind = kind, !.id = i]
  <2>1. /\ h \in Handler /\ Become(r, h)
        /\ h.pc = "reactivate" /\ h.kind = kind /\ h.id = i
        /\ h.starting = req[r].starting /\ h.scope = req[r].scope
        /\ h.destination = req[r].destination
        /\ h.employee = req[r].employee /\ h.missed = req[r].missed
    <3>1. /\ req[r] \in Handler /\ "reactivate" \in Pc
          /\ kind \in Optional(Kinds) /\ i \in Optional(Ids)
      BY <1>3, <1>5 DEF Pc, Optional, Kinds
    <3>2. h \in Handler
      BY <3>1 DEF Handler
    <3>3. /\ h.pc = "reactivate" /\ h.kind = kind /\ h.id = i
          /\ h.starting = req[r].starting /\ h.scope = req[r].scope
      BY <3>1 DEF Handler
    <3>4. /\ h.destination = req[r].destination
          /\ h.employee = req[r].employee /\ h.missed = req[r].missed
      BY <3>1 DEF Handler
    <3> QED
      BY <1>8, <3>2, <3>3, <3>4
  <2> HIDE DEF h, found
  <2>2. Equipped(h)
    BY <1>4, <1>5, <2>1 DEF Equipped, StartPc, Writing
  <2>3. HeldOfKind(h) /\ LookLasts(h)
    BY <1>3, <1>5, <2>1, NoKind DEF Sound, HeldOfKind, LookLasts, Kinds
  <2>4. ChoiceLasts(h)
    BY <1>1, <1>3, <1>5, <2>1
       DEF Sound, ChoiceLasts, Starting, StartPc, At, Exists, Kinds
  <2> QED
    BY <1>1, <2>1, <2>2, <2>3, <2>4, SoundKept, QuietStep DEF Sound
<1> HIDE DEF found
<1> QED
  BY <1>2, <1>6, <1>7, <1>8

LEMMA StartSelectedStep ==
  ASSUME CatalogueInv, NEW r \in Requests,
         NEW kind \in {"destination", "employee"}, NEW i \in Ids,
         StartSelected(r, kind, i)
  PROVE  CatalogueInv'
BY ChooseStep DEF StartSelected, OfKind

(* A trip keeps its references if it takes them from entries that exist.   *)
LEMMA TripStep ==
  ASSUME CatalogueInv, NEW r \in Requests, NEW t \in Trips,
         At(r, "trip") \/ At(r, "edit"),
         Exists(req[r].destination), Exists(req[r].employee),
         trip' = [trip EXCEPT ![t] = [destination |-> req[r].destination,
                                      employee |-> req[r].employee]],
         Return(r), UNCHANGED <<entry, user, unchecked>>
  PROVE  CatalogueInv'
<1>1. req[r] \in Handler /\ Equipped(req[r]) /\ Sound(req[r])
  BY DEF CatalogueInv, TypeOK
<1>2. /\ req[r].destination \in OfKind("destination")
      /\ req[r].employee \in OfKind("employee")
  BY <1>1, CatalogueConstants
     DEF Equipped, Sound, HeldOfKind, At, Exists, OfKind, Kinds
<1>3. trip' \in [Trips -> Trip]
  BY <1>2 DEF CatalogueInv, TypeOK, Trip, Optional, OfKind
<1>4. ReferencesHold'
  BY <1>2, <1>3
     DEF CatalogueInv, TypeOK, ReferencesHold, TripExists, OfKind
<1> QED
  BY <1>3, <1>4, IdleTyped, IdleSound, HandlerStep
     DEF Return, CatalogueInv, TypeOK

LEMMA StartInsertStep ==
  ASSUME CatalogueInv, NEW r \in Requests, NEW t \in Trips, StartInsert(r, t)
  PROVE  CatalogueInv'
BY TripStep DEF StartInsert

LEMMA EditWriteStep ==
  ASSUME CatalogueInv, NEW r \in Requests, EditWrite(r)
  PROVE  CatalogueInv'
<1>1. req[r].trip \in Trips
  BY DEF CatalogueInv, Equipped, EditWrite, At
<1> QED
  BY <1>1, TripStep DEF EditWrite

LEMMA EditReadStep ==
  ASSUME CatalogueInv, NEW r \in Requests, NEW t \in Trips, NEW d \in Ids,
         NEW m \in Ids, EditRead(r, t, d, m)
  PROVE  CatalogueInv'
<1> DEFINE h == [Idle EXCEPT !.pc = "edit", !.trip = t,
                             !.destination = d, !.employee = m]
<1>1. /\ h \in Handler /\ Become(r, h)
      /\ h.pc = "edit" /\ h.trip = t /\ h.destination = d /\ h.employee = m
      /\ UNCHANGED <<entry, trip, user, unchecked>>
      /\ d \in OfKind("destination") /\ m \in OfKind("employee")
  BY DEF EditRead, Idle, Handler, Pc, Optional
<1> HIDE DEF h
<1>2. Equipped(h)
  BY <1>1 DEF Equipped, StartPc, Writing
<1>3. Sound(h)
  BY <1>1 DEF Sound, HeldOfKind, LookLasts, ChoiceLasts, OfKind, Starting,
              StartPc, Writing
<1> QED
  BY <1>1, <1>2, <1>3, SoundKept, QuietStep

LEMMA TripRemovedStep ==
  ASSUME CatalogueInv, NEW t \in Trips, TripRemoved(t)
  PROVE  CatalogueInv'
<1>1. /\ trip' = [trip EXCEPT ![t] = NoTrip]
      /\ UNCHANGED <<entry, user, req, unchecked>>
  BY DEF TripRemoved
<1>2. trip' \in [Trips -> Trip] /\ ReferencesHold'
  BY <1>1 DEF CatalogueInv, TypeOK, ReferencesHold, Trip, NoTrip, Optional,
              TripExists, OfKind
<1>3. TypeOK'
  BY <1>1, <1>2 DEF CatalogueInv, TypeOK
<1>4. (\A r \in Requests : Equipped(req[r]))'
  BY <1>1 DEF CatalogueInv
<1>5. (\A r \in Requests : Sound(req[r]))'
  BY <1>1, SoundKept DEF CatalogueInv, TypeOK
<1>6. DuplicatesExplained'
  BY <1>1 DEF CatalogueInv, DuplicatesExplained, Exists
<1> QED
  BY <1>3, <1>4, <1>5, <1>6 DEF CatalogueInv

-----------------------------------------------------------------------------
(* The handlers that write an entry                                        *)

LEMMA InsertStep ==
  ASSUME CatalogueInv, NEW r \in Requests, NEW i \in Ids,
         NEW active \in BOOLEAN, Insert(r, i, active)
  PROVE  CatalogueInv'
<1>1. PICK h \in Handler : h = req[r] /\ Equipped(h) /\ Sound(h)
  BY DEF CatalogueInv, TypeOK
<1>2. PICK e \in Entry :
        /\ e = NewEntry(h, active)
        /\ e.kind = h.kind /\ e.name = h.name /\ e.manager = h.scope
        /\ e.active = active
  <2> DEFINE e == NewEntry(h, active)
  <2>1. /\ e \in Entry /\ e = NewEntry(h, active)
        /\ e.kind = h.kind /\ e.name = h.name /\ e.manager = h.scope
        /\ e.active = active
    BY <1>1 DEF Insert, NewEntry, Handler, Entry, Equipped, At, Optional
  <2> HIDE DEF e
  <2> QED
    BY <2>1
<1>3. /\ h.pc = "insert" /\ (h.starting => e.active) /\ entry[i].kind = NULL
      /\ FitsIndex(i, e) /\ entry' = [entry EXCEPT ![i] = e]
      /\ Recheck(i, h.missed)
      /\ BecomeWriting(r, Written(h, i), i, e.kind)
      /\ UNCHANGED <<trip, user>>
  BY <1>1, <1>2 DEF Insert, At
<1>4. /\ h.kind \in Kinds /\ e.kind # NULL
      /\ e.kind = "occupation" => e.manager = NULL
  BY <1>1, <1>2, <1>3, NoKind DEF Equipped
<1>5. entry \in [Ids -> Entry] /\ \A j \in Ids :
        entry'[j] = IF j = i THEN e ELSE entry[j]
  BY <1>3 DEF CatalogueInv, TypeOK
<1>6. PICK g \in Handler : g = Written(h, i) /\ Equipped(g) /\ Sound(g)'
  <2>1. CASE ~h.starting
    BY <2>1, IdleTyped, IdleSound DEF Written
  <2>2. CASE h.starting
    <3>1. h.kind \in {"destination", "employee"} /\ h.employee = NULL
      BY <1>1, <1>3, <2>2 DEF Equipped, Writing
    <3>2. h.kind = "employee" =>
            /\ h.destination \in Ids \ {i}
            /\ entry[h.destination].kind \in {"destination", "gone"}
            /\ h.destination \notin h.missed =>
                 /\ Exists(h.destination)
                 /\ entry[h.destination].active
                 /\ entry[h.destination].manager = h.scope
      BY <1>1, <1>3, <2>2, CatalogueConstants, NoKind
         DEF Equipped, Writing, Sound, HeldOfKind, ChoiceLasts, Starting, Kinds
    <3>3. entry'[i] = e
      BY <1>5
    <3>4. /\ Chosen(h, h.kind, i) \in Handler
          /\ Equipped(Chosen(h, h.kind, i))
          /\ Sound(Chosen(h, h.kind, i))'
      BY <1>2, <1>3, <1>4, <1>5, <2>2, <3>1, <3>2, <3>3, ChosenReady
         DEF Exists
    <3> QED
      BY <2>2, <3>4 DEF Written
  <2> QED
    BY <2>1, <2>2
<1>7. /\ UncheckedTyped'
      /\ \A p \in unchecked : i \notin p => p \in unchecked'
      /\ \A j \in h.missed \ {i} : {i, j} \in unchecked'
  <2>1. h.missed \in SUBSET Ids /\ UncheckedTyped
    BY DEF Handler, CatalogueInv, TypeOK, UncheckedTyped
  <2> QED
    BY <1>3, <2>1, RecheckStep
<1>8. ASSUME NEW j \in Ids \ {i}, entry[j].kind = e.kind,
             entry[j].manager = e.manager,
             Matches(e.kind, e.name, entry[j].name)
      PROVE  /\ {i, j} \in unchecked'
             /\ e.kind = "destination" => e.name # entry[j].name
  <2>1. j \in Found(h.kind, h.scope, h.name)
    BY <1>2, <1>8, MatchesSymmetric DEF Found, OfKind
  <2>2. j \in h.missed
    BY <1>1, <1>3, <2>1 DEF Sound, LookLasts
  <2>3. e.kind = "destination" => e.name # entry[j].name
    BY <1>3, <1>8 DEF FitsIndex, OfKind
  <2> QED
    BY <1>7, <2>2, <2>3
<1>9. RepeatsUnchecked(i, e)
  BY <1>7, <1>8 DEF RepeatsUnchecked
<1>10. DuplicatesExplained'
  BY <1>3, <1>9, DuplicatesStep
<1>11. UsersLeft /\ Follows(i, e)
  BY <1>3, <1>4 DEF CatalogueInv, TypeOK, UsersLeft, Follows
<1>12. BecomeWriting(r, g, i, e.kind)
  BY <1>3, <1>6
<1> QED
  BY <1>3, <1>6, <1>7, <1>10, <1>11, <1>12, EntryStep

LEMMA ReactivateStep ==
  ASSUME CatalogueInv, NEW r \in Requests, Reactivate(r)
  PROVE  CatalogueInv'
<1>1. PICK h \in Handler : h = req[r] /\ Equipped(h) /\ Sound(h)
  BY DEF CatalogueInv, TypeOK
<1>2. h.pc = "reactivate" /\ h.id \in Ids /\ Exists(h.id)
  BY <1>1 DEF Reactivate, Equipped, At
<1>3. PICK i \in Ids : i = h.id
  BY <1>2
<1>4. entry \in [Ids -> Entry]
  BY DEF CatalogueInv, TypeOK
<1>5. PICK e \in Entry :
        /\ entry' = [entry EXCEPT ![i] = e]
        /\ e.kind = entry[i].kind /\ e.name = entry[i].name
        /\ e.manager = entry[i].manager /\ e.active
  <2> DEFINE e == [entry[i] EXCEPT !.active = TRUE]
  <2>1. /\ e \in Entry
        /\ e.kind = entry[i].kind /\ e.name = entry[i].name
        /\ e.manager = entry[i].manager /\ e.active
    BY <1>4 DEF Entry
  <2>2. entry' = [entry EXCEPT ![i] = e]
    BY <1>1, <1>3 DEF Reactivate
  <2> HIDE DEF e
  <2> QED
    BY <2>1, <2>2
<1>6. /\ BecomeWriting(r, Written(h, i), i, e.kind)
      /\ UNCHANGED <<trip, user, unchecked>>
  BY <1>1, <1>3, <1>5 DEF Reactivate
<1>7. /\ e.kind \in Kinds /\ e.kind # NULL
      /\ e.kind = "occupation" => e.manager = NULL
  BY <1>2, <1>3, <1>5, NoKind DEF Exists, CatalogueInv, TypeOK
<1>8. \A j \in Ids : entry'[j] = IF j = i THEN e ELSE entry[j]
  BY <1>4, <1>5
<1>9. PICK g \in Handler : g = Written(h, i) /\ Equipped(g) /\ Sound(g)'
  <2>1. CASE ~h.starting
    BY <2>1, IdleTyped, IdleSound DEF Written
  <2>2. CASE h.starting
    <3>1. h.kind \in {"destination", "employee"} /\ h.employee = NULL
      BY <1>1, <1>2, <2>2 DEF Equipped, Writing
    <3>2. h.kind = "employee" =>
            /\ h.destination \in Ids
            /\ entry[h.destination].kind \in {"destination", "gone"}
            /\ h.destination \notin h.missed =>
                 /\ Exists(h.destination)
                 /\ entry[h.destination].active
                 /\ entry[h.destination].manager = h.scope
      BY <1>1, <1>2, <2>2, CatalogueConstants
         DEF Equipped, Writing, Sound, HeldOfKind, ChoiceLasts, Starting
    <3>3. /\ entry[i].kind = h.kind
          /\ i \notin h.missed => entry[i].manager = h.scope
      BY <1>1, <1>2, <1>3, <2>2
         DEF Sound, HeldOfKind, ChoiceLasts, Starting, Writing, Exists, Kinds
    <3>4. /\ Chosen(h, h.kind, i) \in Handler
          /\ Equipped(Chosen(h, h.kind, i))
          /\ Sound(Chosen(h, h.kind, i))'
      BY <1>5, <1>7, <1>8, <2>2, <3>1, <3>2, <3>3, ChosenReady
         DEF Exists
    <3> QED
      BY <2>2, <3>4 DEF Written
  <2> QED
    BY <2>1, <2>2
<1>10. DuplicatesExplained'
  <2>1. \A j, k \in Ids :
          /\ entry'[j].kind = entry[j].kind /\ entry'[j].name = entry[j].name
          /\ entry'[j].manager = entry[j].manager
    BY <1>5, <1>8
  <2> QED
    BY <1>6, <2>1 DEF CatalogueInv, DuplicatesExplained, Exists
<1>11. UsersLeft /\ UncheckedTyped'
  BY <1>6 DEF CatalogueInv, TypeOK, UsersLeft, UncheckedTyped
<1>12. BecomeWriting(r, g, i, e.kind) /\ Follows(i, e)
  BY <1>5, <1>6, <1>7, <1>9 DEF Follows
<1> QED
  BY <1>5, <1>6, <1>9, <1>10, <1>11, <1>12, EntryStep

-----------------------------------------------------------------------------
(* update                                                                  *)

LEMMA UpdateReadStep ==
  ASSUME CatalogueInv, NEW r \in Requests, NEW i \in Ids,
         NEW manager \in Optional(Managers), UpdateRead(r, i, manager)
  PROVE  CatalogueInv'
<1>1. /\ Exists(i)
      /\ entry[i].kind = "occupation" => manager = NULL
      /\ UNCHANGED <<entry, trip, user, unchecked>>
  BY DEF UpdateRead
<1>2. PICK h \in Handler :
        /\ Become(r, h) /\ h.pc \in {"look", "write"} /\ h.id = i
        /\ h.manager = manager /\ h.name = NULL /\ ~h.starting
        /\ h.destination = NULL /\ h.employee = NULL
  <2> DEFINE g == [Idle EXCEPT !.pc = "look", !.id = i, !.manager = manager,
                               !.scope = Given(manager, entry[i].manager)]
             f == [Idle EXCEPT !.pc = "write", !.id = i, !.manager = manager]
  <2>1. entry[i].manager \in Optional(Managers)
    BY DEF CatalogueInv, TypeOK, Entry
  <2>2. /\ g \in Handler /\ g.pc \in {"look", "write"} /\ g.id = i
        /\ g.manager = manager /\ g.name = NULL /\ ~g.starting
        /\ g.destination = NULL /\ g.employee = NULL
    BY <2>1 DEF Idle, Handler, Pc, Optional, Given
  <2>3. /\ f \in Handler /\ f.pc \in {"look", "write"} /\ f.id = i
        /\ f.manager = manager /\ f.name = NULL /\ ~f.starting
        /\ f.destination = NULL /\ f.employee = NULL
    BY DEF Idle, Handler, Pc, Optional
  <2>4. Become(r, g) \/ Become(r, f)
    BY DEF UpdateRead
  <2> HIDE DEF g, f
  <2> QED
    BY <2>2, <2>3, <2>4
<1>3. Equipped(h)
  BY <1>2 DEF Equipped, StartPc, Writing
<1>4. Sound(h)
  BY <1>1, <1>2, NoKind
     DEF Sound, HeldOfKind, LookLasts, ChoiceLasts, Starting, StartPc,
         Writing, Exists
<1> QED
  BY <1>1, <1>2, <1>3, <1>4, SoundKept, QuietStep

LEMMA UpdateLookStep ==
  ASSUME CatalogueInv, NEW r \in Requests, NEW name \in Names,
         UpdateLook(r, name)
  PROVE  CatalogueInv'
<1>1. PICK f \in Handler : f = req[r] /\ Equipped(f) /\ Sound(f)
  BY DEF CatalogueInv, TypeOK
<1>2. /\ f.pc = "look" /\ Exists(f.id)
      /\ Found(entry[f.id].kind, f.scope, name) \subseteq {f.id}
      /\ Become(r, [f EXCEPT !.pc = "write", !.name = name])
      /\ UNCHANGED <<entry, trip, user, unchecked>>
  BY <1>1 DEF UpdateLook, At
<1> DEFINE h == [f EXCEPT !.pc = "write", !.name = name]
<1>3. /\ h \in Handler
      /\ h.pc = "write" /\ h.id = f.id /\ h.name = name /\ h.scope = f.scope
      /\ h.manager = f.manager /\ h.destination = f.destination
      /\ h.employee = f.employee /\ h.missed = f.missed
  BY DEF Handler, Pc, Optional
<1>4. Become(r, h)
  BY <1>2
<1> HIDE DEF h
<1>5. Equipped(h)
  BY <1>1, <1>2, <1>3 DEF Equipped, StartPc, Writing
<1>6. Sound(h)
  BY <1>1, <1>2, <1>3
     DEF Sound, HeldOfKind, LookLasts, ChoiceLasts, Starting, StartPc, Writing
<1> QED
  BY <1>2, <1>3, <1>4, <1>5, <1>6, SoundKept, QuietStep

LEMMA UpdateWriteStep ==
  ASSUME CatalogueInv, NEW r \in Requests,
         NEW name \in Optional(Names \cup {Blank}),
         NEW active \in Optional(BOOLEAN), UpdateWrite(r, name, active)
  PROVE  CatalogueInv'
<1>1. PICK h \in Handler : h = req[r] /\ Equipped(h) /\ Sound(h)
  BY DEF CatalogueInv, TypeOK
<1>2. h.pc = "write" /\ h.id \in Ids /\ Exists(h.id)
  BY <1>1 DEF UpdateWrite, Equipped, At
<1>3. PICK i \in Ids : i = h.id
  BY <1>2
<1>4. entry \in [Ids -> Entry]
  BY DEF CatalogueInv, TypeOK
<1>5. PICK e \in Entry :
        /\ e = Updated(h, name, active)
        /\ e.kind = entry[i].kind
        /\ e.name = Given(name, entry[i].name)
        /\ e.manager = Given(h.manager, entry[i].manager)
  <2> DEFINE e == [entry[i] EXCEPT
                     !.name = Given(name, entry[i].name),
                     !.active = Given(active, entry[i].active),
                     !.manager = Given(h.manager, entry[i].manager)]
  <2>1. e = Updated(h, name, active)
    BY <1>3 DEF Updated
  <2>2. /\ Given(name, entry[i].name) \in Optional(Names \cup {Blank})
        /\ Given(active, entry[i].active) \in BOOLEAN
        /\ Given(h.manager, entry[i].manager) \in Optional(Managers)
    BY <1>4 DEF Given, Entry, Handler, Optional
  <2>3. /\ e \in Entry
        /\ e.kind = entry[i].kind
        /\ e.name = Given(name, entry[i].name)
        /\ e.manager = Given(h.manager, entry[i].manager)
    BY <1>4, <2>2 DEF Entry
  <2> HIDE DEF e
  <2> QED
    BY <2>1, <2>3
<1>6. /\ name # h.name => name = Blank /\ h.name = NULL
      /\ FitsIndex(i, e)
      /\ entry' = [entry EXCEPT ![i] = e]
      /\ IF name = NULL /\ h.manager = NULL
         THEN UNCHANGED unchecked
         ELSE Recheck(i, Unlooked(h, e))
      /\ BecomeWriting(r, Idle, i, e.kind)
      /\ UNCHANGED <<trip, user>>
  BY <1>1, <1>3, <1>5 DEF UpdateWrite
<1>7. e.kind \in Kinds /\ Follows(i, e)
  <2>1. e.kind = "occupation" => h.manager = NULL
    BY <1>1, <1>2, <1>3, <1>5 DEF Sound, HeldOfKind
  <2>2. \A j \in Ids :
          entry[j].kind = "occupation" => entry[j].manager = NULL
    BY DEF CatalogueInv, TypeOK
  <2> QED
    BY <1>2, <1>3, <1>5, <2>1, <2>2, NoKind
       DEF Exists, Follows, Given
<1>8. ASSUME name = NULL, h.manager = NULL
      PROVE  RepeatsUnchecked(i, e) /\ UncheckedTyped'
  <2>1. /\ UncheckedTyped' /\ UNCHANGED unchecked
        /\ e.name = entry[i].name /\ e.manager = entry[i].manager
    BY <1>5, <1>6, <1>8 DEF CatalogueInv, TypeOK, UncheckedTyped, Given
  <2>2. RepeatsUnchecked(i, e)
    BY <1>2, <1>3, <1>5, <2>1
       DEF CatalogueInv, DuplicatesExplained, RepeatsUnchecked, Exists
  <2> QED
    BY <2>1, <2>2
<1>9. ASSUME ~(name = NULL /\ h.manager = NULL)
      PROVE  RepeatsUnchecked(i, e) /\ UncheckedTyped'
  <2>1. /\ Unlooked(h, e) \in SUBSET Ids /\ UncheckedTyped
        /\ Recheck(i, Unlooked(h, e))
    BY <1>6, <1>9
       DEF Unlooked, Handler, CatalogueInv, TypeOK, UncheckedTyped
  <2>2. /\ UncheckedTyped'
        /\ \A p \in unchecked : i \notin p => p \in unchecked'
        /\ \A j \in Unlooked(h, e) \ {i} : {i, j} \in unchecked'
    BY <2>1, RecheckStep
  <2>3. ASSUME NEW j \in Ids \ {i}, entry[j].kind = e.kind,
               entry[j].manager = e.manager,
               Matches(e.kind, e.name, entry[j].name)
        PROVE  j \in Unlooked(h, e)
    <3>1. CASE h.name # NULL /\ h.scope = e.manager
      <4>1. e.name = h.name
        BY <1>5, <1>6, <3>1 DEF Given
      <4>2. j \in Found(entry[i].kind, h.scope, h.name)
        BY <1>5, <2>3, <3>1, <4>1, MatchesSymmetric DEF Found, OfKind
      <4> QED
        BY <1>1, <1>2, <1>3, <3>1, <4>2 DEF Sound, LookLasts, Unlooked
    <3>2. CASE ~(h.name # NULL /\ h.scope = e.manager)
      BY <3>2 DEF Unlooked
    <3> QED
      BY <3>1, <3>2
  <2>4. \A j \in Ids \ {i} :
          /\ e.kind = "destination" /\ entry[j].kind = e.kind
          /\ entry[j].manager = e.manager
          => e.name # entry[j].name
    BY <1>6 DEF FitsIndex, OfKind
  <2>5. RepeatsUnchecked(i, e)
    BY <2>2, <2>3, <2>4 DEF RepeatsUnchecked
  <2> QED
    BY <2>2, <2>5
<1>10. RepeatsUnchecked(i, e) /\ UncheckedTyped'
  BY <1>8, <1>9
<1>11. DuplicatesExplained'
  BY <1>6, <1>10, DuplicatesStep
<1>12. UsersLeft
  BY <1>6 DEF CatalogueInv, TypeOK, UsersLeft
<1> QED
  BY <1>6, <1>7, <1>10, <1>11, <1>12, IdleTyped, IdleSound, EntryStep

-----------------------------------------------------------------------------
(* remove, and the registration of a user                                  *)

LEMMA RemoveCountStep ==
  ASSUME CatalogueInv, NEW r \in Requests, NEW i \in Ids, RemoveCount(r, i)
  PROVE  CatalogueInv'
<1> DEFINE h == [Idle EXCEPT !.pc = "delete", !.id = i]
<1>1. /\ h \in Handler /\ Become(r, h)
      /\ h.pc = "delete" /\ h.id = i /\ h.destination = NULL
      /\ h.employee = NULL
      /\ UNCHANGED <<entry, trip, user, unchecked>>
  BY DEF RemoveCount, Idle, Handler, Pc, Optional
<1> HIDE DEF h
<1>2. Equipped(h)
  BY <1>1 DEF Equipped, StartPc, Writing
<1>3. Sound(h)
  BY <1>1 DEF Sound, HeldOfKind, LookLasts, ChoiceLasts, Starting, StartPc,
              Writing
<1> QED
  BY <1>1, <1>2, <1>3, SoundKept, QuietStep

LEMMA DeleteStep ==
  ASSUME CatalogueInv, NEW r \in Requests, Delete(r)
  PROVE  CatalogueInv'
<1>1. PICK i \in Ids : i = req[r].id
  BY DEF CatalogueInv, Delete, Equipped, At
<1>2. Gone \in Entry /\ Gone.kind = "gone"
  BY DEF Gone, NoEntry, Entry, Optional
<1>3. PICK e \in Entry : e = Gone /\ e.kind = "gone"
  BY <1>2
<1>4. /\ entry' = [entry EXCEPT ![i] = e]
      /\ TripsOf(i) = {}
      /\ user' = [u \in Users |-> IF user[u] = i THEN NULL ELSE user[u]]
      /\ unchecked' = {p \in unchecked : i \notin p}
      /\ BecomeWriting(r, Idle, i, e.kind)
      /\ UNCHANGED trip
  BY <1>1, <1>3 DEF Delete, Unreferenced
<1>5. UsersLeft /\ Follows(i, e) /\ UncheckedTyped'
  <2>1. \A u \in Users : user'[u] # i
    BY <1>4, CatalogueConstants
  <2>2. UsersLeft
    BY <1>4 DEF CatalogueInv, TypeOK, UsersLeft, Optional
  <2>3. UncheckedTyped'
    BY <1>4 DEF CatalogueInv, TypeOK, UncheckedTyped
  <2> QED
    BY <1>3, <1>4, <2>1, <2>2, <2>3, NoKind DEF Follows
<1>6. RepeatsUnchecked(i, e)
  BY <1>3, <1>4 DEF RepeatsUnchecked, Kinds
<1>7. DuplicatesExplained'
  BY <1>4, <1>6, DuplicatesStep
<1> QED
  BY <1>4, <1>5, <1>7, IdleTyped, IdleSound, EntryStep

LEMMA RegisterLookStep ==
  ASSUME CatalogueInv, NEW r \in Requests, NEW i \in Ids, RegisterLook(r, i)
  PROVE  CatalogueInv'
<1> DEFINE h == [Idle EXCEPT !.pc = "register", !.id = i]
<1>1. /\ h \in Handler /\ Become(r, h)
      /\ h.pc = "register" /\ h.id = i /\ h.destination = NULL
      /\ h.employee = NULL /\ i \in OfKind("occupation")
      /\ UNCHANGED <<entry, trip, user, unchecked>>
  BY DEF RegisterLook, Idle, Handler, Pc, Optional
<1> HIDE DEF h
<1>2. Equipped(h)
  BY <1>1 DEF Equipped, StartPc, Writing
<1>3. Sound(h)
  BY <1>1 DEF Sound, HeldOfKind, LookLasts, ChoiceLasts, Starting, StartPc,
              Writing, OfKind
<1> QED
  BY <1>1, <1>2, <1>3, SoundKept, QuietStep

LEMMA RegisterInsertStep ==
  ASSUME CatalogueInv, NEW r \in Requests, NEW u \in Users,
         RegisterInsert(r, u)
  PROVE  CatalogueInv'
<1>1. PICK i \in Ids : i = req[r].id
  BY DEF CatalogueInv, RegisterInsert, Equipped, At
<1>2. /\ user' = [user EXCEPT ![u] = i]
      /\ UNCHANGED <<entry, trip, unchecked>>
      /\ entry[i].kind = "occupation"
  BY <1>1 DEF RegisterInsert, At, CatalogueInv, Sound, HeldOfKind, Exists,
              Kinds
<1>3. req' = [q \in Requests |->
                IF q = r THEN Idle
                ELSE IF At(q, "delete") /\ req[q].id = i
                THEN [req[q] EXCEPT !.missed = {i}]
                ELSE req[q]]
  BY <1>1 DEF RegisterInsert
<1>4. ASSUME NEW h \in Handler, h.pc = "delete", Equipped(h), Sound(h)
      PROVE  /\ [h EXCEPT !.missed = {i}] \in Handler
             /\ Equipped([h EXCEPT !.missed = {i}])
             /\ Sound([h EXCEPT !.missed = {i}])
  <2> DEFINE g == [h EXCEPT !.missed = {i}]
  <2>1. /\ g \in Handler /\ g.pc = "delete" /\ g.id = h.id
        /\ g.destination = h.destination /\ g.employee = h.employee
    BY <1>4 DEF Handler
  <2> HIDE DEF g
  <2>2. Equipped(g)
    BY <1>4, <2>1 DEF Equipped, StartPc, Writing
  <2>3. Sound(g)
    BY <1>4, <2>1 DEF Sound, HeldOfKind, LookLasts, ChoiceLasts, Starting,
                      StartPc, Writing
  <2> QED
    BY <2>1, <2>2, <2>3 DEF g
<1>5. \A q \in Requests :
        /\ req'[q] \in Handler /\ Equipped(req'[q]) /\ Sound(req'[q])
  <2> TAKE q \in Requests
  <2>1. /\ req[q] \in Handler /\ Equipped(req[q]) /\ Sound(req[q])
    BY DEF CatalogueInv, TypeOK
  <2>2. CASE q = r
    BY <1>3, <2>2, IdleTyped, IdleSound
  <2>3. CASE q # r /\ At(q, "delete") /\ req[q].id = i
    BY <1>3, <1>4, <2>1, <2>3 DEF At
  <2>4. CASE q # r /\ ~(At(q, "delete") /\ req[q].id = i)
    BY <1>3, <2>1, <2>4
  <2> QED
    BY <2>2, <2>3, <2>4
<1>6. req' \in [Requests -> Handler]
  BY <1>3, <1>5
<1>7. (\A q \in Requests : Sound(req[q]))'
  BY <1>2, <1>5, SoundKept
<1>8. user' \in [Users -> Optional(Ids)]
  BY <1>2 DEF CatalogueInv, TypeOK, Optional
<1>9. ReferencesHold'
  BY <1>2, <1>8
     DEF CatalogueInv, TypeOK, ReferencesHold, TripExists, OfKind
<1>10. TypeOK'
  BY <1>2, <1>6, <1>8, <1>9 DEF CatalogueInv, TypeOK
<1>11. DuplicatesExplained'
  BY <1>2 DEF CatalogueInv, DuplicatesExplained, Exists
<1> QED
  BY <1>5, <1>7, <1>10, <1>11 DEF CatalogueInv

-----------------------------------------------------------------------------
(* The theorems                                                            *)

LEMMA InvInit == Init => CatalogueInv
<1> SUFFICES ASSUME Init PROVE CatalogueInv
  OBVIOUS
<1>1. NoEntry \in Entry /\ NoTrip \in Trip
  BY DEF NoEntry, Entry, NoTrip, Trip, Optional
<1>2. /\ \A i \in Ids : entry[i].kind = NULL
      /\ \A t \in Trips : ~TripExists(t)
  BY DEF Init, NoEntry, TripExists
<1>3. /\ entry \in [Ids -> Entry] /\ trip \in [Trips -> Trip]
      /\ user \in [Users -> Optional(Ids)] /\ req \in [Requests -> Handler]
      /\ unchecked \subseteq {{i, j} : i, j \in Ids}
  BY <1>1, IdleTyped DEF Init, Optional
<1>4. ReferencesHold
  BY <1>2 DEF Init, ReferencesHold
<1>5. TypeOK
  BY <1>2, <1>3, <1>4, NoKind DEF TypeOK, Kinds
<1>6. DuplicatesExplained
  BY <1>2, NoKind DEF DuplicatesExplained, Exists
<1>7. \A r \in Requests : Equipped(req[r]) /\ Sound(req[r])
  BY IdleSound DEF Init
<1> QED
  BY <1>5, <1>6, <1>7 DEF CatalogueInv

LEMMA InvStep == CatalogueInv /\ [Next]_vars => CatalogueInv'
<1> SUFFICES ASSUME CatalogueInv, [Next]_vars PROVE CatalogueInv'
  OBVIOUS
<1>1. ASSUME NEW r \in Requests, Step(r) PROVE CatalogueInv'
  <2>1. ASSUME NEW kind \in Kinds, NEW name \in Names,
               NEW manager \in Optional(Managers),
               CreateLook(r, kind, name, manager)
        PROVE  CatalogueInv'
    BY <2>1, CreateLookStep
  <2>2. ASSUME NEW i \in Ids, NEW active \in BOOLEAN, Insert(r, i, active)
        PROVE  CatalogueInv'
    BY <2>2, InsertStep
  <2>3. CASE Reactivate(r)
    BY <2>3, ReactivateStep
  <2>4. ASSUME NEW manager \in Managers, StartRead(r, manager)
        PROVE  CatalogueInv'
    BY <2>4, StartReadStep
  <2>5. ASSUME NEW kind \in {"destination", "employee"}, NEW name \in Names,
               StartCustom(r, kind, name)
        PROVE  CatalogueInv'
    BY <2>5, StartCustomStep
  <2>6. ASSUME NEW kind \in {"destination", "employee"}, NEW i \in Ids,
               StartSelected(r, kind, i)
        PROVE  CatalogueInv'
    BY <2>6, StartSelectedStep
  <2>7. ASSUME NEW t \in Trips, StartInsert(r, t) PROVE CatalogueInv'
    BY <2>7, StartInsertStep
  <2>8. ASSUME NEW t \in Trips, NEW d \in Ids, NEW e \in Ids,
               EditRead(r, t, d, e)
        PROVE  CatalogueInv'
    BY <2>8, EditReadStep
  <2>9. CASE EditWrite(r)
    BY <2>9, EditWriteStep
  <2>10. ASSUME NEW i \in Ids, NEW manager \in Optional(Managers),
                UpdateRead(r, i, manager)
         PROVE  CatalogueInv'
    BY <2>10, UpdateReadStep
  <2>11. ASSUME NEW name \in Names, UpdateLook(r, name) PROVE CatalogueInv'
    BY <2>11, UpdateLookStep
  <2>12. ASSUME NEW name \in Optional(Names \cup {Blank}),
                NEW active \in Optional(BOOLEAN), UpdateWrite(r, name, active)
         PROVE  CatalogueInv'
    BY <2>12, UpdateWriteStep
  <2>13. ASSUME NEW i \in Ids, RemoveCount(r, i) PROVE CatalogueInv'
    BY <2>13, RemoveCountStep
  <2>14. CASE Delete(r)
    BY <2>14, DeleteStep
  <2>15. ASSUME NEW i \in Ids, RegisterLook(r, i) PROVE CatalogueInv'
    BY <2>15, RegisterLookStep
  <2>16. ASSUME NEW u \in Users, RegisterInsert(r, u) PROVE CatalogueInv'
    BY <2>16, RegisterInsertStep
  <2>17. CASE Fail(r)
    BY <2>17, FailStep DEF Fail
  <2> QED
    BY <1>1, <2>1, <2>2, <2>3, <2>4, <2>5, <2>6, <2>7, <2>8, <2>9, <2>10,
       <2>11, <2>12, <2>13, <2>14, <2>15, <2>16, <2>17 DEF Step
<1>2. ASSUME NEW t \in Trips, TripRemoved(t) PROVE CatalogueInv'
  BY <1>2, TripRemovedStep
<1>3. ASSUME UNCHANGED vars PROVE CatalogueInv'
  <2>1. UNCHANGED <<entry, trip, user, req, unchecked>>
    BY <1>3 DEF vars
  <2>2. TypeOK' /\ DuplicatesExplained'
    BY <2>1 DEF CatalogueInv, TypeOK, ReferencesHold, TripExists, OfKind,
                DuplicatesExplained, Exists
  <2>3. (\A r \in Requests : Sound(req[r]))'
    BY <2>1, SoundKept DEF CatalogueInv, TypeOK
  <2> QED
    BY <2>1, <2>2, <2>3 DEF CatalogueInv
<1> QED
  BY <1>1, <1>2, <1>3 DEF Next

LEMMA InvHolds == Spec => []CatalogueInv
BY InvInit, InvStep, PTL DEF Spec

(* However removals interleave with starts, edits and registrations, the   *)
(* counts of remove() being long past, every trip names a destination and  *)
(* an employee that exist and every user an occupation that exists.        *)
THEOREM TypeCorrect == Spec => []TypeOK
<1>1. CatalogueInv => TypeOK
  BY DEF CatalogueInv
<1> QED
  BY <1>1, InvHolds, PTL

(* A list has two entries of one name only where the later write of one    *)
(* did not look at the other, and never two destinations written alike:    *)
(* create(), update() and the custom names of startTrip look before they   *)
(* write, in another query.                                                *)
THEOREM DuplicatesAreExplained == Spec => []DuplicatesExplained
<1>1. CatalogueInv => DuplicatesExplained
  BY DEF CatalogueInv
<1> QED
  BY <1>1, InvHolds, PTL

(* What startTrip is about to name in the trip is active and of the        *)
(* driver's manager, unless it was written since startTrip read it.        *)
THEOREM ChosenAreListed == Spec => []ChosenIsListed
<1>1. CatalogueInv => ChosenIsListed
  <2> SUFFICES ASSUME CatalogueInv, NEW r \in Requests, At(r, "trip"),
                      NEW i \in {req[r].destination, req[r].employee}
                                  \ req[r].missed
               PROVE  /\ Exists(i)
                      /\ entry[i].active
                      /\ entry[i].manager = req[r].scope
    BY DEF ChosenIsListed
  <2>1. Equipped(req[r]) /\ ChoiceLasts(req[r])
    BY DEF CatalogueInv, Sound
  <2> QED
    BY <2>1, CatalogueConstants DEF Equipped, ChoiceLasts, Starting, StartPc, At
<1> QED
  BY <1>1, InvHolds, PTL
=============================================================================
