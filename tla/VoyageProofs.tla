---------------------------- MODULE VoyageProofs -----------------------------
(***************************************************************************)
(* The books a mission settles are true, sealed freight is never sold and  *)
(* nothing is left aboard when a mission's row goes, for any lot, number   *)
(* of missions, losses, changed terms and unreadable answers.              *)
(***************************************************************************)
EXTENDS VoyageMission, TLAPS

LEMMA Facts ==
    /\ Home # Away /\ None \notin Ports /\ None \notin Nat
    /\ Lot \in Nat /\ MaxMissions \in Nat /\ MaxLosses \in Nat /\ MaxTerms \in Nat /\ MaxGarbled \in Nat /\ Lot > 0
    /\ None \notin World /\ None \notin Mission /\ None \notin Action /\ None \notin [books : Books, known : BOOLEAN]
    /\ 0 \in Tons /\ 1 \in Tons
BY VoyageAssumption, VoyageNone DEF Tons

USE Facts

LEMMA WorldFields ==
    ASSUME NEW x \in World
    PROVE  /\ x.cargo \in Tons /\ x.cargo \in Nat /\ x.cargo <= Lot + 1 /\ x.port \in Ports /\ x.to \in Ports
           /\ x.terms \in 0..MaxTerms /\ x.status \in Statuses
           /\ x.contract \in {"open", "taken", "active", "completed", "defaulted"}
BY DEF World, Tons, Terminal

LEMMA RowFields ==
    ASSUME TypeOK, m # None
    PROVE  /\ m \in Mission /\ m.phase \in Phases /\ m.kind \in {"voyage", "aborted", "recovery"}
           /\ m.sealed \in 0..2 /\ m.open \in 0..2 /\ m.books \in Books /\ m.books.out \in Nat /\ m.books.in \in Nat
           /\ m.eligible \in Tons /\ m.departed \in Tons /\ m.quantity \in Tons /\ m.bought \in Tons
           /\ m.settlement \in [books : Books, known : BOOLEAN] \cup {None} /\ m.dest \in Ports
BY DEF TypeOK, Mission, Books

LEMMA ActFields ==
    ASSUME TypeOK, act # None
    PROVE  /\ act \in Action /\ act.stage \in Stages /\ act.qty \in Tons /\ act.qty \in Nat /\ act.fill \in Tons
           /\ act.fill \in Nat /\ act.before.cargo \in Tons /\ m # None
BY DEF TypeOK, Action, Tons

LEMMA MovedFields ==
    ASSUME TypeOK
    PROVE  moved.out \in Nat /\ moved.in \in Nat /\ moved.buys \in Nat
BY DEF TypeOK

-----------------------------------------------------------------------------
(* The world *)

\* A step of the world: no cargo appears, a wreck stays one, no contract begins,
\* and only a default costs something.
WorldStep ==
    /\ UNCHANGED <<seen, m, act, missions, garbled>>
    /\ w' \in World /\ losses' \in 0..MaxLosses /\ lossy' \in BOOLEAN
    /\ w'.cargo <= w.cargo /\ (w.status = "sunk" => w'.status = "sunk")
    /\ lossy => lossy'
    /\ w'.contract = "active" => w.contract = "active" /\ (lossy' \/ w'.cargo = w.cargo)
    /\ w'.contract = w.contract \/ (w.contract = "open" /\ w'.contract = "taken")
       \/ (w.contract = "active" /\ w'.contract = "defaulted")
    /\ moved' \in [out : Nat, in : Nat, buys : Nat]
    /\ moved' = moved \/ (w.contract = "active" /\ w'.contract = "defaulted")

LEMMA WorldSteps ==
    ASSUME TypeOK, Arrive \/ LoseCargo \/ Sink \/ Default \/ OtherCarrier \/ NewTerms
    PROVE  WorldStep
<1>1. w \in World /\ losses \in 0..MaxLosses /\ moved \in [out : Nat, in : Nat, buys : Nat] /\ lossy \in BOOLEAN
    BY DEF TypeOK
<1>2. CASE Arrive
  <2>1. PICK left \in BOOLEAN : w' = [w EXCEPT !.status = "roadstead", !.port = w.to, !.stores = left]
      BY <1>1, <1>2 DEF Arrive, World
  <2>2. w' \in World /\ w'.cargo = w.cargo /\ w'.contract = w.contract
      BY <1>1, <2>1, WorldFields DEF World, Statuses
  <2>3. QED
      BY <1>1, <1>2, <2>2, WorldFields DEF Arrive, WorldStep, ship
<1>3. CASE LoseCargo
  <2>1. PICK c \in Tons : c = w.cargo - 1 /\ c <= w.cargo /\ w' = [w EXCEPT !.cargo = c]
      BY <1>1, <1>3, WorldFields DEF LoseCargo, Tons
  <2>2. w' \in World /\ w'.cargo = c /\ w'.contract = w.contract /\ w'.status = w.status
      BY <1>1, <2>1 DEF World
  <2>3. losses' \in 0..MaxLosses
      BY <1>1, <1>3 DEF LoseCargo
  <2>4. QED
      BY <1>1, <1>3, <2>1, <2>2, <2>3 DEF LoseCargo, WorldStep, ship
<1>4. CASE Sink
  <2>1. w' \in World /\ w'.cargo = 0 /\ w'.contract = w.contract /\ w'.status = "sunk"
      BY <1>1, <1>4 DEF Sink, World, Statuses
  <2>2. losses' \in 0..MaxLosses
      BY <1>1, <1>4 DEF Sink
  <2>3. QED
      BY <1>1, <1>4, <2>1, <2>2, WorldFields DEF Sink, WorldStep, ship
<1>5. CASE Default
  <2>1. PICK c \in Tons : c <= w.cargo /\ w' = [w EXCEPT !.contract = "defaulted", !.cargo = c]
    <3>1. PICK left \in {w.cargo} \cup {c \in Tons : c + 1 = w.cargo} :
             w' = [w EXCEPT !.contract = "defaulted", !.cargo = left]
        BY <1>5 DEF Default
    <3>2. left \in Tons /\ left <= w.cargo
        BY <1>1, WorldFields DEF Tons
    <3>3. QED
        BY <3>1, <3>2
  <2>2. w' \in World /\ w'.cargo = c /\ w'.contract = "defaulted" /\ w'.status = w.status
      BY <1>1, <2>1 DEF World, Terminal
  <2>3. moved' \in [out : Nat, in : Nat, buys : Nat]
    <3>1. PICK n \in Nat : n = moved.out + 1
        BY <1>1
    <3>2. moved' = [moved EXCEPT !.out = n]
        BY <1>5, <3>1 DEF Default
    <3>3. QED
        BY <1>1, <3>2
  <2>4. QED
      BY <1>1, <1>5, <2>1, <2>2, <2>3 DEF Default, WorldStep, ship
<1>6. CASE OtherCarrier
  <2>1. w' \in World /\ w'.cargo = w.cargo /\ w'.contract = "taken" /\ w'.status = w.status
      BY <1>1, <1>6 DEF OtherCarrier, World
  <2>2. QED
      BY <1>1, <1>6, <2>1, WorldFields DEF OtherCarrier, WorldStep, ship
<1>7. CASE NewTerms
  <2>1. PICK t \in 0..MaxTerms : w' = [w EXCEPT !.terms = t]
      BY <1>1, <1>7, WorldFields DEF NewTerms
  <2>2. w' \in World /\ w'.cargo = w.cargo /\ w'.contract = w.contract /\ w'.status = w.status
      BY <1>1, <2>1 DEF World
  <2>3. QED
      BY <1>1, <1>7, <2>2, WorldFields DEF NewTerms, WorldStep, ship
<1>8. QED
    BY <1>2, <1>3, <1>4, <1>5, <1>6, <1>7

LEMMA WorldKeeps ==
    ASSUME VoyageInv, WorldStep
    PROVE  VoyageInv'
<1>1. TypeOK /\ w \in World /\ w.cargo \in Nat /\ w'.cargo \in Nat
    BY WorldFields DEF VoyageInv, TypeOK, WorldStep
<1>2. TypeOK'
    BY <1>1 DEF TypeOK, WorldStep
<1>3. ActShaped'
    BY DEF VoyageInv, ActShaped, WorldStep
<1>4. CaptureHolds'
  <2>1. seen # None => seen.cargo \in Nat
      BY <1>1, WorldFields DEF TypeOK
  <2>2. QED
      BY <1>1, <2>1 DEF VoyageInv, CaptureHolds, Undone, WorldStep, Terminal
<1>5. SealInv'
  <2>1. act # None => act.qty \in Nat
      BY <1>1, ActFields
  <2>2. QED
      BY <1>1, <2>1 DEF VoyageInv, SealInv, SealsKept, WorldStep
<1>6. BooksInv'
    BY DEF VoyageInv, BooksInv, DueOut, DueIn, DefaultPending, AcceptDone, Outlay, Revenue, WorldStep
<1>7. SettledInv'
    BY <1>1 DEF VoyageInv, SettledInv, WorldStep
<1>8. AccountingTrue'
    BY DEF VoyageInv, AccountingTrue, SettledInv, WorldStep
<1>9. QED
    BY <1>2, <1>3, <1>4, <1>5, <1>6, <1>7, <1>8 DEF VoyageInv

-----------------------------------------------------------------------------
(* A capture, and the seal it may show *)

LEMMA CaptureKeeps ==
    ASSUME VoyageInv, Capture
    PROVE  VoyageInv'
<1>1. /\ TypeOK /\ w \in World /\ w.cargo \in Nat /\ seen' = w /\ m' = Adopted(w)
      /\ UNCHANGED <<w, garbled, moved, lossy, losses, act, missions>>
    BY WorldFields DEF VoyageInv, TypeOK, Capture, world
<1>2. CASE m # None /\ w.contract = "active" /\ m.sealed = 0
  <2>1. m \in Mission
      BY <1>1, <1>2, RowFields
  <2>2. m' = [m EXCEPT !.sealed = 1, !.open = 1, !.known = FALSE]
      BY <1>1, <1>2 DEF Adopted
  <2>3. m' \in Mission /\ m'.sealed = 1 /\ m'.open = 1 /\ m'.phase = m.phase /\ m'.settlement = m.settlement
    <3>0. PICK f \in BOOLEAN : f = FALSE
        OBVIOUS
    <3>1. PICK s \in 0..2 : s = 1
        OBVIOUS
    <3>2. m' = [m EXCEPT !.sealed = s, !.open = s, !.known = f]
        BY <2>2, <3>0, <3>1
    <3>3. m' \in Mission
        BY <2>1, <3>2 DEF Mission
    <3>4. m'.sealed = s /\ m'.open = s /\ m'.phase = m.phase /\ m'.settlement = m.settlement
        BY <2>1, <3>2 DEF Mission
    <3>5. QED
        BY <3>1, <3>3, <3>4
  <2>4. m'.known = FALSE
      BY <2>1, <2>2 DEF Mission
  <2>5. m' # None /\ m.settlement = None
      BY <1>2, <2>3 DEF VoyageInv, SettledInv
  <2>6. TypeOK'
      BY <1>1, <1>2, <2>3, <2>5 DEF TypeOK
  <2>7. ActShaped' /\ CaptureHolds' /\ SealInv'
      BY <1>1, <1>2, <2>3, <2>5 DEF VoyageInv, ActShaped, CaptureHolds, SealInv, SealsKept, Undone, Terminal
  <2>8. BooksInv' /\ SettledInv' /\ AccountingTrue'
      BY <1>1, <1>2, <2>3, <2>4, <2>5 DEF VoyageInv, BooksInv, SettledInv, AccountingTrue
  <2>9. QED
      BY <2>6, <2>7, <2>8 DEF VoyageInv
<1>3. CASE ~(m # None /\ w.contract = "active" /\ m.sealed = 0)
  <2>1. m' = m
      BY <1>1, <1>3 DEF Adopted
  <2>2. m # None => m.sealed \in Nat
      BY <1>1, RowFields
  <2>3. TypeOK' /\ ActShaped' /\ CaptureHolds'
      BY <1>1, <2>1 DEF VoyageInv, TypeOK, ActShaped, CaptureHolds, Undone, Terminal
  <2>4. SealInv'
      BY <1>1, <1>3, <2>1, <2>2 DEF VoyageInv, SealInv, SealsKept
  <2>5. BooksInv' /\ SettledInv' /\ AccountingTrue'
      BY <1>1, <2>1 DEF VoyageInv, BooksInv, DueOut, DueIn, DefaultPending, AcceptDone, SettledInv, AccountingTrue
  <2>6. QED
      BY <2>3, <2>4, <2>5 DEF VoyageInv
<1>4. QED
    BY <1>2, <1>3

-----------------------------------------------------------------------------
(* The server carries a request out, and answers *)

LEMMA EffectFacts ==
    ASSUME TypeOK, act # None, NEW n \in Tons, Possible(act), n \in Fills(act), w' = Effect(act, n)
    PROVE  /\ w' \in World
           /\ w'.contract = IF act.stage = "accept-freight" THEN "active"
                            ELSE IF act.stage = "deliver-freight" THEN "completed" ELSE w.contract
           /\ act.stage = "accept-freight" => w.contract = "open"
           /\ act.stage = "deliver-freight" => w.contract = "active"
           /\ w'.cargo >= IF act.stage = "accept-freight" THEN 1
                          ELSE IF act.stage \in {"sell", "deliver-charter"} THEN w.cargo - act.qty
                          ELSE IF act.stage = "deliver-freight" THEN 0 ELSE w.cargo
<1>1. w \in World /\ act \in Action /\ act.qty \in Nat /\ act.to \in Ports /\ n \in Nat /\ w.cargo \in Nat /\ w.cargo <= Lot + 1
    BY WorldFields, ActFields DEF TypeOK, Action, Tons
<1>2. CASE act.stage = "buy"
  <2>1. PICK c \in Tons : c = w.cargo + n
      BY <1>1, <1>2 DEF Fills, Tons
  <2>2. w' = [w EXCEPT !.cargo = c]
      BY <1>2, <2>1 DEF Effect
  <2>3. w' \in World /\ w'.cargo = c /\ w'.contract = w.contract
      BY <1>1, <2>2 DEF World
  <2>4. QED
      BY <1>1, <1>2, <2>1, <2>3
<1>3. CASE act.stage = "provision"
  <2>1. PICK b \in BOOLEAN : b = (w.stores \/ n > 0)
      OBVIOUS
  <2>2. w' = [w EXCEPT !.stores = b]
      BY <1>3, <2>1 DEF Effect
  <2>3. w' \in World /\ w'.cargo = w.cargo /\ w'.contract = w.contract
      BY <1>1, <2>2 DEF World
  <2>4. QED
      BY <1>1, <1>3, <2>3
<1>4. CASE act.stage = "offshore" \/ act.stage = "dock"
  <2>1. PICK s \in Statuses : w' = [w EXCEPT !.status = s]
      BY <1>4 DEF Effect, Statuses
  <2>2. w' \in World /\ w'.cargo = w.cargo /\ w'.contract = w.contract
      BY <1>1, <2>1 DEF World
  <2>3. QED
      BY <1>1, <1>4, <2>2
<1>5. CASE act.stage = "sell"
  <2>1. n <= act.qty /\ n <= w.cargo
      BY <1>1, <1>5 DEF Fills
  <2>2. PICK c \in Tons : c = w.cargo - n
      BY <1>1, <2>1 DEF Tons
  <2>3. w' = [w EXCEPT !.cargo = c]
      BY <1>5, <2>2 DEF Effect
  <2>4. w' \in World /\ w'.cargo = c /\ w'.contract = w.contract
      BY <1>1, <2>3 DEF World
  <2>5. QED
      BY <1>1, <1>5, <2>1, <2>2, <2>4
<1>6. CASE act.stage = "accept-freight"
  <2>1. w.contract = "open" /\ w.cargo <= Lot
      BY <1>6 DEF Possible
  <2>2. PICK c \in Tons : c = w.cargo + 1
      BY <1>1, <2>1 DEF Tons
  <2>3. w' = [w EXCEPT !.contract = "active", !.cargo = c]
      BY <1>6, <2>2 DEF Effect
  <2>4. w' \in World /\ w'.cargo = c /\ w'.contract = "active"
      BY <1>1, <2>3 DEF World
  <2>5. QED
      BY <1>1, <1>6, <2>1, <2>2, <2>4
<1>7. CASE act.stage = "depart"
  <2>1. w' = [w EXCEPT !.status = "sailing", !.to = act.to]
      BY <1>7 DEF Effect
  <2>2. w' \in World /\ w'.cargo = w.cargo /\ w'.contract = w.contract
      BY <1>1, <2>1 DEF World, Statuses
  <2>3. QED
      BY <1>1, <1>7, <2>2
<1>8. CASE act.stage = "deliver-freight"
  <2>1. w.contract = "active" /\ w.cargo > 0
      BY <1>8 DEF Possible
  <2>2. PICK c \in Tons : c = w.cargo - 1
      BY <1>1, <2>1 DEF Tons
  <2>3. w' = [w EXCEPT !.contract = "completed", !.cargo = c]
      BY <1>8, <2>2 DEF Effect
  <2>4. w' \in World /\ w'.cargo = c /\ w'.contract = "completed"
      BY <1>1, <2>3 DEF World, Terminal
  <2>5. QED
      BY <1>1, <1>8, <2>1, <2>2, <2>4
<1>9. CASE act.stage = "deliver-charter"
  <2>1. n <= act.qty /\ n <= w.cargo
      BY <1>1, <1>9 DEF Fills
  <2>2. PICK c \in Tons : c = w.cargo - n
      BY <1>1, <2>1 DEF Tons
  <2>3. w' = [w EXCEPT !.charter = FALSE, !.cargo = c]
      BY <1>9, <2>2 DEF Effect
  <2>4. w' \in World /\ w'.cargo = c /\ w'.contract = w.contract
      BY <1>1, <2>3 DEF World
  <2>5. QED
      BY <1>1, <1>9, <2>1, <2>2, <2>4
<1>10. QED
    BY <1>1, <1>2, <1>3, <1>4, <1>5, <1>6, <1>7, <1>8, <1>9, ActFields DEF Stages

\* The request is carried out: what it may take from the hold leaves the seal,
\* and what it costs and earns is due to the books.
LEMMA CarryKeeps ==
    ASSUME VoyageInv, act # None, NEW n \in Tons, NEW st \in {"receipt", "garbled", "pending"}, Carry(n, st),
           st = "garbled" => garbled < MaxGarbled,
           seen' = seen \/ seen' = None, UNCHANGED <<m, missions, losses>>
    PROVE  VoyageInv'
<1>1. /\ TypeOK /\ w \in World /\ w.cargo \in Nat /\ ~act.done /\ Possible(act) /\ n \in Fills(act)
      /\ w' = Effect(act, n) /\ n \in Nat /\ m # None /\ m.settlement = None
    BY WorldFields, ActFields DEF VoyageInv, TypeOK, Carry, SettledInv, Tons
<1>2. /\ w' \in World /\ w'.cargo \in Nat
      /\ w'.contract = IF act.stage = "accept-freight" THEN "active"
                       ELSE IF act.stage = "deliver-freight" THEN "completed" ELSE w.contract
      /\ act.stage = "accept-freight" => w.contract = "open"
      /\ act.stage = "deliver-freight" => w.contract = "active"
      /\ w'.cargo >= IF act.stage = "accept-freight" THEN 1
                     ELSE IF act.stage \in {"sell", "deliver-charter"} THEN w.cargo - act.qty
                     ELSE IF act.stage = "deliver-freight" THEN 0 ELSE w.cargo
    BY <1>1, EffectFacts, WorldFields
<1>3. act \in Action /\ act.qty \in Nat /\ act.stage \in Stages
    BY <1>1, ActFields
<1>4. act' \in Action /\ act' # None /\ act'.stage = act.stage /\ act'.st = st /\ act'.fill = n /\ act'.done
  <2>1. PICK t \in BOOLEAN : t = TRUE
      OBVIOUS
  <2>2. act' = [act EXCEPT !.done = t, !.st = st, !.fill = n]
      BY <2>1 DEF Carry
  <2>3. act' \in Action /\ act'.stage = act.stage /\ act'.st = st /\ act'.fill = n
      BY <1>3, <2>2 DEF Action
  <2>4. act'.done = t
      BY <1>3, <2>2 DEF Action
  <2>5. QED
      BY <2>1, <2>3, <2>4
<1>5. /\ moved.out \in Nat /\ moved.in \in Nat /\ moved.buys \in Nat
      /\ Outlay(act, n) \in Nat /\ Revenue(act, n) \in Nat
      /\ Outlay(act', n) = Outlay(act, n) /\ Revenue(act', n) = Revenue(act, n)
    BY <1>1, <1>4, MovedFields DEF Outlay, Revenue
<1>6. /\ moved' \in [out : Nat, in : Nat, buys : Nat]
      /\ moved'.out = moved.out + Outlay(act, n) /\ moved'.in = moved.in + Revenue(act, n)
  <2>1. PICK o \in Nat, i \in Nat, b \in Nat :
           /\ o = moved.out + Outlay(act, n) /\ i = moved.in + Revenue(act, n)
           /\ b = IF act.stage = "buy" /\ n > 0 THEN moved.buys + 1 ELSE moved.buys
      BY <1>5
  <2>2. moved' = [out |-> o, in |-> i, buys |-> b]
      BY <2>1 DEF Carry
  <2>3. QED
      BY <2>1, <2>2
<1>7. TypeOK'
  <2>1. garbled' \in 0..MaxGarbled
      BY <1>1 DEF Carry, TypeOK
  <2>2. lossy' \in BOOLEAN
      BY <1>1 DEF Carry, TypeOK
  <2>3. QED
      BY <1>1, <1>2, <1>4, <1>6, <2>1, <2>2 DEF TypeOK
<1>8. lossy' = IF act.stage = "accept-freight" THEN FALSE ELSE lossy
    BY DEF Carry
<1>9. ActShaped' /\ CaptureHolds'
    BY <1>2, <1>4 DEF VoyageInv, ActShaped, CaptureHolds, Undone
<1>10. SealInv'
  <2>1. SealsKept'
      BY <1>1, <1>2, <1>3, <1>8 DEF VoyageInv, SealInv, SealsKept
  <2>2. m.sealed \in Nat /\ m.open \in Nat
      BY <1>1, RowFields
  <2>3. m.sealed > 0 /\ w'.contract = "active" => m.open > 0
      BY <1>1, <1>2, <2>2 DEF VoyageInv, SealInv, ActShaped
  <2>4. seen' # None /\ seen'.contract = "active" => m.sealed > 0
      BY <1>1 DEF VoyageInv, SealInv
  <2>5. QED
      BY <1>1, <1>4, <2>1, <2>3, <2>4 DEF VoyageInv, SealInv
<1>11. BooksInv'
  <2>1. w'.contract = "active" /\ m.known => m.open > 0 \/ AcceptDone'
      BY <1>1, <1>2, <1>4 DEF VoyageInv, BooksInv, AcceptDone
  <2>2. DefaultPending => DefaultPending'
      BY <1>1, <1>2 DEF DefaultPending, AcceptDone
  <2>3. DueOut = 0 /\ DueIn = 0 /\ DueOut' = Outlay(act, n) /\ DueIn' = Revenue(act, n)
      BY <1>1, <1>4, <1>5 DEF DueOut, DueIn
  <2>4. m.books.out \in Nat /\ m.books.in \in Nat
      BY <1>1, RowFields
  <2>5. QED
      BY <1>1, <1>5, <1>6, <2>1, <2>2, <2>3, <2>4 DEF VoyageInv, BooksInv
<1>12. SettledInv' /\ AccountingTrue'
    BY <1>1 DEF VoyageInv, SettledInv, AccountingTrue
<1>13. QED
    BY <1>7, <1>9, <1>10, <1>11, <1>12 DEF VoyageInv

LEMMA AnswerKeeps ==
    ASSUME VoyageInv, act # None, NEW st \in {"receipt", "refused", "throttled", "pending"}, Answer(st),
           st = "receipt" => act.done, st \in {"refused", "throttled"} => ~act.done,
           seen' = seen \/ seen' = None, UNCHANGED <<m, missions, losses>>
    PROVE  VoyageInv'
<1>1. /\ TypeOK /\ m # None /\ m.settlement = None /\ UNCHANGED <<w, garbled, moved, lossy>>
    BY ActFields DEF VoyageInv, Answer, SettledInv, world
<1>2. /\ act' \in Action /\ act' # None /\ act'.stage = act.stage /\ act'.st = st /\ act'.fill = act.fill
      /\ act'.qty = act.qty /\ act'.done = act.done
  <2>1. act \in Action
      BY <1>1, ActFields
  <2>2. act' = [act EXCEPT !.st = st]
      BY DEF Answer
  <2>3. act' \in Action /\ act'.stage = act.stage /\ act'.st = st /\ act'.fill = act.fill /\ act'.qty = act.qty
      BY <2>1, <2>2 DEF Action
  <2>4. act'.done = act.done
      BY <2>1, <2>2 DEF Action
  <2>5. QED
      BY <2>3, <2>4
<1>3. TypeOK'
    BY <1>1, <1>2 DEF TypeOK
<1>4. ActShaped' /\ CaptureHolds' /\ SealInv'
    BY <1>1, <1>2 DEF VoyageInv, ActShaped, CaptureHolds, Undone, SealInv, SealsKept
<1>5. BooksInv'
    BY <1>1, <1>2 DEF VoyageInv, BooksInv, DueOut, DueIn, DefaultPending, AcceptDone, Outlay, Revenue
<1>6. SettledInv' /\ AccountingTrue'
    BY <1>1 DEF VoyageInv, SettledInv, AccountingTrue
<1>7. QED
    BY <1>3, <1>4, <1>5, <1>6 DEF VoyageInv

LEMMA RequestKeeps ==
    ASSUME VoyageInv, Send \/ CarryLate
    PROVE  VoyageInv'
<1>1. CASE Send
  <2>1. act # None /\ (seen' = seen \/ seen' = None) /\ UNCHANGED <<m, missions, losses>>
      BY <1>1 DEF Send
  <2>2. ASSUME NEW n \in Tons, NEW st \in {"receipt", "garbled", "pending"},
               st = "garbled" => garbled < MaxGarbled, Carry(n, st)
        PROVE  VoyageInv'
      BY <2>1, <2>2, CarryKeeps
  <2>3. ASSUME NEW st \in {"refused", "throttled", "pending"}, ~act.done, Answer(st)
        PROVE  VoyageInv'
      BY <2>1, <2>3, AnswerKeeps
  <2>4. ASSUME act.done, Answer("receipt")
        PROVE  VoyageInv'
      BY <2>1, <2>4, AnswerKeeps
  <2>5. QED
      BY <1>1, <2>2, <2>3, <2>4 DEF Send
<1>2. CASE CarryLate
    BY <1>2, CarryKeeps DEF CarryLate
<1>3. QED
    BY <1>1, <1>2

-----------------------------------------------------------------------------
(* Saving a row, staging a request *)

\* The parts of the invariant that concern the row, for the row to be saved.
RowSealed(row) ==
    /\ row.open <= row.sealed
    /\ row.sealed > 0 /\ w.contract = "active" => row.open > 0

RowBooked(row) ==
    row.known =>
        /\ w.contract = "active" => row.open > 0
        /\ row.settlement = None /\ ~(w.contract = "defaulted" /\ row.open > 0) =>
             moved.out = row.books.out /\ moved.in = row.books.in

RowSettled(row) ==
    /\ row.settlement # None <=> row.phase \in {"settling", "settled"}
    /\ row.settlement # None => w.contract # "active" /\ (w.cargo = 0 \/ w.status = "sunk")
    /\ row.settlement # None /\ row.settlement.known => row.settlement.books = [out |-> moved.out, in |-> moved.in]

\* A step of the mission keeps the invariant, and a row that goes leaves neither
\* cargo nor contract.
Emptied == w.contract # "active" /\ (w.cargo = 0 \/ w.status = "sunk")
Kept    == VoyageInv' /\ (m' = None => Emptied)

LEMMA SaveKeeps ==
    ASSUME VoyageInv, NEW row \in Mission, Save(row), RowSealed(row), RowBooked(row), RowSettled(row)
    PROVE  Kept
<1>1. /\ m' = row /\ row # None /\ seen' = None /\ act' = None
      /\ UNCHANGED <<w, garbled, moved, lossy, losses, missions>>
    BY DEF Save, world
<1>2. TypeOK'
    BY <1>1 DEF VoyageInv, TypeOK
<1>3. ActShaped' /\ CaptureHolds' /\ SealInv'
    BY <1>1 DEF VoyageInv, ActShaped, CaptureHolds, SealInv, SealsKept, RowSealed
<1>4. BooksInv'
  <2>1. row.books.out \in Nat /\ row.books.in \in Nat
      BY DEF Mission, Books
  <2>2. DueOut' = 0 /\ DueIn' = 0 /\ ~AcceptDone'
      BY <1>1 DEF DueOut, DueIn, AcceptDone
  <2>3. DefaultPending' <=> w.contract = "defaulted" /\ row.open > 0
      BY <1>1, <2>2 DEF DefaultPending
  <2>4. QED
      BY <1>1, <2>1, <2>2, <2>3 DEF BooksInv, RowBooked
<1>5. SettledInv' /\ AccountingTrue'
    BY <1>1 DEF SettledInv, AccountingTrue, RowSettled
<1>6. QED
    BY <1>1, <1>2, <1>3, <1>4, <1>5 DEF VoyageInv, Kept

LEMMA SaveNoneKeeps ==
    ASSUME VoyageInv, Save(None), Emptied
    PROVE  Kept
<1>1. m' = None /\ seen' = None /\ act' = None /\ UNCHANGED <<w, garbled, moved, lossy, losses, missions>>
    BY DEF Save, world
<1>2. TypeOK' /\ ActShaped' /\ CaptureHolds' /\ SealInv'
    BY <1>1 DEF VoyageInv, TypeOK, ActShaped, CaptureHolds, SealInv, SealsKept
<1>3. BooksInv' /\ SettledInv' /\ AccountingTrue'
    BY <1>1 DEF BooksInv, SettledInv, AccountingTrue
<1>4. QED
    BY <1>2, <1>3 DEF VoyageInv, Kept

\* A row that only its control fields tell apart from the mission's.
SameDuty(row) ==
    /\ row.sealed = m.sealed /\ row.open = m.open /\ row.books = m.books /\ (row.known => m.known)
    /\ row.settlement = m.settlement

LEMMA ControlKeeps ==
    ASSUME VoyageInv, m # None, act = None, m.settlement = None,
           NEW row \in Mission, SameDuty(row), row.phase \notin {"settling", "settled"}, Save(row)
    PROVE  Kept
<1>1. RowSealed(row)
    BY DEF VoyageInv, SealInv, SameDuty, RowSealed
<1>2. RowBooked(row)
  <2>1. m.books.out \in Nat /\ m.books.in \in Nat
      BY RowFields DEF VoyageInv
  <2>2. DueOut = 0 /\ DueIn = 0 /\ ~AcceptDone
      BY DEF DueOut, DueIn, AcceptDone
  <2>3. QED
      BY <2>1, <2>2 DEF VoyageInv, BooksInv, DefaultPending, SameDuty, RowBooked
<1>3. RowSettled(row)
    BY DEF SameDuty, RowSettled
<1>4. QED
    BY <1>1, <1>2, <1>3, SaveKeeps

LEMMA StageKeeps ==
    ASSUME VoyageInv, m # None, act = None, seen # None, m.settlement = None,
           NEW row \in Mission, SameDuty(row), row.phase \notin {"settling", "settled"},
           NEW stage \in Stages, NEW qty \in Tons, Stage(row, stage, qty),
           stage = "accept-freight" => m.sealed = 0 /\ seen.contract = "open",
           stage \in {"sell", "deliver-charter"} => qty + m.open <= seen.cargo
    PROVE  Kept
<1>1. /\ TypeOK /\ w \in World /\ seen \in World /\ m.open \in Nat /\ m.sealed \in Nat /\ qty \in Nat
      /\ seen.cargo \in Nat /\ w.cargo \in Nat
    BY WorldFields, RowFields DEF VoyageInv, TypeOK, Tons
<1>2. /\ m' = row /\ row # None /\ seen' = None /\ UNCHANGED <<w, garbled, moved, lossy, losses, missions>>
      /\ act' = [stage |-> stage, qty |-> qty, to |-> row.dest,
                 before |-> [port |-> seen.port, cargo |-> seen.cargo],
                 st |-> "staged", done |-> FALSE, fill |-> 0]
    BY DEF Stage, world
<1>3. /\ act' \in Action /\ act' # None /\ act'.stage = stage /\ act'.qty = qty /\ act'.st = "staged"
      /\ ~act'.done
  <2>1. row.dest \in Ports
      BY DEF Mission
  <2>2. act' \in Action
      BY <1>1, <1>2, <2>1, WorldFields DEF Action
  <2>3. QED
      BY <1>2, <2>2
<1>4. TypeOK'
    BY <1>1, <1>2, <1>3 DEF TypeOK
<1>5. ActShaped' /\ CaptureHolds'
    BY <1>1, <1>2, <1>3 DEF VoyageInv, ActShaped, CaptureHolds, Undone, SameDuty
<1>6. SealInv'
  <2>1. stage \in {"sell", "deliver-charter"} /\ w.contract = "active" /\ ~lossy => qty < w.cargo
    <3>1. w.contract = "active" => seen.contract = "active"
        BY <1>1, WorldFields DEF VoyageInv, CaptureHolds, Undone, Terminal
    <3>2. w.contract = "active" /\ ~lossy => w.cargo = seen.cargo
        BY DEF VoyageInv, CaptureHolds, Undone
    <3>3. w.contract = "active" => m.open > 0
        BY <3>1 DEF VoyageInv, SealInv
    <3>4. QED
        BY <1>1, <3>2, <3>3
  <2>2. QED
      BY <1>2, <1>3, <2>1 DEF VoyageInv, SealInv, SealsKept, SameDuty
<1>7. BooksInv'
  <2>1. DueOut = 0 /\ DueIn = 0 /\ DueOut' = 0 /\ DueIn' = 0 /\ ~AcceptDone /\ ~AcceptDone'
      BY <1>3 DEF DueOut, DueIn, AcceptDone
  <2>2. DefaultPending' <=> DefaultPending
      BY <1>2, <2>1 DEF DefaultPending, SameDuty
  <2>3. QED
      BY <1>2, <2>1, <2>2 DEF VoyageInv, BooksInv, SameDuty
<1>8. SettledInv' /\ AccountingTrue'
    BY <1>2 DEF SettledInv, AccountingTrue, SameDuty
<1>9. QED
    BY <1>2, <1>4, <1>5, <1>6, <1>7, <1>8 DEF VoyageInv, Kept

-----------------------------------------------------------------------------
(* Edits of the mission's control fields *)

LEMMA PhaseEdit ==
    ASSUME TypeOK, m # None, NEW p \in Phases, NEW row, row = [m EXCEPT !.phase = p]
    PROVE  row \in Mission /\ SameDuty(row) /\ row.phase = p /\ row.kind = m.kind /\ row.acted = m.acted
<1>1. m \in Mission
    BY RowFields
<1>2. row \in Mission /\ row.phase = p /\ row.kind = m.kind
    BY <1>1 DEF Mission
<1>3. SameDuty(row)
    BY <1>1 DEF SameDuty, Mission
<1>4. row.acted = m.acted
    BY <1>1 DEF Mission
<1>5. QED
    BY <1>2, <1>3, <1>4

LEMMA UnknownEdit ==
    ASSUME TypeOK, m # None, NEW p \in Phases, NEW row, row = [m EXCEPT !.known = FALSE, !.phase = p]
    PROVE  row \in Mission /\ SameDuty(row) /\ row.phase = p /\ row.kind = m.kind
<1>1. m \in Mission
    BY RowFields
<1>2. PICK f \in BOOLEAN : f = FALSE
    OBVIOUS
<1>3. row = [m EXCEPT !.known = f, !.phase = p]
    BY <1>2
<1>4. row \in Mission /\ row.phase = p /\ row.kind = m.kind
    BY <1>1, <1>3 DEF Mission
<1>5. ~row.known
    BY <1>1 DEF Mission
<1>6. row.sealed = m.sealed /\ row.open = m.open /\ row.books = m.books /\ row.settlement = m.settlement
    BY <1>1, <1>3 DEF Mission
<1>7. QED
    BY <1>4, <1>5, <1>6 DEF SameDuty

LEMMA WantsEdit ==
    ASSUME TypeOK, m # None, NEW b \in BOOLEAN, NEW row, row = [m EXCEPT !.wants = b] \/ row = [m EXCEPT !.refused = b]
    PROVE  row \in Mission /\ SameDuty(row) /\ row.phase = m.phase
<1>1. m \in Mission
    BY RowFields
<1>2. row \in Mission /\ row.phase = m.phase
    BY <1>1 DEF Mission
<1>3. SameDuty(row)
    BY <1>1 DEF SameDuty, Mission
<1>4. QED
    BY <1>2, <1>3

LEMMA DestEdit ==
    ASSUME TypeOK, m # None, NEW p \in Phases, NEW d \in Ports, NEW row, row = [m EXCEPT !.dest = d, !.phase = p]
    PROVE  row \in Mission /\ SameDuty(row) /\ row.phase = p
<1>1. m \in Mission
    BY RowFields
<1>2. row \in Mission /\ row.phase = p
    BY <1>1 DEF Mission
<1>3. SameDuty(row)
    BY <1>1 DEF SameDuty, Mission
<1>4. QED
    BY <1>2, <1>3

LEMMA EligibleEdit ==
    ASSUME TypeOK, m # None, NEW p \in Phases, NEW e \in Tons, NEW row, row = [m EXCEPT !.eligible = e, !.phase = p]
    PROVE  row \in Mission /\ SameDuty(row) /\ row.phase = p
<1>1. m \in Mission
    BY RowFields
<1>2. row \in Mission /\ row.phase = p
    BY <1>1 DEF Mission
<1>3. SameDuty(row)
    BY <1>1 DEF SameDuty, Mission
<1>4. QED
    BY <1>2, <1>3

LEMMA UnwindKeeps ==
    ASSUME VoyageInv, m # None, act = None, seen # None, m.settlement = None, Unwind
    PROVE  Kept
<1>1. m \in Mission /\ TypeOK /\ seen.port \in Ports /\ m.quantity \in Tons
    BY RowFields, WorldFields DEF VoyageInv, TypeOK
<1>2. DEFINE nothing == m.bought = 0 /\ m.sealed = 0 /\ seen.cargo = 0
             quantity == IF nothing THEN 0 ELSE m.quantity
             wants == m.wants /\ ~nothing
             row == [m EXCEPT !.kind = "aborted", !.origin = None, !.dest = seen.port, !.eligible = 0,
                              !.phase = "arrival", !.quantity = quantity, !.wants = wants]
<1>3. Save(row)
    BY DEF Unwind
<1>4. quantity \in Tons /\ wants \in BOOLEAN
    BY <1>1
<1>5. HIDE DEF nothing, quantity, wants
<1>6. PICK z \in Tons : z = 0
    OBVIOUS
<1>7. PICK p \in Phases : p = "arrival"
    BY DEF Phases
<1>8. PICK o \in Ports \cup {None}, d \in Ports, q \in Tons, b \in BOOLEAN :
         o = None /\ d = seen.port /\ q = quantity /\ b = wants
    BY <1>1, <1>4
<1>9. row = [m EXCEPT !.kind = "aborted", !.origin = o, !.dest = d, !.eligible = z, !.phase = p,
                      !.quantity = q, !.wants = b]
    BY <1>6, <1>7, <1>8
<1>10. row \in Mission /\ row.phase = p /\ SameDuty(row)
  <2>1. HIDE DEF row
  <2>2. row \in Mission /\ row.phase = p
      BY <1>1, <1>9 DEF Mission
  <2>3. SameDuty(row)
      BY <1>1, <1>9 DEF SameDuty, Mission
  <2>4. QED
      BY <2>2, <2>3
<1>11. HIDE DEF row
<1>12. QED
    BY <1>1, <1>3, <1>7, <1>10, ControlKeeps

-----------------------------------------------------------------------------
(* A mission's end *)

LEMMA FinishKeeps ==
    ASSUME VoyageInv, m # None, act = None, seen # None, NEW row \in Mission, SameDuty(row), row.kind = m.kind,
           row.phase = m.phase \/ (m.settlement = None /\ row.phase \notin {"settling", "settled"}),
           m.kind = "recovery" => m.settlement # None \/ seen.cargo = 0 \/ seen.status = "sunk",
           FinishMission(row)
    PROVE  Kept
<1>1. /\ TypeOK /\ w \in World /\ seen \in World /\ m.open \in Nat /\ m.books \in Books
      /\ seen.cargo \in Nat /\ w.cargo \in Nat /\ row.books = m.books /\ row.settlement = m.settlement
      /\ row.sealed = m.sealed /\ row.open = m.open
    BY WorldFields, RowFields DEF VoyageInv, TypeOK, SameDuty
<1>2. w.contract # "active"
    BY <1>1, WorldFields DEF VoyageInv, CaptureHolds, Undone, FinishMission, FinishReady, Terminal
<1>3. RowSealed(row)
    BY <1>1 DEF VoyageInv, SealInv, RowSealed
<1>4. CASE Save(None)
  <2>1. w.cargo = 0 \/ w.status = "sunk"
    <3>1. CASE m.settlement # None
        BY <3>1 DEF VoyageInv, SettledInv
    <3>2. CASE m.settlement = None
      <4>1. seen.cargo = 0 \/ seen.status = "sunk"
          BY <3>2 DEF FinishMission, FinishReady
      <4>2. QED
          BY <1>1, <4>1 DEF VoyageInv, CaptureHolds, Undone
    <3>3. QED
        BY <3>1, <3>2
  <2>2. QED
      BY <1>2, <1>4, <2>1, SaveNoneKeeps DEF Emptied
<1>5. ASSUME row.kind # "recovery", row.settlement = None, row.acted,
             Save([row EXCEPT !.settlement = [books |-> row.books, known |-> row.known], !.phase = "settling"])
      PROVE  Kept
  <2>1. m.open = 0 /\ (seen.status = "sunk" \/ seen.cargo = 0)
      BY <1>1, <1>5 DEF FinishMission, FinishReady
  <2>2. w.cargo = 0 \/ w.status = "sunk"
      BY <1>1, <2>1 DEF VoyageInv, CaptureHolds, Undone
  <2>3. DEFINE s == [books |-> row.books, known |-> row.known]
               new == [row EXCEPT !.settlement = s, !.phase = "settling"]
  <2>4. s \in [books : Books, known : BOOLEAN] /\ s # None /\ s.books = m.books
    <3>1. row.known \in BOOLEAN
        BY DEF Mission
    <3>2. s \in [books : Books, known : BOOLEAN]
        BY <1>1, <3>1
    <3>3. QED
        BY <1>1, <3>2
  <2>5. s.known => m.known
      BY DEF SameDuty
  <2>6. HIDE DEF s
  <2>7. PICK p \in Phases : p = "settling"
      BY DEF Phases
  <2>8. new = [row EXCEPT !.settlement = s, !.phase = p]
      BY <2>7
  <2>9. new \in Mission /\ new.phase = "settling" /\ new.settlement = s /\ new.sealed = m.sealed /\ new.open = m.open
      BY <1>1, <2>4, <2>7, <2>8 DEF Mission
  <2>10. s.known => m.books.out = moved.out /\ m.books.in = moved.in
    <3>1. DueOut = 0 /\ DueIn = 0 /\ ~DefaultPending
        BY <2>1 DEF DueOut, DueIn, DefaultPending, AcceptDone
    <3>2. m.books.out \in Nat /\ m.books.in \in Nat
        BY <1>1, RowFields
    <3>3. QED
        BY <1>1, <1>5, <2>5, <3>1, <3>2 DEF VoyageInv, BooksInv
  <2>11. s.known => s.books = [out |-> moved.out, in |-> moved.in]
      BY <1>1, <2>4, <2>10 DEF Books
  <2>12. RowSettled(new) /\ RowBooked(new)
      BY <1>2, <2>2, <2>4, <2>9, <2>11 DEF RowSettled, RowBooked
  <2>13. RowSealed(new)
      BY <1>1, <1>3, <2>9 DEF RowSealed
  <2>14. Save(new)
      BY <1>5 DEF s
  <2>15. HIDE DEF new
  <2>16. QED
      BY <2>9, <2>12, <2>13, <2>14, SaveKeeps
<1>6. ASSUME row.settlement # None, row.phase = "settling", Save([row EXCEPT !.phase = "settled"])
      PROVE  Kept
  <2>1. DEFINE new == [row EXCEPT !.phase = "settled"]
  <2>2. PICK p \in Phases : p = "settled"
      BY DEF Phases
  <2>3. new = [row EXCEPT !.phase = p]
      BY <2>2
  <2>4. /\ new \in Mission /\ new.phase = "settled" /\ new.settlement = m.settlement /\ new.sealed = m.sealed
        /\ new.open = m.open
      BY <1>1, <2>2, <2>3 DEF Mission
  <2>5. RowSettled(new) /\ RowBooked(new)
      BY <1>1, <1>2, <1>6, <2>4 DEF VoyageInv, SettledInv, AccountingTrue, RowSettled, RowBooked
  <2>6. RowSealed(new)
      BY <1>1, <1>3, <2>4 DEF RowSealed
  <2>7. HIDE DEF new
  <2>8. QED
      BY <1>6, <2>4, <2>5, <2>6, SaveKeeps DEF new
<1>7. QED
    BY <1>4, <1>5, <1>6 DEF FinishMission

-----------------------------------------------------------------------------
(* The mission's steps *)

\* What every step of a mission that is not being settled may rely on.
Active == m # None /\ act = None /\ seen # None /\ m.settlement = None

LEMMA DriveFacts ==
    ASSUME VoyageInv, NEW ps, "settling" \notin ps, "settled" \notin ps, Driving(ps)
    PROVE  /\ Active /\ TypeOK /\ m \in Mission /\ m.phase \notin {"settling", "settled"} /\ m.phase \in Phases
           /\ seen \in World /\ seen.cargo \in Nat /\ m.open \in Nat /\ m.eligible \in Nat /\ SameDuty(m)
<1>1. m # None /\ act = None /\ seen # None /\ m.phase \notin {"settling", "settled"} /\ TypeOK
    BY DEF Driving, VoyageInv
<1>2. m.settlement = None
    BY <1>1 DEF VoyageInv, SettledInv
<1>3. seen \in World /\ seen.cargo \in Nat
    BY <1>1, WorldFields DEF TypeOK
<1>4. m \in Mission /\ m.open \in Nat /\ m.eligible \in Nat /\ m.phase \in Phases
    BY <1>1, RowFields DEF Tons
<1>5. QED
    BY <1>1, <1>2, <1>3, <1>4 DEF SameDuty, Active

LEMMA StageSelf ==
    ASSUME VoyageInv, Active, NEW stage \in Stages \ {"accept-freight", "sell", "deliver-charter"}, NEW qty \in Tons,
           Stage(m, stage, qty)
    PROVE  Kept
<1>1. m \in Mission /\ SameDuty(m) /\ m.phase \notin {"settling", "settled"}
    BY RowFields DEF VoyageInv, SettledInv, SameDuty, Active
<1>2. QED
    BY <1>1, StageKeeps DEF Active

LEMMA DockKeeps ==
    ASSUME VoyageInv, Active, Dock \/ ProvisionMission
    PROVE  Kept
BY StageSelf DEF Dock, ProvisionMission, Stages

LEMMA MaintainKeeps ==
    ASSUME VoyageInv, Maintain \/ DriveProvision
    PROVE  Kept
<1>1. CASE Maintain
    BY <1>1, DriveFacts, DockKeeps DEF Maintain
<1>2. CASE DriveProvision
  <2>1. Active /\ TypeOK
      BY <1>2, DriveFacts DEF DriveProvision
  <2>2. ASSUME Save([m EXCEPT !.phase = "buy"])
        PROVE  Kept
      BY <2>1, <2>2, PhaseEdit, ControlKeeps DEF Active, Phases
  <2>3. QED
      BY <1>2, <2>1, <2>2, DockKeeps DEF DriveProvision
<1>3. QED
    BY <1>1, <1>2

LEMMA DriveBuyKeeps ==
    ASSUME VoyageInv, DriveBuy
    PROVE  Kept
<1>1. Active /\ TypeOK /\ m.quantity \in Tons
    BY DriveFacts, RowFields DEF DriveBuy, Active
<1>2. ASSUME Save([m EXCEPT !.phase = "freight"])
      PROVE  Kept
    BY <1>1, <1>2, PhaseEdit, ControlKeeps DEF Active, Phases
<1>3. ASSUME Unwind
      PROVE  Kept
    BY <1>1, <1>3, UnwindKeeps DEF Active
<1>4. ASSUME Stage(m, "buy", m.quantity)
      PROVE  Kept
    BY <1>1, <1>4, StageSelf DEF Stages
<1>5. QED
    BY <1>1, <1>2, <1>3, <1>4, DockKeeps DEF DriveBuy

LEMMA DriveFreightKeeps ==
    ASSUME VoyageInv, DriveFreight
    PROVE  Kept
<1>1. Active /\ TypeOK /\ m \in Mission /\ SameDuty(m) /\ m.phase \notin {"settling", "settled"}
    BY DriveFacts DEF DriveFreight
<1>2. ASSUME Save([m EXCEPT !.wants = FALSE])
      PROVE  Kept
  <2>1. PICK b \in BOOLEAN : b = FALSE
      OBVIOUS
  <2>2. Save([m EXCEPT !.wants = b])
      BY <1>2, <2>1
  <2>3. QED
      BY <1>1, <2>2, WantsEdit, ControlKeeps DEF Active
<1>3. ASSUME Save([m EXCEPT !.phase = "depart"])
      PROVE  Kept
    BY <1>1, <1>3, PhaseEdit, ControlKeeps DEF Active, Phases
<1>4. ASSUME m.sealed = 0, seen.contract = "open", Stage(m, "accept-freight", 1)
      PROVE  Kept
    BY <1>1, <1>4, StageKeeps DEF Active, Stages
<1>5. QED
    BY <1>1, <1>2, <1>3, <1>4, DockKeeps DEF DriveFreight

LEMMA DriveDepartKeeps ==
    ASSUME VoyageInv, DriveDepart
    PROVE  Kept
<1>1. Active /\ TypeOK /\ m \in Mission /\ SameDuty(m)
    BY DriveFacts DEF DriveDepart
<1>2. ASSUME Save([m EXCEPT !.known = FALSE, !.phase = "sailing"])
      PROVE  Kept
    BY <1>1, <1>2, UnknownEdit, ControlKeeps DEF Active, Phases
<1>3. ASSUME Unwind
      PROVE  Kept
    BY <1>1, <1>3, UnwindKeeps DEF Active
<1>4. ASSUME m.kind # "recovery", FinishMission(m)
      PROVE  Kept
    BY <1>1, <1>4, FinishKeeps DEF Active
<1>5. ASSUME Stage(m, "depart", 0)
      PROVE  Kept
    BY <1>1, <1>5, StageSelf DEF Stages
<1>6. QED
    BY <1>1, <1>2, <1>3, <1>4, <1>5, DockKeeps DEF DriveDepart

LEMMA CloseKeeps ==
    ASSUME VoyageInv, Active, Close
    PROVE  Kept
<1>1. TypeOK /\ m # None
    BY DEF VoyageInv, Active
<1>2. PICK closing : closing = [m EXCEPT !.phase = "closing"]
    OBVIOUS
<1>3. closing \in Mission /\ SameDuty(closing) /\ closing.phase = "closing" /\ closing.kind = m.kind
    BY <1>1, <1>2, PhaseEdit DEF Phases
<1>4. Stage(closing, "offshore", 0) \/ FinishMission(closing)
    BY <1>2 DEF Close
<1>5. CASE Stage(closing, "offshore", 0)
    BY <1>3, <1>5, StageKeeps DEF Active, Stages
<1>6. CASE FinishMission(closing)
  <2>1. seen.cargo = 0
      BY DEF Close
  <2>2. QED
      BY <1>3, <1>6, <2>1, FinishKeeps DEF Active
<1>7. QED
    BY <1>4, <1>5, <1>6

LEMMA DriveArrivalKeeps ==
    ASSUME VoyageInv, DriveArrival
    PROVE  Kept
<1>1. /\ Active /\ TypeOK /\ m \in Mission /\ SameDuty(m) /\ m.phase \notin {"settling", "settled"}
      /\ seen \in World /\ seen.cargo \in Nat /\ m.open \in Nat /\ m.eligible \in Nat /\ seen.cargo <= Lot + 1
    BY DriveFacts, WorldFields DEF DriveArrival
<1>2. ASSUME Save([m EXCEPT !.refused = FALSE])
      PROVE  Kept
  <2>1. PICK b \in BOOLEAN : b = FALSE
      OBVIOUS
  <2>2. Save([m EXCEPT !.refused = b])
      BY <1>2, <2>1
  <2>3. QED
      BY <1>1, <2>2, WantsEdit, ControlKeeps DEF Active
<1>3. ASSUME Stage(m, "deliver-freight", 1)
      PROVE  Kept
    BY <1>1, <1>3, StageSelf DEF Stages
<1>4. DEFINE free == Unreserved(seen.cargo)
             lot  == IF m.eligible < free THEN m.eligible ELSE free
<1>5. /\ free \in Nat /\ free <= seen.cargo /\ (free > 0 => free + m.open = seen.cargo)
      /\ free = 0 /\ m.open = 0 => seen.cargo = 0
    BY <1>1 DEF Unreserved, Minus
<1>6. ASSUME NEW n \in 0..free, NEW stage \in {"deliver-charter", "sell"}, free > 0, Stage(m, stage, n)
      PROVE  Kept
  <2>1. n \in Tons /\ n + m.open <= seen.cargo
      BY <1>1, <1>5, <1>6 DEF Tons
  <2>2. QED
      BY <1>1, <1>6, <2>1, StageKeeps DEF Active, Stages
<1>7. ASSUME Save([m EXCEPT !.dest = Away, !.phase = "depart"])
      PROVE  Kept
  <2>1. Away \in Ports /\ "depart" \in Phases
      BY DEF Ports, Phases
  <2>2. PICK row : row = [m EXCEPT !.dest = Away, !.phase = "depart"]
      OBVIOUS
  <2>3. row \in Mission /\ SameDuty(row) /\ row.phase = "depart"
      BY <1>1, <2>1, <2>2, DestEdit DEF Active
  <2>4. QED
      BY <1>1, <1>7, <2>2, <2>3, ControlKeeps DEF Active
<1>8. ASSUME seen.cargo = 0, FinishMission(m)
      PROVE  Kept
    BY <1>1, <1>8, FinishKeeps DEF Active
<1>9. lot \in 0..free
    BY <1>1, <1>5
<1>10. \/ Save([m EXCEPT !.refused = FALSE])
       \/ Stage(m, "deliver-freight", 1)
       \/ free > 0 /\ Stage(m, "deliver-charter", lot)
       \/ Dock
       \/ free > 0 /\ \E n \in 1..free : Stage(m, "sell", n)
       \/ Save([m EXCEPT !.dest = Away, !.phase = "depart"])
       \/ Close
       \/ free = 0 /\ m.open = 0 /\ FinishMission(m)
    BY DEF DriveArrival
<1>11. HIDE DEF free, lot
<1>12. QED
    BY <1>1, <1>2, <1>3, <1>5, <1>6, <1>7, <1>8, <1>9, <1>10, DockKeeps, CloseKeeps

LEMMA SailingArrivedKeeps ==
    ASSUME VoyageInv, SailingArrived
    PROVE  Kept
<1>1. /\ Active /\ TypeOK /\ seen \in World /\ seen.cargo \in Nat /\ seen.cargo <= Lot + 1 /\ m.open \in Nat
      /\ m.departed \in Tons
    BY DriveFacts, WorldFields, RowFields DEF SailingArrived, Active
<1>2. ArrivalEligibility \in Tons
    BY <1>1 DEF ArrivalEligibility, Unreserved, Minus, Tons
<1>3. PICK e \in Tons : e = ArrivalEligibility
    BY <1>2
<1>4. PICK row : row = [m EXCEPT !.eligible = e, !.phase = "arrival"]
    OBVIOUS
<1>5. row \in Mission /\ SameDuty(row) /\ row.phase = "arrival"
  <2>1. "arrival" \in Phases
      BY DEF Phases
  <2>2. QED
      BY <1>1, <1>3, <1>4, <2>1, EligibleEdit DEF Active
<1>6. Save(row)
    BY <1>3, <1>4 DEF SailingArrived
<1>7. QED
    BY <1>1, <1>5, <1>6, ControlKeeps DEF Active

LEMMA EndKeeps ==
    ASSUME VoyageInv, DriveClosing \/ Settle \/ Wreck
    PROVE  Kept
<1>1. CASE DriveClosing
  <2>1. Active
      BY <1>1, DriveFacts DEF DriveClosing
  <2>2. QED
      BY <1>1, <2>1, CloseKeeps DEF DriveClosing
<1>2. CASE Settle
  <2>1. m # None /\ act = None /\ seen # None /\ m \in Mission /\ SameDuty(m)
      BY <1>2, RowFields DEF Settle, Driving, VoyageInv, SameDuty
  <2>3. m.settlement # None
      BY <1>2, <2>1 DEF Settle, Driving, VoyageInv, SettledInv
  <2>2. QED
      BY <1>2, <2>1, <2>3, FinishKeeps DEF Settle
<1>3. CASE Wreck
  <2>1. m # None /\ act = None /\ seen # None /\ m \in Mission /\ TypeOK /\ m.phase \in Phases
      BY <1>3, RowFields DEF Wreck, VoyageInv
  <2>2. PICK row : row = [m EXCEPT !.known = FALSE]
      OBVIOUS
  <2>3. row = [m EXCEPT !.known = FALSE, !.phase = m.phase]
      BY <2>1, <2>2 DEF Mission
  <2>4. row \in Mission /\ SameDuty(row) /\ row.phase = m.phase /\ row.kind = m.kind
      BY <2>1, <2>3, UnknownEdit
  <2>5. FinishMission(row)
      BY <1>3, <2>2 DEF Wreck
  <2>6. QED
      BY <1>3, <2>1, <2>4, <2>5, FinishKeeps DEF Wreck
<1>4. QED
    BY <1>1, <1>2, <1>3

LEMMA ReconcileFreightKeeps ==
    ASSUME VoyageInv, ReconcileFreight
    PROVE  Kept
<1>1. /\ m # None /\ act = None /\ seen # None /\ m.settlement = None /\ m.open > 0 /\ seen.contract \in Terminal
      /\ TypeOK /\ m \in Mission /\ m.open \in 0..2 /\ m.sealed \in 0..2
      /\ m.books \in Books /\ m.books.out \in Nat
    BY RowFields DEF ReconcileFreight, Unreconciled, VoyageInv
<1>2. w.contract # "active"
    BY <1>1 DEF VoyageInv, CaptureHolds, Undone, Terminal
<1>3. PICK n \in Nat : n = IF seen.contract = "defaulted" THEN m.books.out + 1 ELSE m.books.out
    BY <1>1
<1>4. PICK b \in Books : b = [m.books EXCEPT !.out = n]
    BY <1>1 DEF Books
<1>5. PICK o \in 0..2 : o = m.open - 1
    BY <1>1
<1>6. PICK f \in BOOLEAN : f = FALSE
    OBVIOUS
<1>7. PICK row : row = [m EXCEPT !.open = o, !.known = f, !.books = b]
    OBVIOUS
<1>8. Save(row)
  <2>1. [m EXCEPT !.open = @ - 1, !.known = FALSE,
                  !.books.out = IF seen.contract = "defaulted" THEN @ + 1 ELSE @] = row
      BY <1>1, <1>3, <1>4, <1>5, <1>6, <1>7 DEF Mission
  <2>2. QED
      BY <2>1 DEF ReconcileFreight
<1>9. row \in Mission /\ row.open = o /\ row.sealed = m.sealed /\ row.settlement = None /\ row.phase = m.phase
    BY <1>1, <1>7 DEF Mission
<1>10. row.known = f
    BY <1>1, <1>7 DEF Mission
<1>11. RowSealed(row)
    BY <1>1, <1>2, <1>5, <1>9 DEF VoyageInv, SealInv, RowSealed
<1>12. RowBooked(row) /\ RowSettled(row)
    BY <1>1, <1>6, <1>9, <1>10 DEF VoyageInv, SettledInv, RowBooked, RowSettled
<1>13. QED
    BY <1>8, <1>9, <1>11, <1>12, SaveKeeps

-----------------------------------------------------------------------------
(* Outcomes *)

LEMMA VetoKeeps ==
    ASSUME VoyageInv, Veto
    PROVE  VoyageInv'
<1>1. act # None /\ act' = None /\ ~act.done /\ UNCHANGED <<w, garbled, moved, lossy, losses, seen, m, missions>>
    BY DEF Veto, VoyageInv, ActShaped, world
<1>2. TypeOK' /\ ActShaped' /\ CaptureHolds' /\ SealInv'
    BY <1>1 DEF VoyageInv, TypeOK, ActShaped, CaptureHolds, Undone, SealInv, SealsKept
<1>3. BooksInv'
    BY <1>1 DEF VoyageInv, BooksInv, DueOut, DueIn, DefaultPending, AcceptDone
<1>4. SettledInv' /\ AccountingTrue'
    BY <1>1 DEF VoyageInv, SettledInv, AccountingTrue
<1>5. QED
    BY <1>2, <1>3, <1>4 DEF VoyageInv

LEMMA PaidEarned ==
    ASSUME NEW q \in Mission, NEW n \in Nat
    PROVE  /\ Paid(q, n) \in Mission /\ Paid(q, n).books = [out |-> q.books.out + n, in |-> q.books.in]
           /\ Earned(q, n) \in Mission /\ Earned(q, n).books = [out |-> q.books.out, in |-> q.books.in + n]
           /\ Paid(q, n).phase = q.phase /\ Paid(q, n).sealed = q.sealed /\ Paid(q, n).open = q.open
           /\ Paid(q, n).settlement = q.settlement
           /\ Earned(q, n).phase = q.phase /\ Earned(q, n).sealed = q.sealed /\ Earned(q, n).open = q.open
           /\ Earned(q, n).settlement = q.settlement /\ Earned(q, n).eligible = q.eligible
           /\ Paid(q, n).known = q.known /\ Earned(q, n).known = q.known
<1>1. q.books \in Books /\ q.books.out \in Nat /\ q.books.in \in Nat
    BY DEF Mission, Books
<1>2. PICK b \in Books : b = [out |-> q.books.out + n, in |-> q.books.in]
  <2>1. q.books.out + n \in Nat
      BY <1>1
  <2>2. [out |-> q.books.out + n, in |-> q.books.in] \in Books
      BY <1>1, <2>1 DEF Books
  <2>3. QED
      BY <2>2
<1>3. PICK c \in Books : c = [out |-> q.books.out, in |-> q.books.in + n]
  <2>1. q.books.in + n \in Nat
      BY <1>1
  <2>2. [out |-> q.books.out, in |-> q.books.in + n] \in Books
      BY <1>1, <2>1 DEF Books
  <2>3. QED
      BY <2>2
<1>4. [q.books EXCEPT !.out = @ + n] = b /\ [q.books EXCEPT !.in = @ + n] = c
    BY <1>1, <1>2, <1>3 DEF Books
<1>5. Paid(q, n) = [q EXCEPT !.books = b] /\ Earned(q, n) = [q EXCEPT !.books = c]
    BY <1>4 DEF Paid, Earned, Mission
<1>6. /\ [q EXCEPT !.books = b] \in Mission /\ [q EXCEPT !.books = b].books = b
      /\ [q EXCEPT !.books = c] \in Mission /\ [q EXCEPT !.books = c].books = c
    BY DEF Mission
<1>7. ASSUME NEW v \in Books, NEW x, x = [q EXCEPT !.books = v]
      PROVE  /\ x.phase = q.phase /\ x.sealed = q.sealed /\ x.open = q.open /\ x.settlement = q.settlement
             /\ x.eligible = q.eligible
    BY <1>7 DEF Mission
<1>8. [q EXCEPT !.books = b].known = q.known
    BY DEF Mission
<1>9. [q EXCEPT !.books = c].known = q.known
    BY DEF Mission
<1>10. QED
    BY <1>2, <1>3, <1>5, <1>6, <1>7, <1>8, <1>9

LEMMA SameKnown ==
    ASSUME NEW q \in Mission, NEW n \in Nat
    PROVE  Paid(q, n).known = q.known /\ Earned(q, n).known = q.known
BY PaidEarned

\* What the row is after a receipt: its seals, and books that hold what the
\* request cost and earned.
Received(q) ==
    /\ q \in Mission /\ q.settlement = m.settlement /\ q.phase \notin {"settling", "settled"}
    /\ q.sealed = IF act.stage = "accept-freight" THEN m.sealed + 1 ELSE m.sealed
    /\ q.open = IF act.stage = "accept-freight" THEN m.open + 1
                ELSE IF act.stage = "deliver-freight" THEN Minus(m.open, 1) ELSE m.open
    /\ q.books = [out |-> m.books.out + Outlay(act, act.fill), in |-> m.books.in + Revenue(act, act.fill)]

LEMMA SameBooks ==
    ASSUME TypeOK, m # None
    PROVE  m.books = [out |-> m.books.out + 0, in |-> m.books.in + 0]
<1>1. m.books \in Books
    BY RowFields
<1>2. m.books = [out |-> m.books.out, in |-> m.books.in] /\ m.books.out + 0 = m.books.out /\ m.books.in + 0 = m.books.in
    BY <1>1 DEF Books
<1>3. QED
    BY <1>2

\* Books with one more cost, or one more income.
LEMMA PaidFacts ==
    ASSUME NEW q \in Mission, NEW n \in Nat, NEW x, x = Paid(q, n)
    PROVE  /\ x \in Mission /\ x.books = [out |-> q.books.out + n, in |-> q.books.in]
           /\ x.phase = q.phase /\ x.sealed = q.sealed /\ x.open = q.open
           /\ x.settlement = q.settlement /\ x.known = q.known
BY PaidEarned

LEMMA EarnedFacts ==
    ASSUME NEW q \in Mission, NEW n \in Nat, NEW x, x = Earned(q, n)
    PROVE  /\ x \in Mission /\ x.books = [out |-> q.books.out, in |-> q.books.in + n]
           /\ x.phase = q.phase /\ x.sealed = q.sealed /\ x.open = q.open
           /\ x.settlement = q.settlement /\ x.known = q.known /\ x.eligible = q.eligible
BY PaidEarned

LEMMA ReceiptRow ==
    ASSUME TypeOK, act # None, m.phase \notin {"settling", "settled"},
           act.stage = "accept-freight" => m.sealed <= 1 /\ m.open <= 1
    PROVE  Received(AfterReceipt(m)) /\ AfterReceipt(m).known = m.known
<1>1. /\ act \in Action /\ act.stage \in Stages /\ act.fill \in Tons /\ act.fill \in Nat /\ act.before.cargo \in Tons
      /\ m # None /\ m \in Mission /\ m.sealed \in 0..2 /\ m.open \in 0..2 /\ m.eligible \in Tons /\ m.eligible \in Nat
      /\ m.books.out \in Nat /\ m.books.in \in Nat
    BY ActFields, RowFields DEF Tons
<1>0. m \in Mission /\ act.fill \in Nat
    BY <1>1
<1>2. m.books = [out |-> m.books.out + 0, in |-> m.books.in + 0]
    BY <1>1, SameBooks
<1>3. Minus(m.eligible, act.fill) \in Tons /\ Minus(m.open, 1) \in 0..2
    BY <1>1 DEF Minus, Tons
<1>4. m.books.in + 0 = m.books.in /\ m.books.out + 0 = m.books.out
    BY <1>1
<1>5. CASE act.stage = "buy"
  <2>1. PICK q \in Mission : q = Paid(m, act.fill)
      BY <1>0, PaidFacts
  <2>2. /\ q.sealed = m.sealed /\ q.open = m.open /\ q.settlement = m.settlement
        /\ q.books = [out |-> m.books.out + act.fill, in |-> m.books.in]
      BY <1>0, <2>1, PaidFacts
  <2>3. PICK n \in Tons, p \in Phases : n = act.fill /\ p = "freight"
      BY <1>1 DEF Phases
  <2>4. AfterReceipt(m) = [q EXCEPT !.bought = n, !.quantity = n, !.phase = p]
      BY <1>5, <2>1, <2>3 DEF AfterReceipt, AfterBuy
  <2>5. /\ AfterReceipt(m) \in Mission /\ AfterReceipt(m).phase = p /\ AfterReceipt(m).sealed = q.sealed
        /\ AfterReceipt(m).open = q.open /\ AfterReceipt(m).settlement = q.settlement
        /\ AfterReceipt(m).books = q.books
      BY <2>4 DEF Mission
  <2>6. AfterReceipt(m).known = q.known
      BY <2>4 DEF Mission
  <2>7. q.known = m.known
      BY <1>0, <2>1, SameKnown
  <2>8. Received(AfterReceipt(m))
      BY <1>4, <1>5, <2>2, <2>3, <2>5 DEF Received, Outlay, Revenue
  <2>9. QED
      BY <2>6, <2>7, <2>8
<1>6. CASE act.stage = "provision"
  <2>1. AfterReceipt(m) = Paid(m, act.fill)
      BY <1>6 DEF AfterReceipt
  <2>2. PICK q \in Mission : q = Paid(m, act.fill)
      BY <1>0, PaidFacts
  <2>3. /\ q.sealed = m.sealed /\ q.open = m.open /\ q.settlement = m.settlement /\ q.phase = m.phase
        /\ q.known = m.known /\ q.books = [out |-> m.books.out + act.fill, in |-> m.books.in]
      BY <1>0, <2>2, PaidFacts
  <2>4. Received(q)
      BY <1>4, <1>6, <2>3 DEF Received, Outlay, Revenue
  <2>5. QED
      BY <2>1, <2>2, <2>3, <2>4
<1>7. CASE act.stage = "sell"
  <2>1. PICK q \in Mission : q = Earned(m, act.fill)
      BY <1>0, EarnedFacts
  <2>2. /\ q.sealed = m.sealed /\ q.open = m.open /\ q.settlement = m.settlement /\ q.phase = m.phase
        /\ q.books = [out |-> m.books.out, in |-> m.books.in + act.fill] /\ q.eligible = m.eligible
      BY <1>0, <2>1, EarnedFacts
  <2>3. PICK e \in Tons : e = Minus(q.eligible, act.fill)
      BY <1>3, <2>2
  <2>4. AfterReceipt(m) = [q EXCEPT !.eligible = e]
      BY <1>7, <2>1, <2>3 DEF AfterReceipt
  <2>5. /\ AfterReceipt(m) \in Mission /\ AfterReceipt(m).phase = q.phase /\ AfterReceipt(m).sealed = q.sealed
        /\ AfterReceipt(m).open = q.open /\ AfterReceipt(m).settlement = q.settlement
        /\ AfterReceipt(m).books = q.books
      BY <2>4 DEF Mission
  <2>6. AfterReceipt(m).known = q.known
      BY <2>4 DEF Mission
  <2>7. q.known = m.known
      BY <1>0, <2>1, SameKnown
  <2>8. Received(AfterReceipt(m))
      BY <1>4, <1>7, <2>2, <2>5 DEF Received, Outlay, Revenue
  <2>9. QED
      BY <2>6, <2>7, <2>8
<1>8. CASE act.stage = "accept-freight"
  <2>1. PICK s \in 0..2, o \in 0..2 : s = m.sealed + 1 /\ o = m.open + 1
      BY <1>1, <1>8
  <2>2. AfterReceipt(m) = [m EXCEPT !.sealed = s, !.open = o]
      BY <1>8, <2>1 DEF AfterReceipt
  <2>3. /\ AfterReceipt(m) \in Mission /\ AfterReceipt(m).phase = m.phase /\ AfterReceipt(m).sealed = s
        /\ AfterReceipt(m).open = o /\ AfterReceipt(m).settlement = m.settlement
        /\ AfterReceipt(m).books = m.books
      BY <1>1, <2>2 DEF Mission
  <2>4. AfterReceipt(m).known = m.known
      BY <1>1, <2>2 DEF Mission
  <2>5. Received(AfterReceipt(m))
      BY <1>2, <1>8, <2>1, <2>3 DEF Received, Outlay, Revenue
  <2>6. QED
      BY <2>4, <2>5
<1>9. CASE act.stage = "deliver-freight"
  <2>1. PICK q \in Mission : q = Earned(m, act.fill)
      BY <1>0, EarnedFacts
  <2>2. /\ q.sealed = m.sealed /\ q.open = m.open /\ q.settlement = m.settlement
        /\ q.books = [out |-> m.books.out, in |-> m.books.in + act.fill]
      BY <1>0, <2>1, EarnedFacts
  <2>3. PICK o \in 0..2, p \in Phases : o = Minus(m.open, 1) /\ p = "arrival"
      BY <1>3 DEF Phases
  <2>4. AfterReceipt(m) = [q EXCEPT !.open = o, !.phase = p]
      BY <1>9, <2>1, <2>2, <2>3 DEF AfterReceipt
  <2>5. /\ AfterReceipt(m) \in Mission /\ AfterReceipt(m).phase = p /\ AfterReceipt(m).sealed = q.sealed
        /\ AfterReceipt(m).open = o /\ AfterReceipt(m).settlement = q.settlement
        /\ AfterReceipt(m).books = q.books
      BY <2>4 DEF Mission
  <2>6. AfterReceipt(m).known = q.known
      BY <2>4 DEF Mission
  <2>7. q.known = m.known
      BY <1>0, <2>1, SameKnown
  <2>8. Received(AfterReceipt(m))
      BY <1>4, <1>9, <2>2, <2>3, <2>5 DEF Received, Outlay, Revenue
  <2>9. QED
      BY <2>6, <2>7, <2>8
<1>10. CASE act.stage = "deliver-charter"
  <2>1. PICK q \in Mission : q = Earned(m, act.fill)
      BY <1>0, EarnedFacts
  <2>2. /\ q.sealed = m.sealed /\ q.open = m.open /\ q.settlement = m.settlement /\ q.eligible = m.eligible
        /\ q.books = [out |-> m.books.out, in |-> m.books.in + act.fill]
      BY <1>0, <2>1, EarnedFacts
  <2>3. PICK e \in Tons, p \in Phases : e = Minus(q.eligible, act.fill) /\ p = "arrival"
      BY <1>3, <2>2 DEF Phases
  <2>4. AfterReceipt(m) = [q EXCEPT !.eligible = e, !.phase = p]
      BY <1>10, <2>1, <2>3 DEF AfterReceipt
  <2>5. /\ AfterReceipt(m) \in Mission /\ AfterReceipt(m).phase = p /\ AfterReceipt(m).sealed = q.sealed
        /\ AfterReceipt(m).open = q.open /\ AfterReceipt(m).settlement = q.settlement
        /\ AfterReceipt(m).books = q.books
      BY <2>4 DEF Mission
  <2>6. AfterReceipt(m).known = q.known
      BY <2>4 DEF Mission
  <2>7. q.known = m.known
      BY <1>0, <2>1, SameKnown
  <2>8. Received(AfterReceipt(m))
      BY <1>4, <1>10, <2>2, <2>3, <2>5 DEF Received, Outlay, Revenue
  <2>9. QED
      BY <2>6, <2>7, <2>8
<1>11. CASE act.stage = "depart"
  <2>1. PICK d \in Tons, p \in Phases : d = act.before.cargo /\ p = "sailing"
      BY <1>1 DEF Phases
  <2>2. AfterReceipt(m) = [m EXCEPT !.departed = d, !.phase = p]
      BY <1>11, <2>1 DEF AfterReceipt
  <2>3. /\ AfterReceipt(m) \in Mission /\ AfterReceipt(m).phase = p /\ AfterReceipt(m).sealed = m.sealed
        /\ AfterReceipt(m).open = m.open /\ AfterReceipt(m).settlement = m.settlement
        /\ AfterReceipt(m).books = m.books
      BY <1>1, <2>2 DEF Mission
  <2>4. AfterReceipt(m).known = m.known
      BY <1>1, <2>2 DEF Mission
  <2>5. Received(AfterReceipt(m))
      BY <1>2, <1>11, <2>1, <2>3 DEF Received, Outlay, Revenue
  <2>6. QED
      BY <2>4, <2>5
<1>12. CASE act.stage \in {"dock", "offshore"}
  <2>1. AfterReceipt(m) = m
      BY <1>12 DEF AfterReceipt
  <2>2. Received(AfterReceipt(m))
      BY <1>1, <1>2, <1>12, <2>1 DEF Received, Outlay, Revenue
  <2>3. QED
      BY <2>1, <2>2
<1>13. QED
    BY <1>1, <1>5, <1>6, <1>7, <1>8, <1>9, <1>10, <1>11, <1>12 DEF Stages

LEMMA ConsumeReceiptKeeps ==
    ASSUME VoyageInv, ConsumeReceipt
    PROVE  Kept
<1>1. TypeOK /\ act # None /\ act.st = "receipt" /\ act.done /\ m # None
    BY ActFields DEF ConsumeReceipt, VoyageInv, ActShaped
<1>2. m \in Mission /\ m.sealed \in 0..2 /\ m.open \in 0..2 /\ m.settlement = None /\ m.phase \notin {"settling", "settled"}
    BY <1>1, RowFields DEF VoyageInv, SettledInv
<1>3. act.stage = "accept-freight" => m.sealed <= 1 /\ m.open <= 1
    BY <1>1, <1>2 DEF VoyageInv, ActShaped, SealInv
<1>4. act.stage = "deliver-freight" => w.contract = "completed"
    BY <1>1 DEF VoyageInv, ActShaped
<1>5. Received(AfterReceipt(m))
    BY <1>1, <1>2, <1>3, ReceiptRow
<1>6. AfterReceipt(m).known = m.known
    BY <1>1, <1>2, <1>3, ReceiptRow
<1>7. PICK debt \in BOOLEAN : Save([AfterReceipt(m) EXCEPT !.acted = TRUE, !.known = @ /\ ~debt])
    BY DEF ConsumeReceipt
<1>8. PICK q \in Mission : q = AfterReceipt(m)
    BY <1>5 DEF Received
<1>9. PICK k \in BOOLEAN : k = (q.known /\ ~debt)
    OBVIOUS
<1>10. PICK t \in BOOLEAN : t = TRUE
    OBVIOUS
<1>11. PICK row : row = [q EXCEPT !.acted = t, !.known = k]
    OBVIOUS
<1>12. row \in Mission /\ row.phase = q.phase /\ row.sealed = q.sealed /\ row.open = q.open
       /\ row.books = q.books /\ row.settlement = q.settlement
    BY <1>11 DEF Mission
<1>13. row.known <=> k
    BY <1>11 DEF Mission
<1>14. Save(row)
  <2>1. [q EXCEPT !.acted = TRUE, !.known = @ /\ ~debt] = row
      BY <1>9, <1>10, <1>11 DEF Mission
  <2>2. QED
      BY <1>7, <1>8, <2>1
<1>15. k => m.known
    BY <1>6, <1>8, <1>9
<1>16. Received(q)
    BY <1>5, <1>8
<1>17. RowSealed(row)
  <2>1. row.sealed = q.sealed /\ row.open = q.open /\ m.open <= m.sealed
        /\ (m.sealed > 0 /\ w.contract = "active" => m.open > 0)
      BY <1>1, <1>12 DEF VoyageInv, SealInv
  <2>2. QED
      BY <1>2, <1>3, <1>4, <1>16, <2>1 DEF Received, Minus, RowSealed
<1>18. RowBooked(row)
  <2>1. DueOut = Outlay(act, act.fill) /\ DueIn = Revenue(act, act.fill)
      BY <1>1 DEF DueOut, DueIn
  <2>2. AcceptDone <=> act.stage = "accept-freight"
      BY <1>1 DEF AcceptDone
  <2>3. w.contract = "active" /\ row.known => row.open > 0
    <3>1. row.known /\ w.contract = "active" => m.open > 0 \/ act.stage = "accept-freight"
        BY <1>1, <1>12, <1>13, <1>15, <2>2 DEF VoyageInv, BooksInv
    <3>2. row.open = q.open
        BY <1>12
    <3>3. QED
        BY <1>2, <1>4, <1>16, <3>1, <3>2 DEF Received
  <2>4. ~(w.contract = "defaulted" /\ row.open > 0) => ~DefaultPending
    <3>1. row.open = q.open
        BY <1>12
    <3>2. QED
        BY <1>2, <1>4, <1>16, <2>2, <3>1 DEF Received, DefaultPending
  <2>5. row.known /\ ~DefaultPending => moved.out = m.books.out + DueOut /\ moved.in = m.books.in + DueIn
      BY <1>1, <1>2, <1>12, <1>13, <1>15 DEF VoyageInv, BooksInv
  <2>6. row.books.out = m.books.out + DueOut /\ row.books.in = m.books.in + DueIn
      BY <1>12, <1>16, <2>1 DEF Received
  <2>7. QED
      BY <2>3, <2>4, <2>5, <2>6 DEF RowBooked
<1>19. RowSettled(row)
    BY <1>2, <1>12, <1>16 DEF RowSettled, Received
<1>20. QED
    BY <1>12, <1>14, <1>17, <1>18, <1>19, SaveKeeps

LEMMA ConsumeRejectionKeeps ==
    ASSUME VoyageInv, ConsumeRejection
    PROVE  Kept
<1>1. TypeOK /\ act # None /\ ~act.done /\ m # None /\ seen # None
    BY ActFields DEF ConsumeRejection, VoyageInv, ActShaped
<1>2. m \in Mission /\ m.settlement = None /\ m.phase \notin {"settling", "settled"} /\ seen \in World
      /\ seen.terms \in 0..MaxTerms
    BY <1>1, RowFields, WorldFields DEF VoyageInv, SettledInv, TypeOK
<1>3. PICK q : q = IF act.st = "refused" THEN AfterRefusal(m) ELSE m
    OBVIOUS
<1>4. /\ q \in Mission /\ SameDuty(q) /\ q.phase \notin {"settling", "settled"}
  <2>1. CASE q = m
      BY <1>2, <2>1 DEF SameDuty
  <2>2. CASE q = [m EXCEPT !.phase = "freight"]
    <3>1. PICK p \in Phases : p = "freight"
        BY DEF Phases
    <3>2. q = [m EXCEPT !.phase = p]
        BY <2>2, <3>1
    <3>3. QED
        BY <1>1, <3>1, <3>2, PhaseEdit
  <2>3. CASE q = [m EXCEPT !.wants = FALSE]
      BY <1>1, <1>2, <2>3, WantsEdit
  <2>4. CASE q = [m EXCEPT !.refused = TRUE, !.phase = "tender_wait"]
    <3>1. PICK t \in BOOLEAN, p \in Phases : t = TRUE /\ p = "tender_wait"
        BY DEF Phases
    <3>2. q = [m EXCEPT !.refused = t, !.phase = p]
        BY <2>4, <3>1
    <3>3. /\ q \in Mission /\ q.phase = p /\ q.sealed = m.sealed /\ q.open = m.open /\ q.books = m.books
          /\ q.settlement = m.settlement
        BY <1>2, <3>2 DEF Mission
    <3>4. q.known = m.known
        BY <1>2, <3>2 DEF Mission
    <3>5. QED
        BY <3>1, <3>3, <3>4 DEF SameDuty
  <2>5. CASE q = [m EXCEPT !.badTerms = seen.terms]
    <3>1. PICK t \in 0..MaxTerms : t = seen.terms
        BY <1>2
    <3>2. q = [m EXCEPT !.badTerms = t]
        BY <2>5, <3>1
    <3>3. /\ q \in Mission /\ q.phase = m.phase /\ q.sealed = m.sealed /\ q.open = m.open /\ q.books = m.books
          /\ q.settlement = m.settlement
        BY <1>2, <3>2 DEF Mission
    <3>4. q.known = m.known
        BY <1>2, <3>2 DEF Mission
    <3>5. QED
        BY <1>2, <3>3, <3>4 DEF SameDuty
  <2>6. QED
      BY <1>3, <2>1, <2>2, <2>3, <2>4, <2>5 DEF AfterRefusal
<1>5. PICK row : row = [q EXCEPT !.acted = TRUE]
    OBVIOUS
<1>6. row \in Mission /\ SameDuty(row) /\ row.phase = q.phase
  <2>1. PICK t \in BOOLEAN : t = TRUE
      OBVIOUS
  <2>2. row = [q EXCEPT !.acted = t]
      BY <1>5, <2>1
  <2>3. /\ row \in Mission /\ row.phase = q.phase /\ row.sealed = q.sealed /\ row.open = q.open
        /\ row.books = q.books /\ row.settlement = q.settlement
      BY <1>4, <2>2 DEF Mission
  <2>4. row.known = q.known
      BY <1>4, <2>2 DEF Mission
  <2>5. QED
      BY <1>4, <2>3, <2>4 DEF SameDuty
<1>7. Save(row)
    BY <1>3, <1>5 DEF ConsumeRejection
<1>8. RowSealed(row)
    BY <1>1, <1>6 DEF VoyageInv, SealInv, SameDuty, RowSealed
<1>9. RowBooked(row)
  <2>1. m.books.out \in Nat /\ m.books.in \in Nat
      BY <1>1, RowFields
  <2>2. DueOut = 0 /\ DueIn = 0 /\ ~AcceptDone
      BY <1>1 DEF DueOut, DueIn, AcceptDone
  <2>3. QED
      BY <1>1, <1>2, <1>6, <2>1, <2>2 DEF VoyageInv, BooksInv, DefaultPending, SameDuty, RowBooked
<1>10. RowSettled(row)
    BY <1>2, <1>4, <1>6 DEF SameDuty, RowSettled
<1>11. QED
    BY <1>6, <1>7, <1>8, <1>9, <1>10, SaveKeeps

LEMMA ReconcileObservedKeeps ==
    ASSUME VoyageInv, ReconcileObservedAction
    PROVE  Kept
<1>1. TypeOK /\ act # None /\ m # None /\ act.before.cargo \in Tons
    BY ActFields DEF ReconcileObservedAction, VoyageInv
<1>2. m \in Mission /\ m.sealed \in 0..2 /\ m.open \in 0..2 /\ m.settlement = None /\ m.phase \notin {"settling", "settled"}
    BY <1>1, RowFields DEF VoyageInv, SettledInv
<1>3. PICK q : q = AfterEvidence(m)
    OBVIOUS
<1>4. /\ q \in Mission /\ q.settlement = None /\ q.phase \notin {"settling", "settled"}
      /\ \/ q.sealed = m.sealed /\ q.open = m.open
         \/ m.sealed = 0 /\ q.sealed = 1 /\ q.open = 1
  <2>1. CASE act.stage = "depart"
    <3>1. PICK d \in Tons, p \in Phases : d = act.before.cargo /\ p = "sailing"
        BY <1>1 DEF Phases
    <3>2. q = [m EXCEPT !.departed = d, !.phase = p]
        BY <1>3, <2>1, <3>1 DEF AfterEvidence
    <3>3. q \in Mission /\ q.phase = p /\ q.sealed = m.sealed /\ q.open = m.open /\ q.settlement = m.settlement
        BY <1>2, <3>2 DEF Mission
    <3>4. QED
        BY <1>2, <3>1, <3>3
  <2>2. CASE act.stage = "accept-freight"
    <3>1. PICK s \in 0..2, o \in 0..2 : /\ s = IF m.sealed = 0 THEN 1 ELSE m.sealed
                                        /\ o = IF m.sealed = 0 THEN 1 ELSE m.open
        BY <1>2
    <3>2. PICK p \in Phases : p = "freight"
        BY DEF Phases
    <3>3. q = [m EXCEPT !.sealed = s, !.open = o, !.phase = p]
        BY <1>2, <1>3, <2>2, <3>1, <3>2 DEF AfterEvidence, Mission
    <3>4. q \in Mission /\ q.phase = p /\ q.sealed = s /\ q.open = o /\ q.settlement = m.settlement
        BY <1>2, <3>3 DEF Mission
    <3>5. QED
        BY <1>2, <3>1, <3>2, <3>4
  <2>3. CASE act.stage = "deliver-freight"
    <3>1. PICK p \in Phases : p = "arrival"
        BY DEF Phases
    <3>2. q = [m EXCEPT !.phase = p]
        BY <1>3, <2>3, <3>1 DEF AfterEvidence
    <3>3. q \in Mission /\ q.phase = p /\ q.sealed = m.sealed /\ q.open = m.open /\ q.settlement = m.settlement
        BY <1>2, <3>2 DEF Mission
    <3>4. QED
        BY <1>2, <3>1, <3>3
  <2>4. CASE act.stage \notin {"depart", "accept-freight", "deliver-freight"}
    <3>1. q = m
        BY <1>3, <2>4 DEF AfterEvidence
    <3>2. QED
        BY <1>2, <3>1
  <2>5. QED
      BY <2>1, <2>2, <2>3, <2>4
<1>5. q \in Mission
    BY <1>4
<1>6. PICK t \in BOOLEAN : t = TRUE
    OBVIOUS
<1>7. PICK f \in BOOLEAN : f = FALSE
    OBVIOUS
<1>8. PICK row : row = [q EXCEPT !.acted = t, !.known = f]
    OBVIOUS
<1>9. row \in Mission /\ row.phase = q.phase /\ row.sealed = q.sealed /\ row.open = q.open
      /\ row.settlement = q.settlement
    BY <1>5, <1>8 DEF Mission
<1>10. row.known <=> f
    BY <1>5, <1>8 DEF Mission
<1>11. Save(row)
    BY <1>3, <1>6, <1>7, <1>8 DEF ReconcileObservedAction
<1>12. RowSealed(row)
    BY <1>1, <1>2, <1>4, <1>9 DEF VoyageInv, SealInv, RowSealed
<1>13. RowBooked(row) /\ RowSettled(row)
    BY <1>4, <1>7, <1>9, <1>10 DEF RowBooked, RowSettled
<1>14. QED
    BY <1>9, <1>11, <1>12, <1>13, SaveKeeps

-----------------------------------------------------------------------------
(* New missions *)

\* A mission that begins has done nothing, and knows every seal of the account.
Fresh(row) ==
    /\ row \in Mission /\ row.settlement = None /\ row.phase \notin {"settling", "settled"}
    /\ row.open = row.sealed /\ (w.contract = "active" => row.open > 0 /\ ~row.known)
    /\ row.books = [out |-> 0, in |-> 0]

LEMMA BeginKeeps ==
    ASSUME VoyageInv, NEW row, Fresh(row), Begin(row)
    PROVE  VoyageInv'
<1>1. /\ TypeOK /\ m = None /\ act = None /\ row # None /\ row.sealed \in 0..2
      /\ m' = row /\ act' = None /\ seen' = None /\ moved' = [out |-> 0, in |-> 0, buys |-> 0]
      /\ UNCHANGED <<w, losses, garbled, lossy>>
    BY DEF Begin, VoyageInv, TypeOK, Fresh, Mission
<1>2. TypeOK'
  <2>1. missions' \in 0..MaxMissions
      BY <1>1 DEF Begin, TypeOK
  <2>2. moved' \in [out : Nat, in : Nat, buys : Nat]
      BY <1>1
  <2>3. QED
      BY <1>1, <2>1, <2>2 DEF TypeOK, Fresh
<1>3. ActShaped' /\ CaptureHolds'
    BY <1>1 DEF ActShaped, CaptureHolds
<1>4. SealInv'
    BY <1>1 DEF VoyageInv, SealInv, SealsKept, Fresh
<1>5. BooksInv'
  <2>1. DueOut' = 0 /\ DueIn' = 0 /\ ~AcceptDone'
      BY <1>1 DEF DueOut, DueIn, AcceptDone
  <2>2. row.books.out = 0 /\ row.books.in = 0 /\ moved'.out = 0 /\ moved'.in = 0
      BY <1>1 DEF Fresh
  <2>3. QED
      BY <1>1, <2>1, <2>2 DEF BooksInv, Fresh
<1>6. SettledInv' /\ AccountingTrue'
    BY <1>1 DEF SettledInv, AccountingTrue, Fresh
<1>7. QED
    BY <1>2, <1>3, <1>4, <1>5, <1>6 DEF VoyageInv

LEMMA BlankRow ==
    /\ Blank \in Mission /\ Blank.settlement = None /\ Blank.phase = "provision"
    /\ Blank.sealed = 0 /\ Blank.open = 0 /\ Blank.books = [out |-> 0, in |-> 0]
<1>1. 0 \in 0..2 /\ [out |-> 0, in |-> 0] \in Books
    BY DEF Books
<1>2. Blank \in Mission
    BY <1>1 DEF Blank, Mission, Phases, Ports
<1>3. QED
    BY <1>2 DEF Blank

LEMMA RecoverShipKeeps ==
    ASSUME VoyageInv, RecoverShip
    PROVE  VoyageInv'
<1>1. m = None /\ act = None /\ seen # None /\ seen \in World /\ w \in World
    BY DEF RecoverShip, VoyageInv, TypeOK
<1>2. seen.port \in Ports /\ seen.to \in Ports /\ Away \in Ports
      /\ seen.contract \in {"open", "taken", "active", "completed", "defaulted"}
    BY <1>1, WorldFields DEF Ports
<1>3. w.contract = "active" => seen.contract = "active"
    BY <1>1, <1>2 DEF VoyageInv, CaptureHolds, Undone, Terminal
<1>4. PICK s \in 0..2 : s = IF seen.contract = "active" THEN 1 ELSE 0
    OBVIOUS
<1>5. PICK els \in BOOLEAN : els = (Stationary(seen) /\ s = 1 /\ seen.port # Away)
    OBVIOUS
<1>6. PICK d \in Ports : d = IF els THEN Away ELSE seen.to
    BY <1>2
<1>7. PICK o \in Ports \cup {None} : o = IF els THEN seen.port ELSE None
    BY <1>2
<1>8. PICK p \in Phases : /\ p = IF els THEN "depart" ELSE IF Stationary(seen) THEN "arrival" ELSE "sailing"
                          /\ p \notin {"settling", "settled"}
    BY DEF Phases
<1>9. PICK k \in {"voyage", "aborted", "recovery"} : k = "recovery"
    OBVIOUS
<1>10. PICK f \in BOOLEAN : f = FALSE
    OBVIOUS
<1>11. PICK q \in Mission : q = Blank
    BY BlankRow
<1>12. PICK row : row = [q EXCEPT !.kind = k, !.known = f, !.sealed = s, !.open = s, !.dest = d, !.origin = o,
                                  !.phase = p]
    OBVIOUS
<1>13. Begin(row)
    BY <1>4, <1>5, <1>6, <1>7, <1>8, <1>9, <1>10, <1>11, <1>12 DEF RecoverShip
<1>14. /\ row \in Mission /\ row.settlement = q.settlement /\ row.phase = p /\ row.open = s /\ row.sealed = s
       /\ row.books = q.books
    BY <1>12 DEF Mission
<1>15. row.known <=> f
    BY <1>12 DEF Mission
<1>16. Fresh(row)
    BY <1>3, <1>4, <1>8, <1>10, <1>11, <1>14, <1>15, BlankRow DEF Fresh
<1>17. QED
    BY <1>13, <1>16, BeginKeeps

LEMMA NewVoyageKeeps ==
    ASSUME VoyageInv, NewVoyage
    PROVE  VoyageInv'
<1>1. m = None /\ act = None /\ seen # None /\ seen \in World /\ w \in World /\ seen.contract # "active"
    BY DEF NewVoyage, VoyageInv, TypeOK, Orphaned
<1>2. seen.port \in Ports /\ seen.contract \in {"open", "taken", "active", "completed", "defaulted"}
    BY <1>1, WorldFields
<1>3. w.contract # "active"
    BY <1>1, <1>2 DEF VoyageInv, CaptureHolds, Undone, Terminal
<1>4. PICK n \in {0, Lot}, b \in BOOLEAN, to \in Ports \ {seen.port} :
         Begin([Blank EXCEPT !.origin = seen.port, !.dest = to, !.quantity = n, !.wants = b])
    BY DEF NewVoyage
<1>5. n \in Tons /\ to \in Ports
    BY DEF Tons
<1>6. PICK row : row = [Blank EXCEPT !.origin = seen.port, !.dest = to, !.quantity = n, !.wants = b]
    OBVIOUS
<1>7. /\ row \in Mission /\ row.settlement = None /\ row.phase = "provision" /\ row.open = 0 /\ row.sealed = 0
      /\ row.books = [out |-> 0, in |-> 0]
    BY <1>2, <1>5, <1>6, BlankRow DEF Mission
<1>8. Fresh(row)
    BY <1>3, <1>7 DEF Fresh
<1>9. QED
    BY <1>4, <1>6, <1>8, BeginKeeps

-----------------------------------------------------------------------------
(* The invariant, and what follows from it *)

LEMMA VoyageInit ==
    ASSUME Init
    PROVE  VoyageInv
<1>1. /\ w \in World /\ w.status # "sunk" /\ (w.contract = "active" => w.cargo = 1)
      /\ seen = None /\ m = None /\ act = None /\ missions = 0 /\ losses = 0 /\ garbled = 0
      /\ moved = [out |-> 0, in |-> 0, buys |-> 0] /\ lossy = FALSE
  <2>1. w \in World /\ w.status # "sunk"
      BY DEF Init
  <2>2. w.contract = "active" => w.cargo = 1
      BY DEF Init
  <2>3. QED
      BY <2>1, <2>2 DEF Init
<1>2. TypeOK
  <2>1. moved \in [out : Nat, in : Nat, buys : Nat] /\ lossy \in BOOLEAN
      BY <1>1
  <2>2. missions \in 0..MaxMissions /\ losses \in 0..MaxLosses /\ garbled \in 0..MaxGarbled
      BY <1>1
  <2>3. QED
      BY <1>1, <2>1, <2>2 DEF TypeOK
<1>3. ActShaped /\ CaptureHolds /\ SealInv
    BY <1>1 DEF ActShaped, CaptureHolds, SealInv, SealsKept
<1>4. BooksInv /\ SettledInv /\ AccountingTrue
    BY <1>1 DEF BooksInv, SettledInv, AccountingTrue
<1>5. QED
    BY <1>2, <1>3, <1>4 DEF VoyageInv

\* A pass that begins keeps the mission's row.
LEMMA CaptureKept ==
    ASSUME VoyageInv, Capture, m # None
    PROVE  m' # None
<1>1. m \in Mission
    BY RowFields DEF VoyageInv
<1>2. PICK f \in BOOLEAN : f = FALSE
    OBVIOUS
<1>3. PICK s \in 0..2 : s = 1
    OBVIOUS
<1>4. PICK q : q = [m EXCEPT !.sealed = s, !.open = s, !.known = f]
    OBVIOUS
<1>5. q \in Mission
    BY <1>1, <1>4 DEF Mission
<1>6. m' = m \/ m' = q
    BY <1>2, <1>3, <1>4 DEF Capture, Adopted
<1>7. QED
    BY <1>5, <1>6

LEMMA VoyageStep ==
    ASSUME VoyageInv, [Next]_vars
    PROVE  VoyageInv'
<1>1. CASE Arrive \/ LoseCargo \/ Sink \/ Default \/ OtherCarrier \/ NewTerms
    BY <1>1, WorldSteps, WorldKeeps DEF VoyageInv
<1>2. CASE Send \/ CarryLate
    BY <1>2, RequestKeeps
<1>3. CASE Capture
    BY <1>3, CaptureKeeps
<1>4. CASE Outcome
    BY <1>4, VetoKeeps, ConsumeReceiptKeeps, ConsumeRejectionKeeps, ReconcileObservedKeeps DEF Outcome, Kept
<1>5. CASE Drive
    BY <1>5, ReconcileFreightKeeps, EndKeeps, SailingArrivedKeeps, MaintainKeeps, DriveBuyKeeps,
       DriveFreightKeeps, DriveDepartKeeps, DriveArrivalKeeps DEF Drive, Kept
<1>6. CASE RecoverShip
    BY <1>6, RecoverShipKeeps
<1>7. CASE NewVoyage
    BY <1>7, NewVoyageKeeps
<1>8. CASE UNCHANGED vars
  <2>1. TypeOK' /\ ActShaped' /\ CaptureHolds' /\ SealInv'
      BY <1>8 DEF vars, VoyageInv, TypeOK, ActShaped, CaptureHolds, Undone, SealInv, SealsKept
  <2>2. BooksInv'
      BY <1>8 DEF vars, VoyageInv, BooksInv, DueOut, DueIn, DefaultPending, AcceptDone, Outlay, Revenue
  <2>3. SettledInv' /\ AccountingTrue'
      BY <1>8 DEF vars, VoyageInv, SettledInv, AccountingTrue
  <2>4. QED
      BY <2>1, <2>2, <2>3 DEF VoyageInv
<1>9. QED
    BY <1>1, <1>2, <1>3, <1>4, <1>5, <1>6, <1>7, <1>8 DEF Next

\* The parts of the invariant hold in every reachable state: a capture that was
\* not spent bounds the real hold, seals are known to the mission, and books
\* that claim to be known lack only what is under way.
THEOREM VoyageInvHolds == Spec => []VoyageInv
<1>1. Init => VoyageInv
    BY VoyageInit
<1>2. VoyageInv /\ [Next]_vars => VoyageInv'
    BY VoyageStep
<1>3. QED
    BY <1>1, <1>2, PTL DEF Spec

\* A settlement that says its costs are known states what the mission's
\* requests really cost and earned (recordTradeCosts, finishMission).
THEOREM AccountingTrueHolds == Spec => []AccountingTrue
<1>1. VoyageInv => AccountingTrue
    BY DEF VoyageInv
<1>2. QED
    BY <1>1, VoyageInvHolds, PTL

\* The sealed ton is never sold or chartered away (sealedReservations).
THEOREM SealsKeptHolds == Spec => []SealsKept
<1>1. VoyageInv => SealsKept
    BY DEF VoyageInv, SealInv
<1>2. QED
    BY <1>1, VoyageInvHolds, PTL

\* A mission's row goes only when the real hold is empty or lost and no contract
\* is under way (finishMission, closeAtDestination).
THEOREM NothingLeftAboardHolds == Spec => NothingLeftAboard
<1>1. ASSUME VoyageInv, [Next]_vars
      PROVE  [m # None /\ m' = None => w.contract # "active" /\ (w.cargo = 0 \/ w.status = "sunk")]_vars
  <2>1. SUFFICES ASSUME Next, m # None, m' = None
                 PROVE  Emptied
      BY <1>1 DEF Emptied
  <2>2. Arrive \/ LoseCargo \/ Sink \/ Default \/ OtherCarrier \/ NewTerms => FALSE
      BY <2>1 DEF Arrive, LoseCargo, Sink, Default, OtherCarrier, NewTerms, ship
  <2>3. Send \/ CarryLate \/ Veto => FALSE
      BY <2>1 DEF Send, CarryLate, Veto
  <2>4. Capture => FALSE
      BY <1>1, <2>1, CaptureKept
  <2>5. RecoverShip \/ NewVoyage => FALSE
      BY <2>1 DEF RecoverShip, NewVoyage
  <2>6. CASE Outcome
      BY <1>1, <2>1, <2>3, <2>6, ConsumeReceiptKeeps, ConsumeRejectionKeeps, ReconcileObservedKeeps DEF Outcome, Kept
  <2>7. CASE Drive
      BY <1>1, <2>1, <2>7, ReconcileFreightKeeps, EndKeeps, SailingArrivedKeeps, MaintainKeeps, DriveBuyKeeps,
         DriveFreightKeeps, DriveDepartKeeps, DriveArrivalKeeps DEF Drive, Kept
  <2>8. QED
      BY <2>1, <2>2, <2>3, <2>4, <2>5, <2>6, <2>7 DEF Next
<1>2. QED
    BY <1>1, VoyageInvHolds, PTL DEF Spec, NothingLeftAboard
=============================================================================
