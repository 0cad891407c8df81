-------------------------------- MODULE FunnelProofs -------------------------------
(***************************************************************************)
(* The live screens agree, for any number of deals, activities and days    *)
(* and any caps.  FunnelInv says what cards, activities and stage history  *)
(* people and the portal can leave; from it the screens are compared: days *)
(* are windows and windows are days, a scan that was not cut off is what   *)
(* it was made of, a queue is worked by place, and counts by day, by month *)
(* and by reason are parts of one count.                                   *)
(***************************************************************************)
EXTENDS ScoreProofs, FunnelReads

PortalStages == StagesUsed \cup {"NEW", "VISIT", "SALES", "SOLD", "LOST"}
DealCards ==
  [stage : PortalStages, owner : Sellers \cup {Closer}, tm : Sellers \cup {Unset}, sales : BOOLEAN,
   closed : BOOLEAN, sem : {"P", "S", "F"}, created : Int, closedAt : Int, touched : Int,
   filled : BOOLEAN, reason : {Unset} \cup {"price"}]
PortalActs ==
  [who : Sellers, deal : DealIds, kind : {"task", "call", "logged"}, born : Nat, due : Int, done : BOOLEAN,
   updated : Nat, answered : BOOLEAN]

FunnelInv ==
  /\ now \in Nat /\ DOMAIN deals = DealIds
  /\ \A d \in DealIds : deals[d] = NoDeal \/ deals[d] \in DealCards
  /\ acts \in Seq(PortalActs)
  /\ trail \subseteq [deal : DealIds, stage : PortalStages, at : Nat] /\ IsFiniteSet(trail)

LEMMA OwnStages == {"NEW", "VISIT", "SALES", "SOLD", "LOST"} \subseteq PortalStages
BY DEF PortalStages

(* One field of a card or of an activity at a time. *)
LEMMA FieldsChange ==
  /\ \A card \in DealCards, stage \in PortalStages : [card EXCEPT !.stage = stage] \in DealCards
  /\ \A card \in DealCards, owner \in Sellers \cup {Closer} : [card EXCEPT !.owner = owner] \in DealCards
  /\ \A card \in DealCards, tm \in Sellers : [card EXCEPT !.tm = tm] \in DealCards
  /\ \A card \in DealCards, b \in BOOLEAN : [card EXCEPT !.sales = b] \in DealCards
  /\ \A card \in DealCards, b \in BOOLEAN : [card EXCEPT !.closed = b] \in DealCards
  /\ \A card \in DealCards, b \in BOOLEAN : [card EXCEPT !.filled = b] \in DealCards
  /\ \A card \in DealCards, sem \in {"P", "S", "F"} : [card EXCEPT !.sem = sem] \in DealCards
  /\ \A card \in DealCards, t \in Nat : [card EXCEPT !.touched = t] \in DealCards
  /\ \A card \in DealCards, t \in Nat : [card EXCEPT !.closedAt = t] \in DealCards
  /\ \A card \in DealCards, reason \in {Unset} \cup {"price"} : [card EXCEPT !.reason = reason] \in DealCards
  /\ \A act \in PortalActs, b \in BOOLEAN : [act EXCEPT !.done = b] \in PortalActs
  /\ \A act \in PortalActs, b \in BOOLEAN : [act EXCEPT !.answered = b] \in PortalActs
BY DEF DealCards, PortalActs

LEMMA CardsChange ==
  ASSUME now \in Nat
  PROVE  /\ \A m \in Sellers : NewDeal(m) \in DealCards
         /\ \A card \in DealCards, stage \in PortalStages, filled \in BOOLEAN : Moved(card, stage, filled) \in DealCards
         /\ \A card \in DealCards, m \in Sellers : Visited(card, m) \in DealCards
         /\ \A m \in Sellers, d \in DealIds, kind \in {"task", "call", "logged"}, due \in Int : NewAct(m, d, kind, due) \in PortalActs
<1>1. \A m \in Sellers : NewDeal(m) \in DealCards
  BY DEF NewDeal, DealCards, PortalStages, NoDue
<1>2. \A card \in DealCards, stage \in PortalStages, filled \in BOOLEAN : Moved(card, stage, filled) \in DealCards
  <2> TAKE card \in DealCards, stage \in PortalStages, filled \in BOOLEAN
  <2>1. card.filled \/ filled \in BOOLEAN
    OBVIOUS
  <2> QED
    BY <2>1, FieldsChange DEF Moved
<1>3. \A card \in DealCards, m \in Sellers : Visited(card, m) \in DealCards
  BY FieldsChange, OwnStages DEF Visited
<1>4. \A m \in Sellers, d \in DealIds, kind \in {"task", "call", "logged"}, due \in Int : NewAct(m, d, kind, due) \in PortalActs
  BY DEF NewAct, PortalActs
<1> QED
  BY <1>1, <1>2, <1>3, <1>4

LEMMA OwnerKept ==
  ASSUME NEW card \in DealCards
  PROVE  /\ \A m : Visited(card, m).owner = card.owner
         /\ \A stage, filled : Moved(card, stage, filled).owner = card.owner
BY DEF Visited, Moved, DealCards

LEMMA FunnelStart == PortalInit => FunnelInv
<1> SUFFICES ASSUME PortalInit PROVE FunnelInv
  OBVIOUS
<1>1. now \in Nat
  BY DEF PortalInit
<1>2. \A card \in OldCards : card \in DealCards /\ card.owner \in Sellers
  <2>1. StagesUsed \subseteq PortalStages
    BY DEF PortalStages
  <2> TAKE card \in OldCards
  <2>2. PICK m \in Sellers : \/ card = NewDeal(m) \/ card = Visited(NewDeal(m), m)
                            \/ \E stage \in StagesUsed : card = Moved(NewDeal(m), stage, FALSE)
    BY Zenon DEF OldCards
  <2>3. NewDeal(m) \in DealCards /\ NewDeal(m).owner = m
    BY <1>1, CardsChange DEF NewDeal
  <2>4. CASE card = Visited(NewDeal(m), m)
    BY <1>1, <2>3, <2>4, CardsChange, OwnerKept
  <2>5. ASSUME NEW stage \in StagesUsed, card = Moved(NewDeal(m), stage, FALSE)
        PROVE  card \in DealCards /\ card.owner = m
    <3>1. \A filled \in BOOLEAN : /\ Moved(NewDeal(m), stage, filled) \in DealCards
                                  /\ Moved(NewDeal(m), stage, filled).owner = m
      BY <1>1, <2>1, <2>3, CardsChange, OwnerKept
    <3> QED
      BY <2>5, <3>1, Zenon
  <2> QED
    BY <2>2, <2>3, <2>4, <2>5
<1>3. DOMAIN deals = DealIds /\ \A d \in DealIds : deals[d] = NoDeal \/ deals[d] \in DealCards
  BY <1>2 DEF PortalInit
<1>4. acts \in Seq(PortalActs)
  <2>1. CASE acts = << >>
    BY <2>1
  <2>2. ASSUME NEW d \in {x \in DealIds : deals[x] # NoDeal}, NEW due \in Dues,
               acts = <<NewAct(deals[d].owner, d, "task", due)>>
        PROVE  acts \in Seq(PortalActs)
    <3>1. deals[d] \in OldCards
      BY DEF PortalInit
    <3>2. deals[d].owner \in Sellers
      BY <1>2, <3>1
    <3>3. NewAct(deals[d].owner, d, "task", due) \in PortalActs
      BY <1>1, <3>2, CardsChange, FunnelAssumption
    <3> QED
      BY <2>2, <3>3
  <2> QED
    BY <2>1, <2>2 DEF PortalInit
<1>5. trail \subseteq [deal : DealIds, stage : PortalStages, at : Nat] /\ IsFiniteSet(trail)
  BY FS_EmptySet DEF PortalInit
<1> QED
  BY <1>1, <1>3, <1>4, <1>5 DEF FunnelInv

LEMMA TrailGrows ==
  ASSUME FunnelInv, NEW d \in DealIds, NEW stage \in PortalStages, Enters(d, stage)
  PROVE  trail' \subseteq [deal : DealIds, stage : PortalStages, at : Nat] /\ IsFiniteSet(trail')
<1> DEFINE h == [deal |-> d, stage |-> stage, at |-> now]
<1>1. h \in [deal : DealIds, stage : PortalStages, at : Nat] /\ trail' = trail \cup {h}
  BY DEF FunnelInv, Enters
<1> HIDE DEF h
<1> QED
  BY <1>1, FS_AddElement DEF FunnelInv

LEMMA DealChanges ==
  ASSUME FunnelInv, NEW d \in DealIds, NEW card \in DealCards, deals' = [deals EXCEPT ![d] = card]
  PROVE  DOMAIN deals' = DealIds /\ \A e \in DealIds : deals'[e] = NoDeal \/ deals'[e] \in DealCards
BY DEF FunnelInv

LEMMA ActsGrow ==
  ASSUME FunnelInv, NEW act \in PortalActs, acts' = Append(acts, act)
  PROVE  acts' \in Seq(PortalActs)
BY DEF FunnelInv

LEMMA ActChanges ==
  ASSUME FunnelInv, NEW a \in 1..Len(acts), NEW act \in PortalActs, acts' = [acts EXCEPT ![a] = act]
  PROVE  acts' \in Seq(PortalActs)
BY DEF FunnelInv

LEMMA FunnelStep == FunnelInv /\ [PortalNext]_portalVars => FunnelInv'
<1> SUFFICES ASSUME FunnelInv, [PortalNext]_portalVars PROVE FunnelInv'
  OBVIOUS
<1>1. now \in Nat /\ \A d \in DealIds : deals[d] # NoDeal => deals[d] \in DealCards
  BY DEF FunnelInv
<1>2. \A d \in DealIds, m \in Sellers : d \in OwnDeals(m) => deals[d] \in DealCards
  BY <1>1 DEF OwnDeals
<1>3. CASE UNCHANGED portalVars
  BY <1>3 DEF FunnelInv, portalVars
<1>4. CASE ClockTicks
  BY <1>4 DEF FunnelInv, ClockTicks
<1>5. ASSUME NEW d \in DealIds, HandOver(d) PROVE FunnelInv'
  <2> DEFINE card == [deals[d] EXCEPT !.stage = "SALES", !.sem = "P", !.closed = FALSE, !.sales = TRUE, !.owner = Closer]
  <2>1. deals[d] \in DealCards
    BY <1>1, <1>5 DEF HandOver, NoDeal
  <2>2. card \in DealCards /\ deals' = [deals EXCEPT ![d] = card]
    BY <1>5, <2>1, FieldsChange, OwnStages DEF HandOver
  <2> HIDE DEF card
  <2> QED
    BY <1>5, <2>2, DealChanges DEF FunnelInv, HandOver
<1>6. ASSUME NEW d \in DealIds, SellDeal(d) PROVE FunnelInv'
  <2> DEFINE card == [deals[d] EXCEPT !.stage = "SOLD", !.sem = "S", !.closed = TRUE]
  <2>1. deals[d] \in DealCards
    BY <1>1, <1>6 DEF SellDeal, NoDeal
  <2>2. card \in DealCards /\ deals' = [deals EXCEPT ![d] = card] /\ Enters(d, "SOLD")
    BY <1>6, <2>1, FieldsChange, OwnStages DEF SellDeal
  <2> HIDE DEF card
  <2> QED
    BY <1>6, <2>2, DealChanges, TrailGrows, OwnStages DEF FunnelInv, SellDeal
<1>7. ASSUME NEW d \in DealIds, NEW m \in Sellers, OpenDeal(d, m) PROVE FunnelInv'
  <2>1. NewDeal(m) \in DealCards /\ deals' = [deals EXCEPT ![d] = NewDeal(m)] /\ Enters(d, "NEW")
    BY <1>1, <1>7, CardsChange DEF OpenDeal
  <2> QED
    BY <1>7, <2>1, DealChanges, TrailGrows, OwnStages DEF FunnelInv, OpenDeal
<1>8. ASSUME NEW d \in DealIds, NEW m \in Sellers, VisitDeal(m, d) PROVE FunnelInv'
  <2>1. Visited(deals[d], m) \in DealCards /\ deals' = [deals EXCEPT ![d] = Visited(deals[d], m)] /\ Enters(d, "VISIT")
    BY <1>1, <1>2, <1>8, CardsChange DEF VisitDeal
  <2> QED
    BY <1>8, <2>1, DealChanges, TrailGrows, OwnStages DEF FunnelInv, VisitDeal
<1>9. ASSUME NEW d \in DealIds, NEW m \in Sellers, NEW stage \in StagesUsed, NEW filled \in BOOLEAN,
             MoveDeal(m, d, stage, filled)
      PROVE  FunnelInv'
  <2>1. stage \in PortalStages
    BY DEF PortalStages
  <2>2. /\ Moved(deals[d], stage, filled) \in DealCards /\ Enters(d, stage)
        /\ deals' = [deals EXCEPT ![d] = Moved(deals[d], stage, filled)]
    BY <1>1, <1>2, <1>9, <2>1, CardsChange DEF MoveDeal
  <2> QED
    BY <1>9, <2>1, <2>2, DealChanges, TrailGrows, OwnStages DEF FunnelInv, MoveDeal
<1>10. ASSUME NEW d \in DealIds, NEW m \in Sellers, NEW reason \in {Unset} \cup {"price"}, LoseDeal(m, d, reason)
       PROVE  FunnelInv'
  <2> DEFINE card == [deals[d] EXCEPT !.stage = "LOST", !.sem = "F", !.closed = TRUE, !.closedAt = now, !.reason = reason]
  <2>1. deals[d] \in DealCards
    BY <1>2, <1>10 DEF LoseDeal
  <2>2. card \in DealCards /\ deals' = [deals EXCEPT ![d] = card] /\ Enters(d, "LOST")
    BY <1>1, <1>10, <2>1, FieldsChange, OwnStages DEF LoseDeal
  <2> HIDE DEF card
  <2> QED
    BY <1>10, <2>2, DealChanges, TrailGrows, OwnStages DEF FunnelInv, LoseDeal
<1>11. ASSUME NEW d \in DealIds, NEW m \in Sellers, NEW kind \in {"task", "call"}, NEW due \in Dues, PlanAct(m, d, kind, due)
       PROVE  FunnelInv'
  <2>1. NewAct(m, d, kind, due) \in PortalActs /\ acts' = Append(acts, NewAct(m, d, kind, due))
    BY <1>1, <1>11, CardsChange, FunnelAssumption DEF PlanAct
  <2> QED
    BY <1>11, <2>1, ActsGrow DEF FunnelInv, PlanAct
<1>12. ASSUME NEW d \in DealIds, NEW m \in Sellers, NEW answered \in BOOLEAN, Dial(m, d, answered) PROVE FunnelInv'
  <2> DEFINE act == [NewAct(m, d, "logged", now) EXCEPT !.done = TRUE, !.answered = answered]
  <2>1. act \in PortalActs /\ acts' = Append(acts, act)
    <3>1. NewAct(m, d, "logged", now) \in PortalActs
      BY <1>1, CardsChange
    <3> QED
      BY <1>12, <3>1, FieldsChange DEF Dial
  <2> HIDE DEF act
  <2> QED
    BY <1>12, <2>1, ActsGrow DEF FunnelInv, Dial
<1>13. ASSUME NEW d \in DealIds, NEW m \in Sellers, NEW text, WriteComment(m, d, text) PROVE FunnelInv'
  BY <1>13 DEF FunnelInv, WriteComment
<1>14. ASSUME NEW a \in 1..Len(acts), FinishAct(a) PROVE FunnelInv'
  <2> DEFINE act == [acts[a] EXCEPT !.done = TRUE, !.updated = now]
  <2>1. acts[a] \in PortalActs
    BY DEF FunnelInv
  <2>2. act \in PortalActs /\ acts' = [acts EXCEPT ![a] = act]
    BY <1>1, <1>14, <2>1 DEF FinishAct, PortalActs
  <2> HIDE DEF act
  <2> QED
    BY <1>14, <2>2, ActChanges DEF FunnelInv, FinishAct
<1>15. ASSUME NEW a \in 1..Len(acts), NEW due \in Dues, MoveAct(a, due) PROVE FunnelInv'
  <2> DEFINE act == [acts[a] EXCEPT !.due = due, !.updated = now]
  <2>1. acts[a] \in PortalActs
    BY DEF FunnelInv
  <2>2. act \in PortalActs /\ acts' = [acts EXCEPT ![a] = act]
    BY <1>1, <1>15, <2>1, FunnelAssumption DEF MoveAct, PortalActs
  <2> HIDE DEF act
  <2> QED
    BY <1>15, <2>2, ActChanges DEF FunnelInv, MoveAct
<1> QED
  BY <1>3, <1>4, <1>5, <1>6, <1>7, <1>8, <1>9, <1>10, <1>11, <1>12, <1>13, <1>14, <1>15 DEF PortalNext

-----------------------------------------------------------------------------
(* Days and months. *)

LEMMA DivIs ==
  ASSUME NEW t \in Int, NEW n \in Nat \ {0}, NEW d \in Int
  PROVE  t \div n = d <=> d * n <= t /\ t < (d + 1) * n
<1> DEFINE q == t \div n
<1>1. q \in Int /\ q * n <= t /\ t < (q + 1) * n
  OBVIOUS
<1> HIDE DEF q
<1>2. ASSUME d * n <= t, t < (d + 1) * n PROVE q = d
  <2>1. CASE q < d
    <3>1. (q + 1) * n <= d * n
      BY <1>1, <2>1
    <3> QED
      BY <1>1, <1>2, <3>1
  <2>2. CASE q > d
    <3>1. (d + 1) * n <= q * n
      BY <1>1, <2>2
    <3> QED
      BY <1>1, <1>2, <3>1
  <2> QED
    BY <1>1, <2>1, <2>2
<1> QED
  BY <1>1, <1>2 DEF q

LEMMA TimesGrows ==
  ASSUME NEW n \in Nat \ {0}, NEW a \in Int, NEW b \in Int, a <= b
  PROVE  a * n <= b * n
OBVIOUS

LEMMA TimesInt == ASSUME NEW a \in Int, NEW b \in Int PROVE a * b \in Int
OBVIOUS

LEMMA DayIs ==
  ASSUME NEW t \in Int
  PROVE  /\ DayOf(t) \in Int /\ (t \in Nat => DayOf(t) \in Nat)
         /\ \A d \in Int : DayOf(t) = d <=> In(OneDay(d), t)
<1>1. DayLength \in Nat \ {0}
  BY FunnelAssumption
<1>2. DayOf(t) \in Int /\ (t \in Nat => DayOf(t) \in Nat)
  BY <1>1 DEF DayOf
<1>3. \A d \in Int : DayOf(t) = d <=> In(OneDay(d), t)
  BY <1>1, DivIs DEF DayOf, In, OneDay, Days
<1> QED
  BY <1>2, <1>3

LEMMA InDays ==
  ASSUME NEW t \in Int, NEW first \in Int, NEW last \in Int
  PROVE  In(Days(first, last), t) <=> first <= DayOf(t) /\ DayOf(t) <= last
<1> DEFINE d == DayOf(t)
<1>1. DayLength \in Nat \ {0} /\ d \in Int
  BY FunnelAssumption, DayIs
<1>2. d * DayLength <= t /\ t < (d + 1) * DayLength
  BY <1>1, DivIs DEF DayOf
<1>3. In(Days(first, last), t) <=> first * DayLength <= t /\ t < (last + 1) * DayLength
  BY DEF In, Days
<1> HIDE DEF d
<1>4. ASSUME first <= d PROVE first * DayLength <= t
  <2>1. first * DayLength <= d * DayLength
    BY <1>1, <1>4, TimesGrows
  <2> QED
    BY <1>1, <1>2, <2>1, TimesInt
<1>5. ASSUME ~(first <= d) PROVE ~(first * DayLength <= t)
  <2>1. (d + 1) * DayLength <= first * DayLength
    BY <1>1, <1>5, TimesGrows
  <2> QED
    BY <1>1, <1>2, <2>1, TimesInt
<1>6. ASSUME d <= last PROVE t < (last + 1) * DayLength
  <2>1. (d + 1) * DayLength <= (last + 1) * DayLength
    BY <1>1, <1>6, TimesGrows
  <2> QED
    BY <1>1, <1>2, <2>1, TimesInt
<1>7. ASSUME ~(d <= last) PROVE ~(t < (last + 1) * DayLength)
  <2>1. (last + 1) * DayLength <= d * DayLength
    BY <1>1, <1>7, TimesGrows
  <2> QED
    BY <1>1, <1>2, <2>1, TimesInt
<1> QED
  BY <1>3, <1>4, <1>5, <1>6, <1>7 DEF d

Whole == Days(0, DayOf(now))

LEMMA WholeIsAll ==
  ASSUME FunnelInv
  PROVE  /\ now \in Nat /\ DayOf(now) \in Nat /\ DaysSoFar = 0..DayOf(now) /\ IsFiniteSet(DaysSoFar)
         /\ DaysSoFar \in SUBSET Nat
         /\ \A t \in Nat : In(Whole, t) <=> DayOf(t) \in DaysSoFar
         /\ ExportDays(Whole) = {d \in DaysSoFar : Elapsed(d) # {}}
<1>1. now \in Nat /\ DayOf(now) \in Nat /\ DaysSoFar = 0..DayOf(now)
  BY DayIs DEF FunnelInv, DaysSoFar
<1>2. IsFiniteSet(DaysSoFar) /\ DaysSoFar \in SUBSET Nat
  BY <1>1, FS_Interval
<1>3. \A t \in Nat : In(Whole, t) <=> DayOf(t) \in DaysSoFar
  BY <1>1, InDays, DayIs DEF Whole
<1>4. ExportDays(Whole) = {d \in DaysSoFar : Elapsed(d) # {}}
  <2> DEFINE n == DayOf(now)
             last == (n + 1) * DayLength
  <2>1. DayLength \in Nat \ {0} /\ n \in Nat /\ last \in Int /\ n * DayLength \in Int
    BY <1>1, FunnelAssumption, TimesInt
  <2>2. last = n * DayLength + DayLength
    BY <2>1
  <2>3. (0 + 0) * DayLength = 0 /\ (0 + 1) * DayLength = DayLength /\ 0 * DayLength = 0
    BY <2>1
  <2>4. DayOf(0) = 0
    BY <2>1, <2>3, DivIs DEF DayOf
  <2>5. last - 1 \in Int /\ n * DayLength <= last - 1 /\ last - 1 < (n + 1) * DayLength
    BY <2>1, <2>2
  <2>6. DayOf(last - 1) = n
    BY <2>1, <2>5, DivIs DEF DayOf
  <2>7. Whole.from = 0 /\ Whole.to = last
    BY <2>3 DEF Whole, Days
  <2>8. ExportDays(Whole) = {d \in DayOf(0)..DayOf(last - 1) : Elapsed(d) # {}}
    BY <2>7 DEF ExportDays
  <2> HIDE DEF n, last
  <2>9. ExportDays(Whole) = {d \in 0..n : Elapsed(d) # {}}
    BY <2>4, <2>6, <2>8
  <2> QED
    BY <1>1, <2>9 DEF n
<1> QED
  BY <1>1, <1>2, <1>3, <1>4

-----------------------------------------------------------------------------
(* The tasks of the days. *)

ActIds == 1..Len(acts)

LEMMA ActsTyped ==
  ASSUME FunnelInv
  PROVE  /\ Len(acts) \in Nat /\ ActIds \in SUBSET Nat /\ IsFiniteSet(ActIds)
         /\ \A a \in ActIds : acts[a] \in PortalActs /\ acts[a].born \in Nat /\ acts[a].due \in Int /\ acts[a].updated \in Nat
<1>1. acts \in Seq(PortalActs)
  BY DEF FunnelInv
<1>2. Len(acts) \in Nat /\ DOMAIN acts = 1..Len(acts)
  BY <1>1
<1>3. IsFiniteSet(ActIds)
  BY <1>2, FS_Interval DEF ActIds
<1>4. \A a \in ActIds : acts[a] \in PortalActs
  BY <1>1, <1>2 DEF ActIds
<1>5. \A a \in ActIds : acts[a].born \in Nat /\ acts[a].due \in Int /\ acts[a].updated \in Nat
  BY <1>4 DEF PortalActs
<1> QED
  BY <1>2, <1>3, <1>4, <1>5 DEF ActIds

(* A rank is below the number of all. *)
LEMMA RanksFit ==
  ASSUME NEW S, IsFiniteSet(S), NEW x \in S, NEW T \in SUBSET S, x \notin T
  PROVE  Cardinality(T) < Cardinality(S)
<1>1. IsFiniteSet(S \ {x}) /\ Cardinality(S \ {x}) = Cardinality(S) - 1
  BY FS_RemoveElement
<1>2. T \in SUBSET (S \ {x})
  OBVIOUS
<1>3. IsFiniteSet(T) /\ Cardinality(T) <= Cardinality(S \ {x})
  BY <1>1, <1>2, FS_Subset
<1>4. Cardinality(S) \in Nat /\ Cardinality(T) \in Nat
  BY <1>3, FS_CardinalityType
<1> QED
  BY <1>1, <1>3, <1>4

LEMMA ScanWhole ==
  ASSUME NEW S \in SUBSET Nat, IsFiniteSet(S), NEW cap \in Nat, ~Scan(S, cap).truncated
  PROVE  Scan(S, cap).rows = S
<1>1. Cardinality(S) <= cap /\ Cardinality(S) \in Nat
  <2>1. Scan(S, cap).truncated = (Cardinality(S) > cap)
    BY DEF Scan
  <2>2. ~(Cardinality(S) > cap)
    BY <2>1, Zenon
  <2> QED
    BY <2>2, FS_CardinalityType
<1>2. ASSUME NEW a \in S PROVE Cardinality({b \in S : b < a}) < cap
  <2>1. {b \in S : b < a} \in SUBSET S /\ a \notin {b \in S : b < a}
    OBVIOUS
  <2>2. Cardinality({b \in S : b < a}) < Cardinality(S)
    BY <2>1, RanksFit
  <2>3. Cardinality({b \in S : b < a}) \in Nat
    BY <2>1, FS_Subset, FS_CardinalityType
  <2> QED
    BY <1>1, <2>2, <2>3
<1>3. Scan(S, cap).rows = {a \in S : Cardinality({b \in S : b < a}) < cap}
  BY DEF Scan
<1> QED
  BY <1>2, <1>3

LEMMA DueListed ==
  ASSUME FunnelInv, NEW S \in SUBSET ActIds, NEW cap \in Nat, ~(Cardinality(S) > cap)
  PROVE  ByDue(S, cap) = S
<1>1. IsFiniteSet(S)
  BY ActsTyped, FS_Subset
<1>2. Cardinality(S) <= cap /\ Cardinality(S) \in Nat
  BY <1>1, FS_CardinalityType
<1>3. ASSUME NEW a \in S PROVE Cardinality({b \in S : SoonerDue(b, a)}) < cap
  <2>1. acts[a].due \in Int /\ a \in Nat
    BY ActsTyped
  <2>2. ~SoonerDue(a, a)
    BY <2>1 DEF SoonerDue
  <2>3. {b \in S : SoonerDue(b, a)} \in SUBSET S /\ a \notin {b \in S : SoonerDue(b, a)}
    BY <2>2
  <2>4. Cardinality({b \in S : SoonerDue(b, a)}) < Cardinality(S)
    BY <1>1, <2>3, RanksFit
  <2>5. Cardinality({b \in S : SoonerDue(b, a)}) \in Nat
    BY <1>1, <2>3, FS_Subset, FS_CardinalityType
  <2> QED
    BY <1>2, <2>4, <2>5
<1> QED
  BY <1>3 DEF ByDue

LEMMA GreatestDay ==
  ASSUME NEW N \in Nat, NEW S \in SUBSET (0..N), S # {}
  PROVE  \E n \in S : \A m \in S : m <= n
<1> DEFINE T == {k \in Nat : \E m \in S : k = N - m}
<1>1. \A m \in S : m \in Int /\ m <= N
  OBVIOUS
<1>2. T \in SUBSET Nat /\ T # {}
  <2>1. PICK m \in S : TRUE
    OBVIOUS
  <2>2. N - m \in T
    BY <1>1, <2>1
  <2> QED
    BY <2>2
<1>3. PICK k \in T : \A m \in T : k <= m
  <2> HIDE DEF T
  <2> QED
    BY <1>2, LeastNatural
<1>4. PICK n \in S : k = N - n
  BY <1>3
<1>5. \A m \in S : N - n <= N - m
  BY <1>1, <1>3, <1>4
<1> QED
  BY <1>1, <1>4, <1>5

(* What a day's row says, whatever was scanned to make it. *)
OpenThen(m, d, t) ==
  Cardinality({a \in ActIds : /\ acts[a].who = m /\ acts[a].kind # "logged" /\ acts[a].due # NoDue
                              /\ acts[a].due < (d + 1) * DayLength /\ ~acts[a].done /\ acts[a].born < t})
    + Cardinality({a \in ActIds : /\ acts[a].who = m /\ acts[a].kind # "logged" /\ acts[a].due # NoDue
                                  /\ acts[a].due < (d + 1) * DayLength /\ acts[a].done
                                  /\ acts[a].born < t /\ t <= acts[a].updated})
DayRow(m, d) ==
  [open    |-> [t \in Elapsed(d) |-> OpenThen(m, d, t)],
   created |-> Cardinality({a \in ActIds : acts[a].who = m /\ acts[a].kind # "logged" /\ DayOf(acts[a].born) = d}),
   talk    |-> TalkTime(m, OneDay(d))]

LEMMA FlowIsDayRows ==
  ASSUME FunnelInv, NEW days \in SUBSET DaysSoFar, NEW cap \in Nat, NEW team,
         ~TaskFlow(team, days, cap).truncated
  PROVE  TaskFlow(team, days, cap).rows =
           IF {d \in days : Elapsed(d) # {}} = {} THEN << >>
           ELSE [d \in {x \in days : Elapsed(x) # {}} |-> [m \in team |-> DayRow(m, d)]]
<1> DEFINE live     == {d \in days : Elapsed(d) # {}}
           span     == [from |-> Min(live) * DayLength, to |-> (Max(live) + 1) * DayLength]
           since    == Min(UNION {Elapsed(d) : d \in live})
           workload == {a \in 1..Len(acts) : /\ acts[a].who \in team /\ acts[a].kind # "logged"
                                             /\ acts[a].due # NoDue /\ acts[a].due < span.to}
           open     == Scan({a \in workload : ~acts[a].done}, cap)
           closed   == Scan({a \in workload : acts[a].done /\ acts[a].updated >= since}, cap)
           created  == Scan({a \in 1..Len(acts) : /\ acts[a].who \in team /\ acts[a].kind # "logged"
                                                  /\ In(span, acts[a].born)}, cap)
           OpenAt(m, d, t) ==
             Cardinality({a \in DueBefore(open.rows, (d + 1) * DayLength) : acts[a].who = m /\ acts[a].born < t})
               + Cardinality({a \in DueBefore(closed.rows, (d + 1) * DayLength) :
                                acts[a].who = m /\ acts[a].born < t /\ t <= acts[a].updated})
<1>1. TaskFlow(team, days, cap) =
        IF live = {} THEN [rows |-> << >>, truncated |-> FALSE]
        ELSE [rows |-> [d \in live |-> [m \in team |->
                          [open    |-> [t \in Elapsed(d) |-> OpenAt(m, d, t)],
                           created |-> Cardinality({a \in created.rows : acts[a].who = m /\ DayOf(acts[a].born) = d}),
                           talk    |-> TalkTime(m, OneDay(d))]]],
              truncated |-> open.truncated \/ closed.truncated \/ created.truncated]
  BY DEF TaskFlow
<1>2. CASE live = {}
  BY <1>1, <1>2
<1>3. CASE live # {}
  <2>1. ~open.truncated /\ ~closed.truncated /\ ~created.truncated
    <3> HIDE DEF live, open, closed, created, OpenAt
    <3> DEFINE cut == open.truncated \/ closed.truncated \/ created.truncated
               made == [d \in live |-> [m \in team |->
                          [open    |-> [t \in Elapsed(d) |-> OpenAt(m, d, t)],
                           created |-> Cardinality({a \in created.rows : acts[a].who = m /\ DayOf(acts[a].born) = d}),
                           talk    |-> TalkTime(m, OneDay(d))]]]
    <3>1. TaskFlow(team, days, cap) = [rows |-> made, truncated |-> cut]
      BY <1>1, <1>3, Zenon
    <3>2. ~cut
      <4> HIDE DEF cut, made
      <4> QED
        BY <3>1
    <3> QED
      BY <3>2
  <2>2. /\ open.rows = {a \in workload : ~acts[a].done}
        /\ closed.rows = {a \in workload : acts[a].done /\ acts[a].updated >= since}
        /\ created.rows = {a \in 1..Len(acts) : /\ acts[a].who \in team /\ acts[a].kind # "logged"
                                                /\ In(span, acts[a].born)}
    <3>1. \A S \in SUBSET ActIds : S \in SUBSET Nat /\ IsFiniteSet(S)
      BY ActsTyped, FS_Subset
    <3>2. workload \in SUBSET ActIds
      BY DEF ActIds
    <3> HIDE DEF workload, span, since
    <3>3. {a \in workload : ~acts[a].done} \in SUBSET ActIds
      BY <3>2
    <3>4. {a \in workload : acts[a].done /\ acts[a].updated >= since} \in SUBSET ActIds
      BY <3>2
    <3>5. {a \in 1..Len(acts) : /\ acts[a].who \in team /\ acts[a].kind # "logged"
                                /\ In(span, acts[a].born)} \in SUBSET ActIds
      BY DEF ActIds
    <3>6. open.rows = {a \in workload : ~acts[a].done}
      BY <2>1, <3>1, <3>3, ScanWhole
    <3>7. closed.rows = {a \in workload : acts[a].done /\ acts[a].updated >= since}
      BY <2>1, <3>1, <3>4, ScanWhole
    <3>8. created.rows = {a \in 1..Len(acts) : /\ acts[a].who \in team /\ acts[a].kind # "logged"
                                               /\ In(span, acts[a].born)}
      BY <2>1, <3>1, <3>5, ScanWhole
    <3> QED
      BY <3>6, <3>7, <3>8
  <2>3. /\ Min(live) \in Int /\ Max(live) \in Int
        /\ \A d \in live : d \in Int /\ Min(live) <= d /\ d <= Max(live)
    <3>1. live \in SUBSET Nat /\ live \in SUBSET (0..DayOf(now)) /\ DayOf(now) \in Nat
      BY WholeIsAll
    <3> HIDE DEF live
    <3>2. \E x \in live : \A y \in live : x <= y
      BY <1>3, <3>1, LeastNatural
    <3>3. \E x \in live : \A y \in live : y <= x
      BY <1>3, <3>1, GreatestDay
    <3>4. Min(live) \in live /\ \A y \in live : Min(live) <= y
      BY <3>2 DEF Min
    <3>5. Max(live) \in live /\ \A y \in live : Max(live) >= y
      BY <3>3 DEF Max
    <3>6. /\ \A y \in live : y \in Nat
          /\ Min(live) \in Nat /\ Max(live) \in Nat
      BY <3>1, <3>4, <3>5
    <3> QED
      BY <3>4, <3>5, <3>6
  <2>4. \A d \in live : \A t \in Elapsed(d) : t \in Int /\ since \in Int /\ since <= t
    <3> DEFINE all == UNION {Elapsed(d) : d \in live}
    <3>1. all \in SUBSET Nat
      <4>1. ASSUME NEW d \in live, NEW t \in Elapsed(d) PROVE t \in Nat
        <5>1. d \in Nat /\ DayLength \in Nat /\ Checkpoints \subseteq Nat
          BY WholeIsAll, FunnelAssumption, ReadsAssumption
        <5>2. d * DayLength \in Nat
          BY <5>1
        <5> QED
          BY <4>1, <5>1, <5>2 DEF Elapsed
      <4> QED
        BY <4>1
    <3>2. all # {}
      BY <1>3
    <3>3. \E x \in all : \A y \in all : x <= y
      <4> HIDE DEF all
      <4> QED
        BY <3>1, <3>2, LeastNatural
    <3>4. since \in all /\ \A y \in all : since <= y
      <4>1. since = Min(all)
        OBVIOUS
      <4> HIDE DEF all, since
      <4> QED
        BY <3>3, <4>1 DEF Min
    <3>5. \A d \in live : \A t \in Elapsed(d) : t \in all
      OBVIOUS
    <3> HIDE DEF all, since, live
    <3>6. since \in Nat /\ \A y \in all : y \in Nat
      BY <3>1, <3>4
    <3> TAKE d \in live
    <3> TAKE t \in Elapsed(d)
    <3>7. t \in all
      BY <3>5, Zenon
    <3> QED
      BY <3>4, <3>6, <3>7
  <2>5. ASSUME NEW d \in live, NEW m \in team, NEW t \in Elapsed(d) PROVE OpenAt(m, d, t) = OpenThen(m, d, t)
    <3>1. /\ t \in Int /\ since \in Int /\ since <= t
          /\ (d + 1) * DayLength \in Int /\ span.to \in Int /\ (d + 1) * DayLength <= span.to
      <4>1. d + 1 \in Int /\ Max(live) + 1 \in Int /\ d + 1 <= Max(live) + 1 /\ DayLength \in Nat \ {0}
        BY <2>3, FunnelAssumption
      <4> QED
        BY <2>4, <2>5, <4>1, TimesGrows, TimesInt
    <3> DEFINE upto == (d + 1) * DayLength
               bound == span.to
    <3> HIDE DEF since, live, upto, bound
    <3>2. ASSUME NEW a \in ActIds
          PROVE  /\ acts[a].due < upto => acts[a].due < bound
                 /\ t <= acts[a].updated => acts[a].updated >= since
      BY <3>1, <3>2, ActsTyped DEF upto, bound
    <3>3. {a \in DueBefore({b \in workload : ~acts[b].done}, upto) : acts[a].who = m /\ acts[a].born < t} =
            {a \in ActIds : /\ acts[a].who = m /\ acts[a].kind # "logged" /\ acts[a].due # NoDue
                            /\ acts[a].due < upto /\ ~acts[a].done /\ acts[a].born < t}
      <4>1. workload = {a \in ActIds : /\ acts[a].who \in team /\ acts[a].kind # "logged"
                                       /\ acts[a].due # NoDue /\ acts[a].due < bound}
        BY DEF bound, ActIds
      <4> HIDE DEF workload
      <4> QED
        BY <2>5, <3>2, <4>1 DEF DueBefore
    <3>4. {a \in DueBefore({b \in workload : acts[b].done /\ acts[b].updated >= since}, upto) :
             acts[a].who = m /\ acts[a].born < t /\ t <= acts[a].updated} =
            {a \in ActIds : /\ acts[a].who = m /\ acts[a].kind # "logged" /\ acts[a].due # NoDue
                            /\ acts[a].due < upto /\ acts[a].done
                            /\ acts[a].born < t /\ t <= acts[a].updated}
      <4>1. workload = {a \in ActIds : /\ acts[a].who \in team /\ acts[a].kind # "logged"
                                       /\ acts[a].due # NoDue /\ acts[a].due < bound}
        BY DEF bound, ActIds
      <4> HIDE DEF workload
      <4> QED
        BY <2>5, <3>2, <4>1 DEF DueBefore
    <3>5. OpenAt(m, d, t) =
            Cardinality({a \in DueBefore({b \in workload : ~acts[b].done}, upto) : acts[a].who = m /\ acts[a].born < t})
            + Cardinality({a \in DueBefore({b \in workload : acts[b].done /\ acts[b].updated >= since}, upto) :
                             acts[a].who = m /\ acts[a].born < t /\ t <= acts[a].updated})
      <4> HIDE DEF workload, open, closed
      <4> QED
        BY <2>2 DEF upto
    <3> QED
      <4> HIDE DEF workload, open, closed
      <4> QED
        BY <3>3, <3>4, <3>5, Zenon DEF OpenThen, upto
  <2>6. ASSUME NEW d \in live, NEW m \in team
        PROVE  Cardinality({a \in created.rows : acts[a].who = m /\ DayOf(acts[a].born) = d}) = DayRow(m, d).created
    <3>1. ASSUME NEW a \in ActIds, DayOf(acts[a].born) = d PROVE In(span, acts[a].born)
      <4> DEFINE lo == Min(live)
                 hi == Max(live)
      <4>1. lo \in Int /\ hi \in Int /\ lo <= d /\ d <= hi
        BY <2>3, <2>6
      <4>2. In(Days(lo, hi), acts[a].born)
        <5> HIDE DEF lo, hi
        <5> QED
          BY <3>1, <4>1, ActsTyped, InDays
      <4> QED
        BY <4>2 DEF In, Days
    <3>2. {a \in created.rows : acts[a].who = m /\ DayOf(acts[a].born) = d} =
            {a \in ActIds : acts[a].who = m /\ acts[a].kind # "logged" /\ DayOf(acts[a].born) = d}
      <4> HIDE DEF created, span, live
      <4> QED
        BY <2>2, <2>6, <3>1 DEF ActIds
    <3> HIDE DEF created, live
    <3> QED
      BY <3>2, Zenon DEF DayRow
  <2>7. ASSUME NEW d \in live, NEW m \in team
        PROVE  [open    |-> [t \in Elapsed(d) |-> OpenAt(m, d, t)],
                created |-> Cardinality({a \in created.rows : acts[a].who = m /\ DayOf(acts[a].born) = d}),
                talk    |-> TalkTime(m, OneDay(d))] = DayRow(m, d)
    <3>1. [t \in Elapsed(d) |-> OpenAt(m, d, t)] = [t \in Elapsed(d) |-> OpenThen(m, d, t)]
      <4> HIDE DEF OpenAt, live
      <4> QED
        BY <2>5, <2>7
    <3> HIDE DEF OpenAt, created, live
    <3> QED
      BY <2>6, <2>7, <3>1, Zenon DEF DayRow
  <2>8. TaskFlow(team, days, cap).rows =
          [d \in live |-> [m \in team |->
             [open    |-> [t \in Elapsed(d) |-> OpenAt(m, d, t)],
              created |-> Cardinality({a \in created.rows : acts[a].who = m /\ DayOf(acts[a].born) = d}),
              talk    |-> TalkTime(m, OneDay(d))]]]
    <3> HIDE DEF live, open, closed, created, OpenAt
    <3> QED
      BY <1>1, <1>3
  <2>9. TaskFlow(team, days, cap).rows = [d \in live |-> [m \in team |-> DayRow(m, d)]]
    <3> HIDE DEF live, open, closed, created, OpenAt
    <3> QED
      BY <2>7, <2>8
  <2> QED
    BY <1>3, <2>9
<1> QED
  BY <1>2, <1>3

LEMMA FlowDays ==
  ASSUME NEW days, NEW cap, NEW team
  PROVE  DOMAIN TaskFlow(team, days, cap).rows = {d \in days : Elapsed(d) # {}}
<1> DEFINE live == {d \in days : Elapsed(d) # {}}
<1>1. CASE live = {}
  <2>1. TaskFlow(team, days, cap).rows = << >>
    BY <1>1 DEF TaskFlow
  <2> QED
    BY <1>1, <2>1
<1>2. CASE live # {}
  <2> QED
    BY <1>2 DEF TaskFlow
<1> QED
  BY <1>1, <1>2

(* A day of the stage history, cut out of the whole. *)
LEMMA BookedByDay ==
  ASSUME FunnelInv, NEW d \in DaysSoFar, NEW m
  PROVE  Booked(m, OneDay(d)) =
           IF d \in DOMAIN EntrantsPerDay(m, "BOOKED", Whole) THEN EntrantsPerDay(m, "BOOKED", Whole)[d] ELSE 0
<1> DEFINE all   == Entries({"BOOKED"}, Whole)
           today == {e \in all : DayOf(e.at) = d}
           own   == {x \in {h.deal : h \in today} : deals[x].owner = m}
<1>1. d \in Int /\ d \in DaysSoFar
  BY WholeIsAll
<1>2. \A h \in trail : h.at \in Nat
  BY DEF FunnelInv
<1>3. Entries({"BOOKED"}, OneDay(d)) = today
  <2>1. ASSUME NEW h \in trail PROVE In(OneDay(d), h.at) <=> In(Whole, h.at) /\ DayOf(h.at) = d
    <3>1. h.at \in Nat /\ h.at \in Int
      BY <1>2
    <3>2. In(OneDay(d), h.at) <=> DayOf(h.at) = d
      BY <1>1, <3>1, DayIs
    <3>3. In(Whole, h.at) <=> DayOf(h.at) \in DaysSoFar
      BY <3>1, WholeIsAll
    <3> QED
      BY <1>1, <3>2, <3>3
  <2> QED
    BY <2>1 DEF Entries
<1>4. Booked(m, OneDay(d)) = Cardinality(own)
  <2>1. Entrants({"BOOKED"}, OneDay(d)) = {h.deal : h \in today}
    BY <1>3, Zenon DEF Entrants
  <2> HIDE DEF today
  <2> QED
    BY <2>1, Zenon DEF Booked, EntrantsOf
<1>5. DOMAIN EntrantsPerDay(m, "BOOKED", Whole) = {DayOf(h.at) : h \in all}
  BY DEF EntrantsPerDay
<1>6. CASE d \in {DayOf(h.at) : h \in all}
  <2>1. EntrantsPerDay(m, "BOOKED", Whole)[d] = Cardinality(own)
    BY <1>6 DEF EntrantsPerDay
  <2> QED
    BY <1>4, <1>5, <1>6, <2>1
<1>7. CASE d \notin {DayOf(h.at) : h \in all}
  <2>1. own = {}
    BY <1>7
  <2>2. Cardinality(own) = 0
    BY <2>1, FS_EmptySet
  <2> QED
    BY <1>4, <1>5, <1>7, <2>2
<1> QED
  BY <1>6, <1>7

(* The spreadsheet has the rows of the team screen. *)
LEMMA SheetIsScreens ==
  ASSUME FunnelInv, NEW d \in DaysSoFar,
         ~ExportRows(Sellers, Whole).truncated, ~TeamScreen(Sellers, d).truncated
  PROVE  TeamScreen(Sellers, d).rows =
           IF d \in DOMAIN ExportRows(Sellers, Whole).rows THEN ExportRows(Sellers, Whole).rows[d] ELSE << >>
<1> DEFINE flow1 == TaskFlow(Sellers, {d}, ScanCap)
           flow2 == TaskFlow(Sellers, ExportDays(Whole), ExportScanCap)
           perDay(m) == EntrantsPerDay(m, "BOOKED", Whole)
           row(m) == [flow |-> DayRow(m, d), booked |-> Booked(m, OneDay(d))]
<1>1. TeamScreen(Sellers, d) =
        [rows |-> [m \in IF flow1.rows = << >> THEN {} ELSE Sellers |->
                     [flow |-> flow1.rows[d][m], booked |-> Booked(m, OneDay(d))]],
         truncated |-> flow1.truncated]
  BY DEF TeamScreen
<1>2. ExportRows(Sellers, Whole) =
        [rows |-> [x \in DOMAIN flow2.rows |-> [m \in Sellers |->
                     [flow |-> flow2.rows[x][m],
                      booked |-> IF x \in DOMAIN perDay(m) THEN perDay(m)[x] ELSE 0]]],
         truncated |-> flow2.truncated]
  BY DEF ExportRows
<1>3. ~flow1.truncated /\ ~flow2.truncated
  <2> HIDE DEF flow1, flow2
  <2>1. TeamScreen(Sellers, d).truncated = flow1.truncated /\ ExportRows(Sellers, Whole).truncated = flow2.truncated
    BY <1>1, <1>2
  <2> QED
    BY <2>1
<1>4. /\ {d} \in SUBSET DaysSoFar /\ ExportDays(Whole) \in SUBSET DaysSoFar
      /\ d \in ExportDays(Whole) <=> Elapsed(d) # {}
      /\ ScanCap \in Nat /\ ExportScanCap \in Nat
  BY WholeIsAll, ReadsAssumption
<1>5. flow1.rows = IF {x \in {d} : Elapsed(x) # {}} = {} THEN << >>
                   ELSE [x \in {y \in {d} : Elapsed(y) # {}} |-> [m \in Sellers |-> DayRow(m, x)]]
  BY <1>3, <1>4, FlowIsDayRows
<1>6. flow2.rows = IF {x \in ExportDays(Whole) : Elapsed(x) # {}} = {} THEN << >>
                   ELSE [x \in {y \in ExportDays(Whole) : Elapsed(y) # {}} |-> [m \in Sellers |-> DayRow(m, x)]]
  <2> DEFINE days == ExportDays(Whole)
             cap  == ExportScanCap
  <2>1. days \in SUBSET DaysSoFar /\ cap \in Nat
    BY <1>4
  <2>2. ~TaskFlow(Sellers, days, cap).truncated
    BY <1>3
  <2> HIDE DEF days, cap
  <2>3. TaskFlow(Sellers, days, cap).rows =
          IF {x \in days : Elapsed(x) # {}} = {} THEN << >>
          ELSE [x \in {y \in days : Elapsed(y) # {}} |-> [m \in Sellers |-> DayRow(m, x)]]
    BY <2>1, <2>2, FlowIsDayRows
  <2> QED
    BY <2>3, Zenon DEF days, cap
<1>7. DOMAIN flow2.rows = {x \in ExportDays(Whole) : Elapsed(x) # {}}
  BY FlowDays
<1> HIDE DEF flow1, flow2
<1>8. CASE Elapsed(d) = {}
  <2>1. flow1.rows = << >>
    BY <1>5, <1>8
  <2>2. TeamScreen(Sellers, d).rows = << >>
    BY <1>1, <2>1
  <2>3. d \notin DOMAIN ExportRows(Sellers, Whole).rows
    BY <1>2, <1>7, <1>8
  <2> QED
    BY <2>2, <2>3
<1>9. CASE Elapsed(d) # {}
  <2>1. {x \in {d} : Elapsed(x) # {}} = {d}
    BY <1>9
  <2>2. flow1.rows = [x \in {d} |-> [m \in Sellers |-> DayRow(m, x)]]
    BY <1>5, <2>1
  <2>3. flow1.rows # << >> /\ flow1.rows[d] = [m \in Sellers |-> DayRow(m, d)]
    <3>1. DOMAIN flow1.rows = {d}
      BY <2>2
    <3>2. DOMAIN << >> = {}
      OBVIOUS
    <3> QED
      BY <2>2, <3>1, <3>2
  <2>4. TeamScreen(Sellers, d).rows = [m \in Sellers |-> row(m)]
    <3>1. TeamScreen(Sellers, d).rows = [m \in Sellers |-> [flow |-> flow1.rows[d][m], booked |-> Booked(m, OneDay(d))]]
      BY <1>1, <2>3
    <3> QED
      BY <2>3, <3>1
  <2>5. d \in {x \in ExportDays(Whole) : Elapsed(x) # {}}
    BY <1>4, <1>9
  <2>6. d \in DOMAIN flow2.rows /\ flow2.rows[d] = [m \in Sellers |-> DayRow(m, d)]
    <3> DEFINE live == {x \in ExportDays(Whole) : Elapsed(x) # {}}
    <3>1. live # {} /\ d \in live
      BY <2>5
    <3> HIDE DEF live
    <3>2. flow2.rows = [x \in live |-> [m \in Sellers |-> DayRow(m, x)]]
      BY <1>6, <3>1 DEF live
    <3> QED
      BY <3>1, <3>2
  <2>7. ExportRows(Sellers, Whole).rows[d] =
          [m \in Sellers |-> [flow |-> flow2.rows[d][m],
                              booked |-> IF d \in DOMAIN perDay(m) THEN perDay(m)[d] ELSE 0]]
    <3> DEFINE made(x) == [m \in Sellers |-> [flow |-> flow2.rows[x][m],
                                              booked |-> IF x \in DOMAIN perDay(m) THEN perDay(m)[x] ELSE 0]]
    <3>1. ExportRows(Sellers, Whole).rows = [x \in DOMAIN flow2.rows |-> made(x)]
      <4> HIDE DEF perDay
      <4> QED
        BY <1>2
    <3> HIDE DEF made
    <3>2. ExportRows(Sellers, Whole).rows[d] = made(d)
      BY <2>6, <3>1
    <3> QED
      BY <3>2 DEF made
  <2>8. \A m \in Sellers : Booked(m, OneDay(d)) = IF d \in DOMAIN perDay(m) THEN perDay(m)[d] ELSE 0
    BY BookedByDay
  <2>9. ExportRows(Sellers, Whole).rows[d] = [m \in Sellers |-> row(m)]
    <3> HIDE DEF perDay
    <3> QED
      BY <2>6, <2>7, <2>8
  <2>10. d \in DOMAIN ExportRows(Sellers, Whole).rows
    <3> HIDE DEF perDay
    <3> QED
      BY <1>2, <2>6
  <2> HIDE DEF row
  <2> QED
    BY <2>4, <2>9, <2>10
<1> QED
  BY <1>8, <1>9

-----------------------------------------------------------------------------
(* One window on several screens. *)

LEMMA Parted ==
  ASSUME NEW A, NEW B, IsFiniteSet(A), IsFiniteSet(B), A \cap B = {}
  PROVE  /\ IsFiniteSet(A \cup B) /\ Cardinality(A) \in Nat /\ Cardinality(B) \in Nat
         /\ Cardinality(A \cup B) = Cardinality(A) + Cardinality(B)
<1>1. IsFiniteSet(A \cup B) /\ Cardinality(A \cup B) = Cardinality(A) + Cardinality(B) - Cardinality(A \cap B)
  BY FS_Union
<1>2. Cardinality(A \cap B) = 0
  BY FS_EmptySet
<1> QED
  BY <1>1, <1>2, FS_CardinalityType

LEMMA ShareFits ==
  ASSUME NEW base, IsFiniteSet(base), NEW good \in SUBSET base
  PROVE  Share(good, base).good \in 0..Share(good, base).base
<1>1. IsFiniteSet(good) /\ Cardinality(good) <= Cardinality(base)
  BY FS_Subset
<1>2. Cardinality(good) \in Nat /\ Cardinality(base) \in Nat
  BY <1>1, FS_CardinalityType
<1> QED
  BY <1>1, <1>2 DEF Share

LEMMA HygieneFits ==
  ASSUME FunnelInv, NEW m, NEW w
  PROVE  \A i \in 1..5 : Hygiene(m, w)[i].good \in 0..Hygiene(m, w)[i].base
<1>1. \A S \in SUBSET DealIds : IsFiniteSet(S)
  BY FunnelAssumption, FS_Subset
<1>2. IsFiniteSet(PeriodDeals(m, w)) /\ PeriodDeals(m, w) \in SUBSET DealIds
  BY <1>1 DEF PeriodDeals, TmDeals
<1>3. CalledDeals(m, w) \in SUBSET DealIds
  BY ActsTyped DEF CalledDeals, ActIds, PortalActs
<1>4. StatusesShare(m, w).good \in 0..StatusesShare(m, w).base
  BY <1>2, ShareFits DEF StatusesShare
<1>5. AnketaShare(m, w).good \in 0..AnketaShare(m, w).base
  <2> DEFINE base == {d \in PeriodDeals(m, w) : deals[d].sem = "S" \/ deals[d].stage \in AnketaStages}
             good == {d \in base : deals[d].filled}
  <2>1. IsFiniteSet(base) /\ good \in SUBSET base
    BY <1>2, FS_Subset
  <2>2. AnketaShare(m, w) = Share(good, base)
    BY DEF AnketaShare
  <2> HIDE DEF base, good
  <2> QED
    BY <2>1, <2>2, ShareFits
<1>6. TasksSetShare(m, w).good \in 0..TasksSetShare(m, w).base
  <2> DEFINE base == {d \in PeriodDeals(m, w) : ~deals[d].closed /\ deals[d].stage \in TaskStages}
             good == {d \in base : \E a \in 1..Len(acts) : acts[a].deal = d /\ acts[a].who = m /\ ~acts[a].done}
  <2>1. IsFiniteSet(base) /\ good \in SUBSET base
    BY <1>2, FS_Subset
  <2>2. TasksSetShare(m, w) = Share(good, base)
    BY DEF TasksSetShare
  <2> HIDE DEF base, good
  <2> QED
    BY <2>1, <2>2, ShareFits
<1>7. OnTimeShare(m, w).good \in 0..OnTimeShare(m, w).base
  <2>1. TasksOf(m, Due(w)) \in SUBSET ActIds /\ LeftOf(m, Due(w)) \in SUBSET TasksOf(m, Due(w))
    BY DEF TasksOf, LeftOf, Tasks, ActIds
  <2>2. IsFiniteSet(TasksOf(m, Due(w)))
    BY <2>1, ActsTyped, FS_Subset
  <2>3. /\ Cardinality(TasksOf(m, Due(w))) \in Nat /\ Cardinality(LeftOf(m, Due(w))) \in Nat
        /\ Cardinality(LeftOf(m, Due(w))) <= Cardinality(TasksOf(m, Due(w)))
    BY <2>1, <2>2, FS_Subset, FS_CardinalityType
  <2> QED
    BY <2>3 DEF OnTimeShare
<1>8. NotesShare(m, w).good \in 0..NotesShare(m, w).base
  <2> DEFINE base == CalledDeals(m, w)
             good == {d \in base : \E c \in comments : c.deal = d /\ c.author = m /\ c.text = "note" /\ In(w, c.at)}
  <2>1. IsFiniteSet(base) /\ good \in SUBSET base
    BY <1>1, <1>3
  <2>2. NotesShare(m, w) = Share(good, base)
    BY DEF NotesShare
  <2> HIDE DEF base, good
  <2> QED
    BY <2>1, <2>2, ShareFits
<1>9. /\ Hygiene(m, w)[1] = StatusesShare(m, w) /\ Hygiene(m, w)[2] = AnketaShare(m, w)
      /\ Hygiene(m, w)[3] = TasksSetShare(m, w) /\ Hygiene(m, w)[4] = OnTimeShare(m, w)
      /\ Hygiene(m, w)[5] = NotesShare(m, w)
  BY DEF Hygiene
<1>10. \A i \in 1..5 : i = 1 \/ i = 2 \/ i = 3 \/ i = 4 \/ i = 5
  OBVIOUS
<1> QED
  BY <1>4, <1>5, <1>6, <1>7, <1>8, <1>9, <1>10

LEMMA WindowsAgree ==
  ASSUME FunnelInv, NEW m \in Sellers, NEW d \in DaysSoFar
  PROVE  LET w    == OneDay(d)
             late == TeamOverdue(Sellers, ListCap)
         IN /\ Booked(m, w) = Funnel(m, w).booked /\ Booked(m, w) = MeetingsBlock(m, w).booked
            /\ DayTiles(m, w).overdue = TasksBlock(m, w).overdue
            /\ OnTimeShare(m, w).base - OnTimeShare(m, w).good = TasksBlock(m, w).overdue
            /\ TasksBlock(m, w).total = Cardinality(TasksOf(m, w))
            /\ DayTiles(m, w).overdue <= MaxActions => Cardinality(OverdueItems(m, w)) = DayTiles(m, w).overdue
            /\ ~late.truncated => LeftOf(m, Due(w)) \subseteq late.tasks
            /\ \A i \in 1..5 : Hygiene(m, w)[i].good \in 0..Hygiene(m, w)[i].base
<1> DEFINE w    == OneDay(d)
           late == TeamOverdue(Sellers, ListCap)
           closed  == {a \in TasksOf(m, w) : acts[a].done}
           overdue == LeftOf(m, Due(w))
           pending == LeftOf(m, [w EXCEPT !.from = Later(w.from, now)])
<1>1. Booked(m, w) = Funnel(m, w).booked /\ Booked(m, w) = MeetingsBlock(m, w).booked
  <2>1. Booked(m, w) = Outcomes(m, "BOOKED", w).distinct
    BY DEF Booked, EntrantsOf, Outcomes
  <2> HIDE DEF w
  <2> QED
    BY <2>1 DEF Funnel, MeetingsBlock
<1>2. /\ w.from \in Int /\ w.to \in Int /\ now \in Int /\ 0 <= w.from /\ w.from <= w.to
      /\ w = [from |-> w.from, to |-> w.to]
  <2>1. d \in Nat /\ DayLength \in Nat /\ now \in Nat
    BY WholeIsAll, FunnelAssumption
  <2>2. d * DayLength \in Nat /\ (d + 1) * DayLength = d * DayLength + DayLength
    BY <2>1
  <2> QED
    BY <2>1, <2>2 DEF OneDay, Days
<1>3. /\ Due(w) = [from |-> w.from, to |-> Earlier(w.to, now)]
      /\ [w EXCEPT !.from = Later(w.from, now)] = [from |-> Later(w.from, now), to |-> w.to]
  <2> HIDE DEF w
  <2> QED
    BY <1>2 DEF Due
<1>4. \A a \in ActIds :
        /\ In(w, acts[a].due) <=> w.from <= acts[a].due /\ acts[a].due < w.to
        /\ In(Due(w), acts[a].due) <=> In(w, acts[a].due) /\ acts[a].due < now
        /\ In([w EXCEPT !.from = Later(w.from, now)], acts[a].due) <=> In(w, acts[a].due) /\ now <= acts[a].due
  <2> HIDE DEF w
  <2> QED
    BY <1>2, <1>3, ActsTyped DEF In, Earlier, Later
<1>5. /\ \A a : a \in TasksOf(m, w) <=> a \in ActIds /\ In(w, acts[a].due) /\ acts[a].who = m
      /\ \A a : a \in overdue <=> a \in ActIds /\ In(Due(w), acts[a].due) /\ acts[a].who = m /\ ~acts[a].done
      /\ \A a : a \in pending <=> /\ a \in ActIds /\ In([w EXCEPT !.from = Later(w.from, now)], acts[a].due)
                                  /\ acts[a].who = m /\ ~acts[a].done
  <2> HIDE DEF w
  <2> QED
    BY DEF TasksOf, LeftOf, Tasks, ActIds
<1>6. TasksOf(m, w) = (closed \cup overdue) \cup pending /\ closed \cap overdue = {} /\ (closed \cup overdue) \cap pending = {}
  <2>1. \A a \in ActIds : acts[a].due < now \/ now <= acts[a].due
    BY <1>2, ActsTyped
  <2>2. \A a \in ActIds : ~(acts[a].due < now /\ now <= acts[a].due)
    BY <1>2, ActsTyped
  <2> HIDE DEF w, overdue, pending
  <2>3. \A a : a \in TasksOf(m, w) <=> a \in closed \/ a \in overdue \/ a \in pending
    BY <1>4, <1>5, <2>1
  <2>4. \A a : ~(a \in closed /\ a \in overdue) /\ ~(a \in closed /\ a \in pending) /\ ~(a \in overdue /\ a \in pending)
    BY <1>4, <1>5, <2>2
  <2> HIDE DEF closed
  <2> QED
    BY <2>3, <2>4
<1>7. IsFiniteSet(closed) /\ IsFiniteSet(overdue) /\ IsFiniteSet(pending) /\ overdue \in SUBSET ActIds
  <2>1. closed \in SUBSET ActIds /\ overdue \in SUBSET ActIds /\ pending \in SUBSET ActIds
    <3> HIDE DEF w, overdue, pending
    <3> QED
      BY <1>5
  <2> QED
    BY <2>1, ActsTyped, FS_Subset
<1>8. /\ TasksBlock(m, w).total = Cardinality(closed) + Cardinality(overdue) + Cardinality(pending)
      /\ TasksBlock(m, w).overdue = Cardinality(overdue)
  <2> HIDE DEF w
  <2> QED
    BY DEF TasksBlock
<1>9. TasksBlock(m, w).total = Cardinality(TasksOf(m, w))
  <2> HIDE DEF closed, overdue, pending, w
  <2>1. IsFiniteSet(closed \cup overdue) /\ Cardinality(closed \cup overdue) = Cardinality(closed) + Cardinality(overdue)
    BY <1>6, <1>7, Parted
  <2>2. Cardinality((closed \cup overdue) \cup pending) = Cardinality(closed \cup overdue) + Cardinality(pending)
    BY <1>6, <1>7, <2>1, Parted
  <2>3. Cardinality(TasksOf(m, w)) = Cardinality((closed \cup overdue) \cup pending)
    BY <1>6
  <2> QED
    BY <1>8, <2>1, <2>2, <2>3
<1>10. DayTiles(m, w).overdue = Cardinality(overdue)
  <2> HIDE DEF w
  <2> QED
    BY DEF DayTiles, Overdue
<1>11. OnTimeShare(m, w).base - OnTimeShare(m, w).good = Cardinality(overdue)
  <2>1. TasksOf(m, Due(w)) \in SUBSET ActIds
    <3> HIDE DEF w
    <3> QED
      BY DEF TasksOf, Tasks, ActIds
  <2>2. Cardinality(TasksOf(m, Due(w))) \in Nat /\ Cardinality(overdue) \in Nat
    BY <1>7, <2>1, ActsTyped, FS_Subset, FS_CardinalityType
  <2>3. /\ OnTimeShare(m, w).base = Cardinality(TasksOf(m, Due(w)))
        /\ OnTimeShare(m, w).good = Cardinality(TasksOf(m, Due(w))) - Cardinality(overdue)
    <3> HIDE DEF w
    <3> QED
      BY DEF OnTimeShare
  <2> QED
    BY <2>2, <2>3
<1>12. DayTiles(m, w).overdue <= MaxActions => Cardinality(OverdueItems(m, w)) = DayTiles(m, w).overdue
  <2>1. MaxActions \in Nat /\ Cardinality(overdue) \in Nat
    BY <1>7, FS_CardinalityType, ReadsAssumption
  <2>2. OverdueItems(m, w) = ByDue(overdue, MaxActions)
    BY DEF OverdueItems
  <2> HIDE DEF overdue
  <2>3. ASSUME Cardinality(overdue) <= MaxActions PROVE ByDue(overdue, MaxActions) = overdue
    <3>1. ~(Cardinality(overdue) > MaxActions)
      BY <2>1, <2>3
    <3> QED
      BY <1>7, <2>1, <3>1, DueListed
  <2> QED
    BY <1>10, <2>2, <2>3
<1>13. ~late.truncated => overdue \subseteq late.tasks
  <2> DEFINE all == UNION {LeftOf(x, [from |-> 0, to |-> now]) : x \in Sellers}
  <2>1. late = [tasks |-> ByDue(all, ListCap), truncated |-> Cardinality(all) > ListCap]
    BY DEF TeamOverdue
  <2>2. all \in SUBSET ActIds /\ ListCap \in Nat
    BY ReadsAssumption DEF LeftOf, TasksOf, Tasks, ActIds
  <2>3. overdue \subseteq all
    <3>1. \A a \in overdue : a \in LeftOf(m, [from |-> 0, to |-> now])
      <4> TAKE a \in overdue
      <4>1. a \in ActIds /\ acts[a].who = m /\ ~acts[a].done /\ w.from <= acts[a].due /\ acts[a].due < now
        <5> HIDE DEF w, overdue
        <5> QED
          BY <1>4, <1>5
      <4>2. In([from |-> 0, to |-> now], acts[a].due)
        <5> HIDE DEF w
        <5> QED
          BY <1>2, <4>1, ActsTyped DEF In
      <4> QED
        BY <4>1, <4>2 DEF LeftOf, TasksOf, Tasks, ActIds
    <3> QED
      BY <3>1
  <2> HIDE DEF all, overdue
  <2>4. late.truncated = (Cardinality(all) > ListCap) /\ late.tasks = ByDue(all, ListCap)
    <3> DEFINE cut == Cardinality(all) > ListCap
    <3> HIDE DEF cut
    <3>1. late = [tasks |-> ByDue(all, ListCap), truncated |-> cut]
      BY <2>1 DEF cut
    <3> HIDE DEF late
    <3>2. late.truncated = cut /\ late.tasks = ByDue(all, ListCap)
      BY <3>1
    <3> QED
      BY <3>2 DEF cut
  <2>5. ASSUME ~late.truncated PROVE overdue \subseteq late.tasks
    <3> HIDE DEF late
    <3>1. ~(Cardinality(all) > ListCap)
      BY <2>4, <2>5, Zenon
    <3>2. late.tasks = all
      BY <2>2, <2>4, <3>1, DueListed
    <3> QED
      BY <2>3, <3>2
  <2> QED
    BY <2>5
<1>14. \A i \in 1..5 : Hygiene(m, w)[i].good \in 0..Hygiene(m, w)[i].base
  BY HygieneFits
<1> QED
  <2> HIDE DEF w, late, closed, overdue, pending
  <2>1. overdue = LeftOf(m, Due(w))
    BY DEF overdue
  <2>2. DayTiles(m, w).overdue = TasksBlock(m, w).overdue /\ OnTimeShare(m, w).base - OnTimeShare(m, w).good = TasksBlock(m, w).overdue
    BY <1>8, <1>10, <1>11
  <2> QED
    BY <1>1, <1>9, <1>12, <1>13, <1>14, <2>1, <2>2, Zenon DEF w, late

-----------------------------------------------------------------------------
(* The queues and their turns. *)

LEMMA StalerOrders ==
  ASSUME FunnelInv, NEW m
  PROVE  /\ OpenDeals(m) \in SUBSET DealIds /\ IsFiniteSet(OpenDeals(m))
         /\ \A x \in OpenDeals(m) : ~Staler(x, x)
         /\ \A x, y \in OpenDeals(m) : Staler(x, y) \/ Staler(y, x) \/ x = y
         /\ \A x, y, z \in OpenDeals(m) : Staler(x, y) /\ Staler(y, z) => Staler(x, z)
<1>1. OpenDeals(m) \in SUBSET DealIds /\ \A x \in OpenDeals(m) : deals[x] # NoDeal
  BY DEF OpenDeals, TmDeals
<1>2. IsFiniteSet(OpenDeals(m)) /\ \A x \in OpenDeals(m) : x \in Nat
  BY <1>1, FunnelAssumption, FS_Subset
<1>3. \A x \in OpenDeals(m) : deals[x].touched \in Int
  BY <1>1 DEF FunnelInv, DealCards
<1>4. \A x \in OpenDeals(m) : ~Staler(x, x)
  BY <1>2, <1>3 DEF Staler
<1>5. \A x, y \in OpenDeals(m) : Staler(x, y) \/ Staler(y, x) \/ x = y
  BY <1>2, <1>3 DEF Staler
<1>6. \A x, y, z \in OpenDeals(m) : Staler(x, y) /\ Staler(y, z) => Staler(x, z)
  BY <1>2, <1>3 DEF Staler
<1> QED
  BY <1>1, <1>2, <1>4, <1>5, <1>6

InFront(m, e, d) ==
  /\ e \in Queue(m, QueueOf(m, d))
  /\ IF QueueOf(m, d) = "no_answer" THEN Staler(d, e) ELSE Staler(e, d)
Preceding(m, d) == {e \in OpenDeals(m) : InFront(m, e, d)}
Queued(m) == {d \in OpenDeals(m) : QueueOf(m, d) # "none"}
Ahead(m, d) == {e \in Queued(m) : SoonerTurn(m, e, d)}

LEMMA QueueShape ==
  /\ \A m, b, d : d \in Queue(m, b) <=> d \in OpenDeals(m) /\ QueueOf(m, d) = b
  /\ \A m, d : Place(m, d) = Cardinality(Preceding(m, d))
  /\ \A m, cap : ActionDeals(m, cap) = {d \in Queued(m) : Cardinality(Ahead(m, d)) < cap}
<1>1. \A m, b, d : d \in Queue(m, b) <=> d \in OpenDeals(m) /\ QueueOf(m, d) = b
  BY DEF Queue
<1>2. ASSUME NEW m, NEW d PROVE Place(m, d) = Cardinality(Preceding(m, d))
  <2> DEFINE those == {e \in Queue(m, QueueOf(m, d)) :
                         IF QueueOf(m, d) = "no_answer" THEN Staler(d, e) ELSE Staler(e, d)}
  <2>1. those = Preceding(m, d)
    BY <1>1 DEF Preceding, InFront
  <2>2. Place(m, d) = Cardinality(those)
    BY DEF Place
  <2> HIDE DEF those
  <2> QED
    BY <2>1, <2>2
<1>3. \A m, cap : ActionDeals(m, cap) = {d \in Queued(m) : Cardinality(Ahead(m, d)) < cap}
  BY DEF ActionDeals, Queued, Ahead
<1> QED
  BY <1>1, <1>2, <1>3

(* Of two deals of a queue the one in front has the smaller place. *)
LEMMA PlacesOrder ==
  ASSUME FunnelInv, NEW m
  PROVE  /\ \A d : Place(m, d) \in Nat /\ IsFiniteSet(Preceding(m, d))
         /\ \A d, e \in OpenDeals(m) : QueueOf(m, d) = QueueOf(m, e) =>
              /\ d = e \/ InFront(m, e, d) \/ InFront(m, d, e)
              /\ InFront(m, e, d) => Place(m, e) < Place(m, d)
<1>1. \A d : Place(m, d) \in Nat /\ IsFiniteSet(Preceding(m, d))
  <2> TAKE d
  <2>1. Preceding(m, d) \in SUBSET OpenDeals(m)
    BY DEF Preceding
  <2>2. IsFiniteSet(Preceding(m, d))
    BY <2>1, StalerOrders, FS_Subset
  <2> QED
    BY <2>2, FS_CardinalityType, QueueShape
<1> SUFFICES ASSUME NEW d \in OpenDeals(m), NEW e \in OpenDeals(m), QueueOf(m, d) = QueueOf(m, e)
             PROVE  /\ d = e \/ InFront(m, e, d) \/ InFront(m, d, e)
                    /\ InFront(m, e, d) => Place(m, e) < Place(m, d)
  BY <1>1
<1>2. d = e \/ InFront(m, e, d) \/ InFront(m, d, e)
  BY StalerOrders, QueueShape DEF InFront
<1>3. ASSUME InFront(m, e, d) PROVE Place(m, e) < Place(m, d)
  <2>1. ASSUME NEW x \in Preceding(m, e) PROVE x \in Preceding(m, d)
    <3>1. x \in OpenDeals(m) /\ QueueOf(m, x) = QueueOf(m, d)
      BY <2>1, QueueShape DEF Preceding, InFront
    <3>2. InFront(m, x, d)
      BY <1>3, <2>1, <3>1, StalerOrders, QueueShape DEF Preceding, InFront
    <3> QED
      BY <3>1, <3>2 DEF Preceding
  <2>2. e \in Preceding(m, d)
    BY <1>3 DEF Preceding
  <2>3. e \notin Preceding(m, e)
    BY StalerOrders DEF Preceding, InFront
  <2>4. Cardinality(Preceding(m, e)) < Cardinality(Preceding(m, d))
    BY <1>1, <2>1, <2>2, <2>3, RanksFit
  <2> QED
    BY <2>4, QueueShape
<1> QED
  BY <1>2, <1>3

LEMMA TurnsOrder ==
  ASSUME FunnelInv, NEW m
  PROVE  /\ \A x \in Queued(m) : ~SoonerTurn(m, x, x)
         /\ \A x, y, z \in Queued(m) : SoonerTurn(m, x, y) /\ SoonerTurn(m, y, z) => SoonerTurn(m, x, z)
<1>1. \A b : ~MetFirst(m, b, b)
  BY StalerOrders, QueueShape DEF MetFirst
<1>2. ASSUME NEW b, NEW c, NEW e, MetFirst(m, b, c), MetFirst(m, c, e) PROVE MetFirst(m, b, e)
  <2>1. PICK x \in Queue(m, b) : \A y \in Queue(m, c) : Staler(x, y)
    BY <1>2 DEF MetFirst
  <2>2. PICK y \in Queue(m, c) : \A z \in Queue(m, e) : Staler(y, z)
    BY <1>2 DEF MetFirst
  <2>3. \A z \in Queue(m, e) : Staler(x, z)
    BY <2>1, <2>2, StalerOrders, QueueShape
  <2> QED
    BY <2>1, <2>3 DEF MetFirst
<1>3. \A x \in Queued(m) : Place(m, x) \in Nat
  BY PlacesOrder
<1>4. \A x \in Queued(m) : ~SoonerTurn(m, x, x)
  BY <1>1, <1>3 DEF SoonerTurn
<1>5. ASSUME NEW x \in Queued(m), NEW y \in Queued(m), NEW z \in Queued(m),
             SoonerTurn(m, x, y), SoonerTurn(m, y, z)
      PROVE  SoonerTurn(m, x, z)
  <2>1. Place(m, x) \in Nat /\ Place(m, y) \in Nat /\ Place(m, z) \in Nat
    BY <1>3
  <2>2. \/ Place(m, x) < Place(m, y)
        \/ Place(m, x) = Place(m, y) /\ MetFirst(m, QueueOf(m, x), QueueOf(m, y))
    BY <1>5 DEF SoonerTurn
  <2>3. \/ Place(m, y) < Place(m, z)
        \/ Place(m, y) = Place(m, z) /\ MetFirst(m, QueueOf(m, y), QueueOf(m, z))
    BY <1>5 DEF SoonerTurn
  <2>4. CASE Place(m, x) < Place(m, z)
    BY <2>4 DEF SoonerTurn
  <2>5. CASE ~(Place(m, x) < Place(m, z))
    <3>1. /\ Place(m, x) = Place(m, z)
          /\ MetFirst(m, QueueOf(m, x), QueueOf(m, y)) /\ MetFirst(m, QueueOf(m, y), QueueOf(m, z))
      BY <2>1, <2>2, <2>3, <2>5
    <3> QED
      BY <1>2, <3>1 DEF SoonerTurn
  <2> QED
    BY <2>4, <2>5
<1> QED
  BY <1>4, <1>5

(* A list that is not full shows every queued deal; and whatever is sooner than a *)
(* deal shown is shown.                                                          *)
LEMMA ListsShow ==
  ASSUME FunnelInv, NEW m
  PROVE  /\ Queued(m) \in SUBSET DealIds /\ IsFiniteSet(Queued(m))
         /\ \A cap \in Nat : Cardinality(Queued(m)) <= cap => ActionDeals(m, cap) = Queued(m)
         /\ ActionDeals(m, Cardinality(DealIds)) = Queued(m)
         /\ \A cap \in Nat : \A d \in ActionDeals(m, cap), e \in Queued(m) :
              SoonerTurn(m, e, d) => e \in ActionDeals(m, cap)
<1>1. Queued(m) \in SUBSET DealIds /\ IsFiniteSet(Queued(m)) /\ Cardinality(Queued(m)) \in Nat
  <2>1. Queued(m) \in SUBSET OpenDeals(m)
    BY DEF Queued
  <2> QED
    BY <2>1, StalerOrders, FS_Subset, FS_CardinalityType
<1>2. \A d : Ahead(m, d) \in SUBSET Queued(m) /\ IsFiniteSet(Ahead(m, d)) /\ Cardinality(Ahead(m, d)) \in Nat
  <2> TAKE d
  <2>1. Ahead(m, d) \in SUBSET Queued(m)
    BY DEF Ahead
  <2> QED
    BY <1>1, <2>1, FS_Subset, FS_CardinalityType
<1>3. ASSUME NEW cap \in Nat, Cardinality(Queued(m)) <= cap PROVE ActionDeals(m, cap) = Queued(m)
  <2>1. ASSUME NEW d \in Queued(m) PROVE Cardinality(Ahead(m, d)) < cap
    <3>1. d \notin Ahead(m, d)
      BY TurnsOrder DEF Ahead
    <3>2. Cardinality(Ahead(m, d)) < Cardinality(Queued(m))
      BY <1>1, <1>2, <3>1, RanksFit
    <3> QED
      BY <1>1, <1>2, <1>3, <3>2
  <2> QED
    BY <2>1, QueueShape
<1>4. ActionDeals(m, Cardinality(DealIds)) = Queued(m)
  <2>1. Cardinality(DealIds) \in Nat /\ Cardinality(Queued(m)) <= Cardinality(DealIds)
    BY <1>1, FunnelAssumption, FS_Subset, FS_CardinalityType
  <2> QED
    BY <1>3, <2>1
<1>5. ASSUME NEW cap \in Nat, NEW d \in ActionDeals(m, cap), NEW e \in Queued(m), SoonerTurn(m, e, d)
      PROVE  e \in ActionDeals(m, cap)
  <2>1. d \in Queued(m) /\ Cardinality(Ahead(m, d)) < cap
    BY <1>5, QueueShape
  <2>2. Ahead(m, e) \in SUBSET Ahead(m, d)
    BY <1>5, <2>1, TurnsOrder DEF Ahead
  <2>3. Cardinality(Ahead(m, e)) <= Cardinality(Ahead(m, d))
    BY <1>2, <2>2, FS_Subset
  <2>4. Cardinality(Ahead(m, e)) < cap
    BY <1>2, <2>1, <2>3
  <2> QED
    BY <2>4, QueueShape
<1> QED
  BY <1>1, <1>3, <1>4, <1>5

ListedIn(m, list, b) == {d \in list : QueueOf(m, d) = b}

LEMMA CountersAgree ==
  ASSUME FunnelInv, NEW m
  PROVE  \A b \in {"meetings", "no_answer", "cooling"} : Stats(m)[b] = Cardinality(ListedIn(m, Queued(m), b))
<1>1. ASSUME NEW b \in {"meetings", "no_answer", "cooling"}
      PROVE  {d \in OpenDeals(m) : BucketOf(d) = b} = ListedIn(m, Queued(m), b)
  <2>1. \A d : BucketOf(d) = b <=> QueueOf(m, d) = b
    BY <1>1 DEF QueueOf
  <2>2. b # "none"
    BY <1>1
  <2> QED
    BY <2>1, <2>2 DEF ListedIn, Queued
<1>2. /\ Stats(m)["meetings"] = Cardinality({d \in OpenDeals(m) : BucketOf(d) = "meetings"})
      /\ Stats(m)["no_answer"] = Cardinality({d \in OpenDeals(m) : BucketOf(d) = "no_answer"})
      /\ Stats(m)["cooling"] = Cardinality({d \in OpenDeals(m) : BucketOf(d) = "cooling"})
  BY DEF Stats
<1> TAKE b \in {"meetings", "no_answer", "cooling"}
<1>3. Stats(m)[b] = Cardinality({d \in OpenDeals(m) : BucketOf(d) = b})
  BY <1>2
<1> QED
  BY <1>1, <1>3, Zenon

(* So many deals of a queue have so small places. *)
LEMMA PlacesBound ==
  ASSUME FunnelInv, NEW m, NEW b, NEW p \in Nat, NEW T \in SUBSET Queue(m, b),
         \A x \in T : Place(m, x) <= p
  PROVE  Cardinality(T) \in Nat /\ Cardinality(T) <= p + 1
<1>1. \A x \in T : x \in OpenDeals(m) /\ QueueOf(m, x) = b /\ Place(m, x) \in Nat
  BY QueueShape, PlacesOrder
<1>2. IsFiniteSet(T) /\ Cardinality(T) \in Nat
  BY <1>1, StalerOrders, FS_Subset, FS_CardinalityType
<1>3. CASE T = {}
  BY <1>2, <1>3, FS_EmptySet
<1>4. CASE T # {}
  <2> DEFINE places == {Place(m, x) : x \in T}
  <2>1. places \in SUBSET (0..p) /\ places # {}
    BY <1>1, <1>4
  <2>2. PICK n \in places : \A k \in places : k <= n
    <3> HIDE DEF places
    <3> QED
      BY <2>1, GreatestDay
  <2>3. PICK x \in T : Place(m, x) = n
    BY <2>2
  <2>4. \A y \in T : Place(m, y) <= Place(m, x)
    BY <2>2, <2>3
  <2>5. T \ {x} \in SUBSET Preceding(m, x)
    <3>1. ASSUME NEW y \in T, y # x PROVE y \in Preceding(m, x)
      <4>1. InFront(m, y, x) \/ InFront(m, x, y)
        BY <1>1, <3>1, PlacesOrder
      <4>2. ~InFront(m, x, y)
        <5>1. InFront(m, x, y) => Place(m, x) < Place(m, y)
          BY <1>1, PlacesOrder
        <5>2. Place(m, x) \in Nat /\ Place(m, y) \in Nat /\ Place(m, y) <= Place(m, x)
          BY <1>1, <2>4
        <5> QED
          BY <5>1, <5>2
      <4> QED
        BY <1>1, <4>1, <4>2 DEF Preceding
    <3> QED
      BY <3>1
  <2>6. Cardinality(T \ {x}) <= Place(m, x)
    BY <2>5, PlacesOrder, FS_Subset, QueueShape
  <2>7. Cardinality(T \ {x}) = Cardinality(T) - 1
    BY <1>2, FS_RemoveElement
  <2>8. Place(m, x) \in Nat /\ Place(m, x) <= p
    BY <1>1
  <2> QED
    BY <1>2, <2>6, <2>7, <2>8
<1> QED
  BY <1>3, <1>4

(* A full list takes turns: a queue cut short is at most one deal behind any other. *)
LEMMA TurnsAreTaken ==
  ASSUME FunnelInv, NEW m, NEW cap \in Nat, NEW b, NEW c,
         Cardinality(ListedIn(m, ActionDeals(m, cap), b)) < Cardinality(ListedIn(m, Queued(m), b))
  PROVE  Cardinality(ListedIn(m, ActionDeals(m, cap), c)) <= Cardinality(ListedIn(m, ActionDeals(m, cap), b)) + 1
<1> DEFINE shown == ActionDeals(m, cap)
           left  == {x \in ListedIn(m, Queued(m), b) : x \notin shown}
           places == {Place(m, x) : x \in left}
<1>1. shown \in SUBSET Queued(m) /\ Queued(m) \in SUBSET OpenDeals(m) /\ IsFiniteSet(Queued(m))
  BY QueueShape, ListsShow DEF Queued
<1>2. \A B : IsFiniteSet(ListedIn(m, shown, B)) /\ Cardinality(ListedIn(m, shown, B)) \in Nat
  <2> TAKE B
  <2>1. ListedIn(m, shown, B) \in SUBSET Queued(m)
    BY <1>1 DEF ListedIn
  <2> QED
    BY <1>1, <2>1, FS_Subset, FS_CardinalityType
<1>3. \A x \in Queued(m) : Place(m, x) \in Nat
  BY PlacesOrder
<1>4. left # {}
  <2>1. SUFFICES ASSUME left = {} PROVE FALSE
    OBVIOUS
  <2>2. ListedIn(m, shown, b) = ListedIn(m, Queued(m), b)
    BY <1>1, <2>1 DEF ListedIn
  <2>3. Cardinality(ListedIn(m, shown, b)) < Cardinality(ListedIn(m, shown, b))
    BY <2>2
  <2> QED
    BY <1>2, <2>3
<1>5. places \in SUBSET Nat /\ places # {}
  BY <1>3, <1>4 DEF ListedIn
<1>6. PICK p \in places : \A k \in places : p <= k
  <2> HIDE DEF places
  <2> QED
    BY <1>5, LeastNatural
<1>7. PICK d \in left : Place(m, d) = p
  BY <1>6
<1>8. d \in Queued(m) /\ d \in OpenDeals(m) /\ QueueOf(m, d) = b /\ d \notin shown /\ p \in Nat
  BY <1>1, <1>3, <1>7 DEF ListedIn
<1>9. \A x \in left : p <= Place(m, x)
  BY <1>6
<1> HIDE DEF places
<1>10. Preceding(m, d) \in SUBSET ListedIn(m, shown, b)
  <2>1. ASSUME NEW x \in Preceding(m, d) PROVE x \in ListedIn(m, shown, b)
    <3>1. x \in OpenDeals(m) /\ QueueOf(m, x) = b /\ InFront(m, x, d)
      BY <1>8, <2>1, QueueShape DEF Preceding, InFront
    <3>2. x \in Queued(m)
      BY <1>8, <3>1 DEF Queued
    <3>3. Place(m, x) < Place(m, d)
      BY <1>8, <3>1, PlacesOrder
    <3>4. x \notin left
      <4>1. Place(m, x) \in Nat /\ Place(m, x) < p
        BY <1>3, <1>7, <3>2, <3>3
      <4> QED
        BY <1>8, <1>9, <4>1
    <3> QED
      BY <3>1, <3>2, <3>4 DEF ListedIn
  <2> QED
    BY <2>1
<1>11. p <= Cardinality(ListedIn(m, shown, b))
  BY <1>2, <1>7, <1>10, FS_Subset, QueueShape
<1>12. ListedIn(m, shown, c) \in SUBSET Queue(m, c)
  BY <1>1, QueueShape DEF ListedIn
<1>13. \A x \in ListedIn(m, shown, c) : Place(m, x) <= p
  <2>1. SUFFICES ASSUME NEW x \in shown, ~(Place(m, x) <= p) PROVE FALSE
    BY DEF ListedIn
  <2>2. Place(m, d) < Place(m, x)
    BY <1>1, <1>3, <1>7, <1>8, <2>1
  <2>3. SoonerTurn(m, d, x)
    BY <2>2 DEF SoonerTurn
  <2> QED
    BY <1>8, <2>1, <2>3, ListsShow
<1>14. Cardinality(ListedIn(m, shown, c)) <= p + 1
  BY <1>8, <1>12, <1>13, PlacesBound
<1> QED
  BY <1>2, <1>8, <1>11, <1>14

-----------------------------------------------------------------------------
(* What adds up. *)

LEMMA ReasonsAddUp ==
  ASSUME FunnelInv, NEW m, NEW w
  PROVE  SumFunction(LostReasons(m, w)) = Funnel(m, w).lost
<1> DEFINE lost  == ClosedLost(m, w)
           names == {deals[d].reason : d \in lost}
           name  == [d \in lost |-> deals[d].reason]
           those == [r \in names |-> {d \in lost : deals[d].reason = r}]
<1>1. IsFiniteSet(lost)
  <2>1. lost \in SUBSET DealIds
    BY DEF ClosedLost, TmDeals
  <2> QED
    BY <2>1, FunnelAssumption, FS_Subset
<1>2. Funnel(m, w).lost = Cardinality(lost)
  BY DEF Funnel
<1>3. DOMAIN LostReasons(m, w) = names /\ \A r \in names : LostReasons(m, w)[r] = Cardinality(those[r])
  BY DEF LostReasons
<1> HIDE DEF lost
<1>4. IsFiniteSet(names)
  <2>1. name \in Surjection(lost, names)
    BY DEF Surjection
  <2> HIDE DEF name, names
  <2> QED
    BY <1>1, <2>1, FS_Surjection
<1>5. /\ \A d \in lost : name[d] \in names
      /\ \A r \in names : \A d : d \in those[r] <=> d \in lost /\ name[d] = r
  OBVIOUS
<1> HIDE DEF name, names, those
<1>6. SumFunctionOnSet(LostReasons(m, w), names) = Cardinality(lost)
  BY <1>1, <1>3, <1>4, <1>5, SumOfParts
<1> QED
  BY <1>2, <1>3, <1>6 DEF SumFunction

LEMMA TalkAddsUp ==
  ASSUME FunnelInv, NEW m
  PROVE  SumFunction([d \in DaysSoFar |-> TalkTime(m, OneDay(d))]) = CallsBlock(m, Whole).talk
<1> DEFINE talked == Answered(m, Whole)
           daily  == [d \in DaysSoFar |-> TalkTime(m, OneDay(d))]
           day    == [a \in talked |-> DayOf(acts[a].born)]
           those  == [d \in DaysSoFar |-> Answered(m, OneDay(d))]
<1>1. \A w : \A a : a \in Answered(m, w) <=>
        /\ a \in ActIds /\ acts[a].kind = "logged" /\ acts[a].who = m /\ acts[a].answered /\ In(w, acts[a].born)
  BY DEF Answered, ActIds
<1>2. IsFiniteSet(talked) /\ IsFiniteSet(DaysSoFar)
  <2>1. talked \in SUBSET ActIds
    BY <1>1
  <2> QED
    BY <2>1, ActsTyped, WholeIsAll, FS_Subset
<1>3. \A a \in ActIds : /\ In(Whole, acts[a].born) <=> DayOf(acts[a].born) \in DaysSoFar
                        /\ \A d \in DaysSoFar : In(OneDay(d), acts[a].born) <=> DayOf(acts[a].born) = d
  <2> TAKE a \in ActIds
  <2>1. acts[a].born \in Nat /\ acts[a].born \in Int /\ \A d \in DaysSoFar : d \in Int
    BY ActsTyped, WholeIsAll
  <2> QED
    BY <2>1, WholeIsAll, DayIs
<1>4. \A a \in talked : day[a] \in DaysSoFar
  BY <1>1, <1>3
<1>5. \A d \in DaysSoFar : \A a : a \in those[d] <=> a \in talked /\ day[a] = d
  <2> TAKE d \in DaysSoFar
  <2> TAKE a
  <2>1. a \in those[d] <=> /\ a \in ActIds /\ acts[a].kind = "logged" /\ acts[a].who = m /\ acts[a].answered
                           /\ DayOf(acts[a].born) = d
    BY <1>1, <1>3
  <2>2. a \in talked <=> /\ a \in ActIds /\ acts[a].kind = "logged" /\ acts[a].who = m /\ acts[a].answered
                         /\ DayOf(acts[a].born) \in DaysSoFar
    BY <1>1, <1>3
  <2>3. a \in talked => day[a] = DayOf(acts[a].born)
    OBVIOUS
  <2> HIDE DEF those, talked, day
  <2> QED
    BY <2>1, <2>2, <2>3
<1>6. DOMAIN daily = DaysSoFar /\ \A d \in DaysSoFar : daily[d] = Cardinality(those[d])
  BY DEF TalkTime
<1>7. CallsBlock(m, Whole).talk = Cardinality(talked)
  BY DEF CallsBlock, TalkTime
<1> HIDE DEF talked, day, those, daily
<1>8. SumFunctionOnSet(daily, DaysSoFar) = Cardinality(talked)
  BY <1>2, <1>4, <1>5, <1>6, SumOfParts
<1> QED
  BY <1>6, <1>7, <1>8 DEF SumFunction, daily

-----------------------------------------------------------------------------
(* Months. *)

LEMMA DayEdges ==
  ASSUME NEW d \in Int
  PROVE  DayOf(d * DayLength) = d /\ DayOf((d + 1) * DayLength - 1) = d
<1>1. DayLength \in Nat \ {0} /\ d * DayLength \in Int /\ (d + 1) * DayLength = d * DayLength + DayLength
  BY FunnelAssumption
<1>2. (d + 1) * DayLength - 1 \in Int
  BY <1>1
<1>3. DayOf(d * DayLength) = d
  BY <1>1, DivIs DEF DayOf
<1>4. DayOf((d + 1) * DayLength - 1) = d
  <2>1. d * DayLength <= (d + 1) * DayLength - 1 /\ (d + 1) * DayLength - 1 < (d + 1) * DayLength
    BY <1>1
  <2> QED
    BY <1>1, <1>2, <2>1, DivIs DEF DayOf
<1> QED
  BY <1>3, <1>4

LEMMA MonthIs ==
  ASSUME NEW t \in Int, NEW i \in Int
  PROVE  /\ MonthOf(t) = i <=> i * MonthDays <= DayOf(t) /\ DayOf(t) <= (i + 1) * MonthDays - 1
         /\ In(Month(i), t) <=> MonthOf(t) = i
         /\ t \in Nat => MonthOf(t) \in Nat
<1>1. /\ MonthDays \in Nat \ {0} /\ DayOf(t) \in Int /\ i * MonthDays \in Int
      /\ (i + 1) * MonthDays - 1 \in Int /\ (i + 1) * MonthDays \in Int
  BY ReadsAssumption, DayIs, TimesInt
<1>2. MonthOf(t) = i <=> i * MonthDays <= DayOf(t) /\ DayOf(t) < (i + 1) * MonthDays
  BY <1>1, DivIs DEF MonthOf
<1>3. In(Month(i), t) <=> i * MonthDays <= DayOf(t) /\ DayOf(t) <= (i + 1) * MonthDays - 1
  BY <1>1, InDays DEF Month
<1>4. t \in Nat => MonthOf(t) \in Nat
  BY <1>1, DayIs DEF MonthOf
<1> QED
  BY <1>1, <1>2, <1>3, <1>4

LEMMA MonthsAgree ==
  ASSUME FunnelInv, NEW m, NEW i \in {x \in {MonthOf(now) - 1, MonthOf(now)} : x >= 0}
  PROVE  CrTrend(m, MonthOf(now), 2)[i].arrived = Money(m, Month(i)).meetings
<1> DEFINE last  == MonthOf(now)
           shown == {x \in (last - 2 + 1)..last : x >= 0}
           first == Min(shown)
           from  == first * MonthDays
           to    == (last + 1) * MonthDays - 1
           w     == Days(from, to)
           of(W) == {d \in Entrants({"VISIT"}, W) : deals[d].tm = m}
<1>1. now \in Nat /\ last \in Nat /\ i \in Nat /\ i \in shown
  <2>1. now \in Nat /\ now \in Int /\ 0 \in Int
    BY DEF FunnelInv
  <2>2. MonthOf(now) \in Nat
    BY <2>1, MonthIs
  <2> QED
    BY <2>1, <2>2
<1>2. first \in Nat /\ first <= i /\ i <= last
  <2>1. shown \in SUBSET Nat /\ shown # {}
    BY <1>1
  <2>2. i <= last
    BY <1>1
  <2> HIDE DEF shown
  <2>3. \E x \in shown : \A y \in shown : x <= y
    BY <2>1, LeastNatural
  <2>4. first \in shown /\ \A y \in shown : first <= y
    BY <2>3 DEF Min
  <2> QED
    BY <1>1, <2>1, <2>2, <2>4
<1>3. CrTrend(m, last, 2)[i].arrived = WonByMonth(m, w)[i]
  BY <1>1 DEF CrTrend
<1> HIDE DEF last, shown, first
<1>4. MonthDays \in Nat \ {0} /\ from \in Int /\ to \in Int /\ to + 1 \in Int
  BY <1>1, <1>2, ReadsAssumption, TimesInt
<1>5. MonthOf(w.from) = first /\ MonthOf(w.to - 1) = last
  <2>1. DayOf(w.from) = from /\ DayOf(w.to - 1) = to
    <3> HIDE DEF from, to
    <3> QED
      BY <1>4, DayEdges DEF Days
  <2>2. /\ (first + 1) * MonthDays = first * MonthDays + MonthDays
        /\ (last + 1) * MonthDays = last * MonthDays + MonthDays
        /\ first * MonthDays \in Int /\ last * MonthDays \in Int
    BY <1>1, <1>2, <1>4
  <2>3. from \div MonthDays = first
    BY <1>2, <1>4, <2>2, DivIs
  <2>4. to \div MonthDays = last
    BY <1>1, <1>4, <2>2, DivIs
  <2> HIDE DEF from, to, w
  <2> QED
    BY <2>1, <2>3, <2>4 DEF MonthOf
<1>6. Entries({"VISIT"}, Month(i)) = {e \in Entries({"VISIT"}, w) : MonthOf(e.at) = i}
  <2>1. ASSUME NEW h \in trail PROVE In(Month(i), h.at) <=> In(w, h.at) /\ MonthOf(h.at) = i
    <3>1. h.at \in Nat /\ h.at \in Int
      BY DEF FunnelInv
    <3>2. In(Month(i), h.at) <=> MonthOf(h.at) = i
      BY <1>1, <3>1, MonthIs
    <3>3. ASSUME MonthOf(h.at) = i PROVE In(w, h.at)
      <4>1. i * MonthDays <= DayOf(h.at) /\ DayOf(h.at) <= (i + 1) * MonthDays - 1
        BY <1>1, <3>1, <3>3, MonthIs
      <4>2. first * MonthDays <= i * MonthDays /\ (i + 1) * MonthDays <= (last + 1) * MonthDays
        BY <1>1, <1>2, <1>4, TimesGrows
      <4>3. /\ first * MonthDays \in Int /\ i * MonthDays \in Int /\ (i + 1) * MonthDays \in Int
            /\ (last + 1) * MonthDays \in Int /\ DayOf(h.at) \in Int
        BY <1>1, <1>2, <1>4, <3>1, TimesInt, DayIs
      <4>4. from <= DayOf(h.at) /\ DayOf(h.at) <= to
        BY <4>1, <4>2, <4>3
      <4> HIDE DEF from, to
      <4> QED
        BY <1>4, <3>1, <4>4, InDays
    <3> QED
      BY <3>2, <3>3
  <2> HIDE DEF w
  <2> QED
    BY <2>1 DEF Entries
<1>7. Money(m, Month(i)).meetings = Cardinality(of(Month(i)))
  BY DEF Money, WonByTm
<1>8. WonByMonth(m, w)[i] =
        Cardinality({d \in {h.deal : h \in {e \in Entries({"VISIT"}, w) : MonthOf(e.at) = i}} : deals[d].tm = m})
  <2>1. i \in MonthOf(w.from)..MonthOf(w.to - 1)
    BY <1>1, <1>2, <1>5
  <2> HIDE DEF w
  <2> QED
    BY <2>1 DEF WonByMonth
<1>9. {h.deal : h \in {e \in Entries({"VISIT"}, w) : MonthOf(e.at) = i}} = Entrants({"VISIT"}, Month(i))
  <2> HIDE DEF w
  <2> QED
    BY <1>6, Zenon DEF Entrants
<1> HIDE DEF w
<1>10. WonByMonth(m, w)[i] = Cardinality(of(Month(i)))
  BY <1>8, <1>9, Zenon
<1> QED
  BY <1>3, <1>7, <1>10 DEF last

-----------------------------------------------------------------------------
(* The bookings of the days and of the whole. *)

BookedOf(m, w) == {x \in Entrants({"BOOKED"}, w) : deals[x].owner = m}

LEMMA BookedDeals ==
  ASSUME FunnelInv, NEW m
  PROVE  /\ \A w : Booked(m, w) = Cardinality(BookedOf(m, w))
         /\ \A w : BookedOf(m, w) \in SUBSET DealIds /\ IsFiniteSet(BookedOf(m, w))
         /\ \A d \in DaysSoFar : \A x : x \in BookedOf(m, OneDay(d)) <=>
              \E h \in Entries({"BOOKED"}, Whole) : h.deal = x /\ deals[x].owner = m /\ DayOf(h.at) = d
         /\ \A h \in Entries({"BOOKED"}, Whole) : DayOf(h.at) \in DaysSoFar
         /\ \A x : x \in BookedOf(m, Whole) <=>
              \E h \in Entries({"BOOKED"}, Whole) : h.deal = x /\ deals[x].owner = m
         /\ IsFiniteSet(Entries({"BOOKED"}, Whole))
<1>1. \A h \in trail : h.at \in Nat /\ h.at \in Int /\ h.deal \in DealIds
  BY DEF FunnelInv
<1>2. \A w : \A h : h \in Entries({"BOOKED"}, w) <=> h \in trail /\ h.stage = "BOOKED" /\ In(w, h.at)
  BY DEF Entries
<1>3. \A w : \A x : x \in BookedOf(m, w) <=> \E h \in Entries({"BOOKED"}, w) : h.deal = x /\ deals[x].owner = m
  BY DEF BookedOf, Entrants
<1>4. \A w : Booked(m, w) = Cardinality(BookedOf(m, w))
  BY DEF Booked, EntrantsOf, BookedOf
<1>5. \A w : BookedOf(m, w) \in SUBSET DealIds /\ IsFiniteSet(BookedOf(m, w))
  <2> TAKE w
  <2>1. BookedOf(m, w) \in SUBSET DealIds
    BY <1>1, <1>2, <1>3
  <2> QED
    BY <2>1, FunnelAssumption, FS_Subset
<1>6. \A h \in trail : /\ In(Whole, h.at) <=> DayOf(h.at) \in DaysSoFar
                       /\ \A d \in DaysSoFar : In(OneDay(d), h.at) <=> DayOf(h.at) = d
  <2> TAKE h \in trail
  <2>1. \A d \in DaysSoFar : d \in Int
    BY WholeIsAll
  <2> QED
    BY <1>1, <2>1, WholeIsAll, DayIs
<1>7. \A d \in DaysSoFar : \A h : h \in Entries({"BOOKED"}, OneDay(d)) <=> h \in Entries({"BOOKED"}, Whole) /\ DayOf(h.at) = d
  BY <1>2, <1>6
<1>8. \A d \in DaysSoFar : \A x : x \in BookedOf(m, OneDay(d)) <=>
        \E h \in Entries({"BOOKED"}, Whole) : h.deal = x /\ deals[x].owner = m /\ DayOf(h.at) = d
  BY <1>3, <1>7
<1>9. \A h \in Entries({"BOOKED"}, Whole) : DayOf(h.at) \in DaysSoFar
  BY <1>2, <1>6
<1>10. IsFiniteSet(Entries({"BOOKED"}, Whole))
  <2>1. Entries({"BOOKED"}, Whole) \in SUBSET trail
    BY <1>2
  <2> QED
    BY <2>1, FS_Subset DEF FunnelInv
<1> QED
  BY <1>3, <1>4, <1>5, <1>8, <1>9, <1>10

(* A deal and a day it was booked on: as many as the days sum to. *)
BookedDays(m) == {p \in DealIds \X DaysSoFar : p[1] \in BookedOf(m, OneDay(p[2]))}

LEMMA DaysSum ==
  ASSUME FunnelInv, NEW m, NEW f, \A d \in DaysSoFar : f[d] = Booked(m, OneDay(d))
  PROVE  IsFiniteSet(BookedDays(m)) /\ SumFunctionOnSet(f, DaysSoFar) = Cardinality(BookedDays(m))
<1> DEFINE pairs == BookedDays(m)
           day   == [p \in pairs |-> p[2]]
           part  == [d \in DaysSoFar |-> {p \in pairs : p[2] = d}]
<1>1. IsFiniteSet(DaysSoFar) /\ IsFiniteSet(DealIds)
  BY WholeIsAll, FunnelAssumption
<1>2. IsFiniteSet(pairs)
  <2>1. IsFiniteSet(DealIds \X DaysSoFar)
    BY <1>1, FS_Product
  <2>2. pairs \in SUBSET (DealIds \X DaysSoFar)
    BY DEF BookedDays
  <2> QED
    BY <2>1, <2>2, FS_Subset
<1>3. \A p \in pairs : day[p] \in DaysSoFar
  BY DEF BookedDays
<1>4. \A d \in DaysSoFar : \A p : p \in part[d] <=> p \in pairs /\ day[p] = d
  OBVIOUS
<1>5. \A d \in DaysSoFar : f[d] = Cardinality(part[d])
  <2> TAKE d \in DaysSoFar
  <2> DEFINE own  == BookedOf(m, OneDay(d))
             pair == [x \in own |-> <<x, d>>]
  <2>1. own \in SUBSET DealIds /\ IsFiniteSet(own) /\ f[d] = Cardinality(own)
    BY BookedDeals
  <2>2. \A x : x \in own <=> x \in DealIds /\ <<x, d>> \in pairs
    BY <2>1 DEF BookedDays
  <2>3. \A p \in part[d] : p = <<p[1], d>> /\ p[1] \in own
    BY <2>2 DEF BookedDays
  <2>4. \A x \in own : <<x, d>> \in part[d]
    BY <2>2
  <2>5. pair \in Bijection(own, part[d])
    <3> HIDE DEF own, part
    <3>1. pair \in [own -> part[d]]
      BY <2>4
    <3>2. \A x, y \in own : pair[x] = pair[y] => x = y
      OBVIOUS
    <3>3. \A p \in part[d] : \E x \in own : pair[x] = p
      BY <2>3
    <3> HIDE DEF pair
    <3> QED
      BY <3>1, <3>2, <3>3 DEF Bijection, Injection, Surjection, IsInjective
  <2> HIDE DEF own, pair, part
  <2>6. Cardinality(part[d]) = Cardinality(own)
    BY <2>1, <2>5, FS_Bijection DEF ExistsBijection
  <2> QED
    BY <2>1, <2>6
<1> HIDE DEF pairs, day, part
<1>6. SumFunctionOnSet(f, DaysSoFar) = Cardinality(pairs)
  BY <1>1, <1>2, <1>3, <1>4, <1>5, SumOfParts
<1> QED
  BY <1>2, <1>6 DEF pairs

LEMMA BookedAddsUp ==
  ASSUME FunnelInv, NEW m
  PROVE  /\ Cardinality(BookedDays(m)) >= Booked(m, Whole)
         /\ MeetingsBlock(m, Whole).rebooked = 0 => Cardinality(BookedDays(m)) = Booked(m, Whole)
<1> DEFINE pairs == BookedDays(m)
           own   == BookedOf(m, Whole)
           deal  == [p \in pairs |-> p[1]]
           all   == Entries({"BOOKED"}, Whole)
           twice == {x \in own : Cardinality({h \in all : h.deal = x}) >= 2}
<1>1. IsFiniteSet(pairs)
  <2> DEFINE f == [d \in DaysSoFar |-> Booked(m, OneDay(d))]
  <2>1. \A d \in DaysSoFar : f[d] = Booked(m, OneDay(d))
    OBVIOUS
  <2> HIDE DEF f
  <2> QED
    BY <2>1, DaysSum
<1>2. Booked(m, Whole) = Cardinality(own) /\ IsFiniteSet(own) /\ own \in SUBSET DealIds
  BY BookedDeals
<1>3. \A p \in pairs : /\ p \in DealIds \X DaysSoFar /\ p[1] \in DealIds /\ p[2] \in DaysSoFar
                       /\ \E h \in all : h.deal = p[1] /\ deals[p[1]].owner = m /\ DayOf(h.at) = p[2]
  BY BookedDeals DEF BookedDays
<1>4. \A p \in pairs : p[1] \in own
  BY <1>3, BookedDeals
<1>5. \A x \in own : \E p \in pairs : p[1] = x
  <2> TAKE x \in own
  <2>1. PICK h \in all : h.deal = x /\ deals[x].owner = m
    BY BookedDeals
  <2>2. DayOf(h.at) \in DaysSoFar /\ x \in DealIds
    BY <1>2, BookedDeals
  <2>3. x \in BookedOf(m, OneDay(DayOf(h.at)))
    BY <2>1, <2>2, BookedDeals
  <2>4. <<x, DayOf(h.at)>> \in pairs
    BY <2>2, <2>3 DEF BookedDays
  <2> QED
    BY <2>4
<1>6. deal \in Surjection(pairs, own)
  <2> HIDE DEF pairs, own
  <2>1. deal \in [pairs -> own] /\ \A x \in own : \E p \in pairs : deal[p] = x
    BY <1>4, <1>5
  <2> HIDE DEF deal
  <2> QED
    BY <2>1 DEF Surjection
<1>7. Cardinality(own) <= Cardinality(pairs) /\ Cardinality(own) \in Nat /\ Cardinality(pairs) \in Nat
  <2> HIDE DEF pairs, own, deal
  <2> QED
    BY <1>1, <1>2, <1>6, FS_Surjection, FS_CardinalityType
<1>8. MeetingsBlock(m, Whole).rebooked = Cardinality(twice)
  <2>1. Outcomes(m, "BOOKED", Whole).rebooked = Cardinality(twice)
    BY Zenon DEF Outcomes, BookedOf
  <2> HIDE DEF twice
  <2> QED
    BY <2>1 DEF MeetingsBlock
<1>9. ASSUME MeetingsBlock(m, Whole).rebooked = 0 PROVE Cardinality(pairs) = Cardinality(own)
  <2>1. twice = {}
    <3>1. twice \in SUBSET own
      OBVIOUS
    <3> HIDE DEF twice, own
    <3>2. IsFiniteSet(twice) /\ Cardinality(twice) = 0
      BY <1>2, <1>8, <1>9, <3>1, FS_Subset
    <3> QED
      BY <3>2, FS_EmptySet
  <2>2. ASSUME NEW p \in pairs, NEW q \in pairs, p[1] = q[1], p[2] # q[2] PROVE FALSE
    <3>1. PICK h \in all : h.deal = p[1] /\ DayOf(h.at) = p[2]
      BY <1>3
    <3>2. PICK k \in all : k.deal = p[1] /\ DayOf(k.at) = q[2]
      BY <1>3, <2>2
    <3> DEFINE those == {e \in all : e.deal = p[1]}
    <3>3. h # k /\ {h, k} \in SUBSET those
      BY <2>2, <3>1, <3>2
    <3>4. IsFiniteSet(those)
      <4>1. those \in SUBSET all /\ IsFiniteSet(all)
        BY BookedDeals
      <4> HIDE DEF those, all
      <4> QED
        BY <4>1, FS_Subset
    <3>5. Cardinality({h, k}) = 2
      <4>1. IsFiniteSet({h}) /\ Cardinality({h}) = 1 /\ k \notin {h} /\ {h, k} = {h} \cup {k}
        BY <3>3, FS_Singleton
      <4>2. Cardinality({h} \cup {k}) = 2
        BY <4>1, FS_AddElement
      <4> QED
        BY <4>1, <4>2
    <3>6. Cardinality(those) >= 2
      <4> HIDE DEF those
      <4>1. Cardinality({h, k}) <= Cardinality(those) /\ Cardinality(those) \in Nat
        BY <3>3, <3>4, FS_Subset, FS_CardinalityType
      <4> QED
        BY <3>5, <4>1
    <3>7. p[1] \in own
      BY <1>4
    <3> QED
      BY <2>1, <3>6, <3>7
  <2>3. \A p, q \in pairs : deal[p] = deal[q] => p = q
    <3> TAKE p \in pairs, q \in pairs
    <3>1. deal[p] = p[1] /\ deal[q] = q[1] /\ p = <<p[1], p[2]>> /\ q = <<q[1], q[2]>>
      BY <1>3
    <3> HIDE DEF pairs, deal
    <3> QED
      BY <2>2, <3>1
  <2>4. deal \in Injection(pairs, own)
    <3> HIDE DEF pairs, own, deal
    <3> QED
      BY <1>6, <2>3 DEF Surjection, Injection, IsInjective
  <2> HIDE DEF pairs, own, deal
  <2> QED
    BY <1>1, <1>6, <2>4, FS_Surjection
<1> HIDE DEF pairs, own
<1> QED
  BY <1>2, <1>7, <1>9 DEF pairs

LEMMA SheetAddsUp ==
  ASSUME FunnelInv, NEW m \in Sellers, ExportDays(Whole) = DaysSoFar
  PROVE  \A total \in {FlowSummary(Sellers, ExportRows(Sellers, Whole).rows)[m].booked} :
           /\ total >= Booked(m, Whole)
           /\ MeetingsBlock(m, Whole).rebooked = 0 => total = Booked(m, Whole)
<1> DEFINE flow == TaskFlow(Sellers, ExportDays(Whole), ExportScanCap)
           perDay(x) == EntrantsPerDay(x, "BOOKED", Whole)
           rows == ExportRows(Sellers, Whole).rows
           f    == [d \in DOMAIN rows |-> rows[d][m].booked]
<1>1. DOMAIN flow.rows = DaysSoFar
  <2>1. ExportDays(Whole) = {d \in ExportDays(Whole) : Elapsed(d) # {}}
    BY WholeIsAll
  <2> QED
    BY <2>1, FlowDays
<1> HIDE DEF flow
<1>2. rows = [d \in DOMAIN flow.rows |-> [x \in Sellers |->
                [flow |-> flow.rows[d][x], booked |-> IF d \in DOMAIN perDay(x) THEN perDay(x)[d] ELSE 0]]]
  <2> HIDE DEF perDay
  <2> QED
    BY DEF ExportRows, flow, perDay
<1>3. \A d \in DaysSoFar : Booked(m, OneDay(d)) = IF d \in DOMAIN perDay(m) THEN perDay(m)[d] ELSE 0
  BY BookedByDay
<1> HIDE DEF perDay, rows
<1>4. DOMAIN rows = DaysSoFar
  BY <1>1, <1>2
<1>5. \A d \in DaysSoFar : f[d] = Booked(m, OneDay(d))
  BY <1>1, <1>2, <1>3
<1>6. FlowSummary(Sellers, rows)[m].booked = SumFunction(f)
  BY DEF FlowSummary
<1>7. SumFunction(f) = SumFunctionOnSet(f, DaysSoFar)
  BY <1>4 DEF SumFunction
<1> HIDE DEF f
<1>8. FlowSummary(Sellers, rows)[m].booked = Cardinality(BookedDays(m))
  BY <1>5, <1>6, <1>7, DaysSum
<1> QED
  BY <1>8, BookedAddsUp DEF rows

-----------------------------------------------------------------------------
LEMMA ListsAgree ==
  ASSUME FunnelInv, NEW m \in Sellers
  PROVE  LET shown  == ActionDeals(m, MaxActions)
             full   == ActionDeals(m, Cardinality(DealIds))
             In_(list, b) == Cardinality({d \in list : QueueOf(m, d) = b})
             queues == {"meetings", "no_answer", "cooling", "no_task"}
         IN /\ \A b \in queues \ {"no_task"} : Stats(m)[b] = In_(full, b)
            /\ Cardinality(full) <= MaxActions => shown = full
            /\ \A b, c \in queues : In_(shown, b) < In_(full, b) => In_(shown, c) <= In_(shown, b) + 1
<1> DEFINE shown == ActionDeals(m, MaxActions)
           full  == ActionDeals(m, Cardinality(DealIds))
<1>1. full = Queued(m) /\ MaxActions \in Nat
  BY ListsShow, ReadsAssumption
<1>2. \A b \in {"meetings", "no_answer", "cooling"} : Stats(m)[b] = Cardinality(ListedIn(m, full, b))
  BY <1>1, CountersAgree
<1>3. Cardinality(full) <= MaxActions => shown = full
  BY <1>1, ListsShow
<1>4. \A b, c : Cardinality(ListedIn(m, shown, b)) < Cardinality(ListedIn(m, full, b)) =>
                  Cardinality(ListedIn(m, shown, c)) <= Cardinality(ListedIn(m, shown, b)) + 1
  BY <1>1, TurnsAreTaken
<1>5. {"meetings", "no_answer", "cooling", "no_task"} \ {"no_task"} = {"meetings", "no_answer", "cooling"}
  OBVIOUS
<1> QED
  BY <1>2, <1>3, <1>4, <1>5, Zenon DEF ListedIn

LEMMA ScreensFit == FunnelInv => ScreensAgree
<1> SUFFICES ASSUME FunnelInv PROVE ScreensAgree
  OBVIOUS
<1> DEFINE whole == Days(0, DayOf(now))
           sheet == ExportRows(Sellers, whole)
           late  == TeamOverdue(Sellers, ListCap)
<1>1. whole = Whole
  BY DEF Whole
<1>2. ASSUME NEW d \in DaysSoFar
      PROVE  LET screen == TeamScreen(Sellers, d)
             IN ~sheet.truncated /\ ~screen.truncated =>
                  screen.rows = IF d \in DOMAIN sheet.rows THEN sheet.rows[d] ELSE << >>
  BY <1>1, SheetIsScreens, Zenon
<1>3. ASSUME NEW m \in Sellers, NEW d \in DaysSoFar
      PROVE  LET w == OneDay(d)
             IN /\ Booked(m, w) = Funnel(m, w).booked /\ Booked(m, w) = MeetingsBlock(m, w).booked
                /\ DayTiles(m, w).overdue = TasksBlock(m, w).overdue
                /\ OnTimeShare(m, w).base - OnTimeShare(m, w).good = TasksBlock(m, w).overdue
                /\ TasksBlock(m, w).total = Cardinality(TasksOf(m, w))
                /\ DayTiles(m, w).overdue <= MaxActions => Cardinality(OverdueItems(m, w)) = DayTiles(m, w).overdue
                /\ ~late.truncated => LeftOf(m, Due(w)) \subseteq late.tasks
                /\ \A i \in 1..5 : Hygiene(m, w)[i].good \in 0..Hygiene(m, w)[i].base
  BY WindowsAgree, Zenon
<1>4. ASSUME NEW m \in Sellers
      PROVE  /\ SumFunction(LostReasons(m, whole)) = Funnel(m, whole).lost
             /\ ExportDays(whole) = DaysSoFar =>
                  \A total \in {FlowSummary(Sellers, sheet.rows)[m].booked} :
                    /\ total >= Booked(m, whole)
                    /\ MeetingsBlock(m, whole).rebooked = 0 => total = Booked(m, whole)
             /\ SumFunction([d \in DaysSoFar |-> TalkTime(m, OneDay(d))]) = CallsBlock(m, whole).talk
             /\ \A i \in {x \in {MonthOf(now) - 1, MonthOf(now)} : x >= 0} :
                  CrTrend(m, MonthOf(now), 2)[i].arrived = Money(m, Month(i)).meetings
  <2>1. SumFunction(LostReasons(m, whole)) = Funnel(m, whole).lost
    BY ReasonsAddUp
  <2>2. ASSUME ExportDays(whole) = DaysSoFar
        PROVE  \A total \in {FlowSummary(Sellers, sheet.rows)[m].booked} :
                 /\ total >= Booked(m, whole)
                 /\ MeetingsBlock(m, whole).rebooked = 0 => total = Booked(m, whole)
    BY <1>1, <2>2, SheetAddsUp, Zenon
  <2>3. SumFunction([d \in DaysSoFar |-> TalkTime(m, OneDay(d))]) = CallsBlock(m, whole).talk
    BY <1>1, TalkAddsUp, Zenon
  <2>4. \A i \in {x \in {MonthOf(now) - 1, MonthOf(now)} : x >= 0} :
          CrTrend(m, MonthOf(now), 2)[i].arrived = Money(m, Month(i)).meetings
    BY MonthsAgree
  <2> QED
    BY <2>1, <2>2, <2>3, <2>4
<1>5. ASSUME NEW m \in Sellers
      PROVE  LET shown  == ActionDeals(m, MaxActions)
                 full   == ActionDeals(m, Cardinality(DealIds))
                 In_(list, b) == Cardinality({d \in list : QueueOf(m, d) = b})
                 queues == {"meetings", "no_answer", "cooling", "no_task"}
             IN /\ \A b \in queues \ {"no_task"} : Stats(m)[b] = In_(full, b)
                /\ Cardinality(full) <= MaxActions => shown = full
                /\ \A b, c \in queues : In_(shown, b) < In_(full, b) => In_(shown, c) <= In_(shown, b) + 1
  BY ListsAgree
<1> QED
  BY <1>2, <1>3, <1>4, <1>5, Zenon DEF ScreensAgree

(* The live screens agree, whatever people and the portal do to the funnel *)
(* between two readings (day.py, hygiene.py, analytics.py, service.py).    *)
THEOREM FunnelScreensAgree == PortalSpec => []ScreensAgree
<1>1. PortalInit => FunnelInv
  BY FunnelStart
<1>2. FunnelInv /\ [PortalNext]_portalVars => FunnelInv'
  BY FunnelStep
<1>3. FunnelInv => ScreensAgree
  BY ScreensFit
<1> QED
  BY <1>1, <1>2, <1>3, PTL DEF PortalSpec
===============================================================================
