---------------------------- MODULE SettingsProofs ----------------------------
(* Proofs about Settings, for any resources, settings, clusters, pools of the    *)
(* sizes it has, failures and bounds.                                            *)
EXTENDS Settings, SequenceTheorems, WellFoundedInduction, TLAPS

Members(p) == {Cluster[p][i] : i \in DOMAIN Cluster[p]}

States(r) == State(r) \cup {Blank(n) : n \in Instance} \cup {Nil}

\* What r works with
At(r) ==
    /\ pc[r] = "refresh" => st[r] # Nil
    /\ pc[r] \in {"take", "run"} =>
          \/ plan[r] = "create" /\ cfg[r] # Nil
          \/ plan[r] = "update" /\ cfg[r] # Nil /\ st[r] \in State(r)
          \/ plan[r] = "delete" /\ st[r] \in State(r)
    /\ pc[r] = "deleted" => cfg[r] # Nil
    /\ pc[r] \in {"take", "run"} => pos[r] <= Statements(r)

DataInv ==
    /\ product \in Product
    /\ value \in [Setting -> [Instance -> Value]]
    /\ up \subseteq Members(product) /\ up # {}
    /\ cfg = [r \in Res |-> cfg[r]] /\ \A r \in Res : cfg[r] \in Blocks(r) \cup {Nil}
    /\ st = [r \in Res |-> st[r]] /\ \A r \in Res : st[r] \in States(r)
    /\ plan \in [Res -> {"none", "create", "update", "delete", "stuck"}]
    /\ pc \in [Res -> {"refresh", "planned", "take", "run", "deleted", "done"}]
    /\ pos = [r \in Res |-> pos[r]] /\ \A r \in Res : pos[r] \in 1 .. Len(Of[r]) + 1
    /\ edits \in 0 .. MaxEdits
    /\ faults \subseteq Faults
    /\ \A r \in Res : At(r)

\* A connection is idle or a handler's, and no two have it: who gives one back leaves no
\* copy of it, and closing one leaves none that is idle.
PoolInv ==
    /\ conn \in [Res -> Conn \cup {Nil}]
    /\ free \in Seq(opened) /\ opened \subseteq Conn /\ warned \subseteq opened
    /\ \A r, t \in Res : conn[r] = conn[t] /\ conn[r] # Nil => r = t
    /\ \A r \in Res : pc[r] = "run" <=> conn[r] # Nil
    /\ \A i, j \in 1 .. Len(free) : free[i] = free[j] => i = j
    /\ \A r \in Res : conn[r] # Nil =>
          conn[r] \in opened /\ \A i \in 1 .. Len(free) : free[i] # conn[r]

TypeInv == DataInv /\ PoolInv

\* Nothing is applied before everything is read.
Phase ==
    \/ \A r \in Res : pc[r] \in {"refresh", "planned"}
    \/ \A r \in Res : pc[r] \in {"take", "run", "deleted", "done"}

------------------------------------------------------------------------------
(* The operators of the model *)

LEMMA Limits == MaxEdits \in Nat
BY SettingsAssumption

LEMMA NilIsNone ==
    /\ Nil \notin Conn
    /\ Nil \notin Instance
    /\ \A r \in Res : Nil \notin Block(r) /\ Nil \notin State(r)
BY NilAssumption, SettingsAssumption

LEMMA OfType ==
    ASSUME NEW r \in Res
    PROVE  /\ Of[r] \in Seq(Setting) /\ Len(Of[r]) \in Nat \ {0} /\ DOMAIN Of[r] = 1 .. Len(Of[r])
           /\ \A i \in 1 .. Len(Of[r]) : Of[r][i] \in Setting
BY SettingsAssumption, LenProperties, EmptySeq, ElementOfSeq

LEMMA BlockType ==
    ASSUME DataInv, NEW r \in Res, cfg[r] # Nil
    PROVE  /\ cfg[r] \in Configs[r] /\ cfg[r].val \in [DOMAIN Of[r] -> Value]
           /\ cfg[r].at \in Instance \cup {Nil}
BY SettingsAssumption DEF DataInv, Blocks, Block

LEMMA MembersType ==
    ASSUME NEW p \in Product
    PROVE  Members(p) \subseteq Instance
BY DEF Members, Instance

\* The least number of a set, as the first instance that is up
LEMMA LessIsWellFounded == IsWellFoundedOn({ss \in Nat \X Nat : ss[1] < ss[2]}, Nat)
BY NatLessThanWellFounded DEF OpToRel

LEMMA Least ==
    ASSUME NEW S \in SUBSET Nat, S # {}
    PROVE  \E x \in S : \A y \in S : ~(y < x)
<1>1. PICK x \in S : \A y \in S : ~(<<y, x>> \in {ss \in Nat \X Nat : ss[1] < ss[2]})
    BY WFMin, LessIsWellFounded
<1> QED
    BY <1>1

LEMMA FirstType ==
    ASSUME DataInv
    PROVE  First \in up
<1> DEFINE C == Cluster[product]
           Is(i) == C[i] \in up /\ \A j \in 1 .. i - 1 : ~(C[j] \in up)
<1>1. C \in Seq(Instance) /\ DOMAIN C = 1 .. Len(C) /\ Len(C) \in Nat
    BY SettingsAssumption, LenProperties DEF DataInv
<1> DEFINE S == {i \in 1 .. Len(C) : C[i] \in up}
<1>2. S \in SUBSET Nat /\ S # {}
    BY <1>1 DEF DataInv, Members
<1> HIDE DEF C
<1>3. PICK i \in S : \A j \in S : ~(j < i)
  <2> HIDE DEF S
  <2> QED
      BY <1>2, Least
<1>4. i \in DOMAIN C /\ Is(i)
    BY <1>1, <1>3
<1>5. Is(CHOOSE k \in DOMAIN C : Is(k))
  <2> HIDE DEF Is
  <2> QED
      BY <1>4
<1>6. First = C[CHOOSE k \in DOMAIN C : Is(k)]
    BY DEF First, C
<1> QED
    BY <1>5, <1>6

LEMMA PlannedType ==
    ASSUME DataInv, NEW r \in Res, cfg[r] # Nil, NEW id \in Instance \cup {Nil}
    PROVE  Planned(r, id) \in State(r)
BY BlockType DEF Planned, State

LEMMA ReadType ==
    ASSUME DataInv, NEW r \in Res, NEW old \in States(r), old # Nil
    PROVE  Read(r, old) \in States(r) /\ Read(r, old) # Nil
<1>1. old.id \in Instance \cup {Nil}
    BY DEF States, State, Blank
<1>2. CASE old.id # Nil /\ old.id \notin up
    BY <1>1, <1>2, NilAssumption DEF Read, States
<1>3. CASE old.id = Nil \/ old.id \in up
  <2>1. Shown(old.id) \in Instance
      BY <1>1, FirstType, MembersType DEF Shown, DataInv
  <2>2. [i \in DOMAIN Of[r] |-> value[Of[r][i]][Shown(old.id)]] \in [DOMAIN Of[r] -> Value]
      BY <2>1, OfType DEF DataInv
  <2>3. (IF old.id = Nil THEN old.at ELSE old.id) \in Instance \cup {Nil}
      BY <1>1 DEF States, State, Blank
  <2>4. Read(r, old) = [val |-> [i \in DOMAIN Of[r] |-> value[Of[r][i]][Shown(old.id)]],
                        at  |-> IF old.id = Nil THEN old.at ELSE old.id,
                        id  |-> old.id]
      BY <1>3 DEF Read
  <2>5. Read(r, old) \in State(r)
      BY <1>1, <2>2, <2>3, <2>4 DEF State
  <2> QED
      BY <2>5, NilIsNone DEF States
<1> QED
    BY <1>2, <1>3

LEMMA StatementsType ==
    ASSUME NEW r \in Res
    PROVE  Statements(r) \in Len(Of[r]) .. Len(Of[r]) + 1
<1> DEFINE m == Len(Of[r])
<1>1. m \in Nat \ {0}
    BY OfType
<1>2. CASE Kind[r] = "ti" \/ (Kind[r] = "global" /\ plan[r] # "delete")
  <2>1. Statements(r) = m + 1
      BY <1>2, Zenon DEF Statements
  <2> QED
      BY <1>1, <2>1
<1>3. CASE ~(Kind[r] = "ti" \/ (Kind[r] = "global" /\ plan[r] # "delete"))
  <2>1. Statements(r) = m + 0
      BY <1>3, Zenon DEF Statements
  <2> QED
      BY <1>1, <2>1
<1> QED
    BY <1>2, <1>3

LEMMA StatementsStay ==
    ASSUME NEW r \in Res, plan'[r] = plan[r]
    PROVE  Statements(r)' = Statements(r)
BY DEF Statements

LEMMA TargetType ==
    ASSUME DataInv, NEW r \in Res, pc[r] = "run", pos[r] <= Len(Of[r])
    PROVE  SettingAt(r) \in Setting /\ Target(r) \in Value
<1>1. pos[r] \in DOMAIN Of[r] /\ SettingAt(r) \in Setting
    BY OfType DEF DataInv, SettingAt
<1>2. CASE plan[r] = "delete"
    BY <1>1, <1>2, SettingsAssumption DEF Target
<1>3. CASE plan[r] # "delete"
  <2>1. cfg[r] # Nil
      BY <1>3 DEF DataInv, At
  <2> QED
      BY <1>1, <1>3, <2>1, BlockType, SettingsAssumption DEF Target
<1> QED
    BY <1>1, <1>2, <1>3

LEMMA PutType ==
    ASSUME DataInv, NEW r \in Res, pc[r] = "run", pos[r] <= Len(Of[r]), NEW S, Put(r, S)
    PROVE  value' \in [Setting -> [Instance -> Value]]
<1>1. SettingAt(r) \in Setting /\ Target(r) \in Value /\ value \in [Setting -> [Instance -> Value]]
    BY TargetType DEF DataInv
<1>2. [n \in Instance |-> IF n \in S THEN Target(r) ELSE value[SettingAt(r)][n]] \in [Instance -> Value]
    BY <1>1
<1> QED
    BY <1>1, <1>2 DEF Put

\* How a handler ends
LEMMA OutcomeType ==
    ASSUME DataInv, NEW r \in Res, pc[r] \in {"take", "run"}
    PROVE  Success(r) \in States(r) /\ Failure(r) \in States(r) /\ StatementFailure(r) \in States(r)
<1>1. CASE plan[r] = "create"
    BY <1>1, PlannedType, BlockType DEF DataInv, At, Success, Failure, StatementFailure, States
<1>2. CASE plan[r] = "update"
  <2>1. st[r].id \in Instance \cup {Nil} /\ cfg[r] # Nil
      BY <1>2 DEF DataInv, At, State
  <2> QED
      BY <1>2, <2>1, PlannedType, BlockType DEF Success, Failure, StatementFailure, States
<1>3. CASE plan[r] = "delete"
    BY <1>3 DEF DataInv, At, Success, Failure, StatementFailure, States
<1> QED
    BY <1>1, <1>2, <1>3 DEF DataInv, At

------------------------------------------------------------------------------
(* The pool *)

LEMMA GiveBackKeepsPool ==
    ASSUME PoolInv, NEW r \in Res, pc[r] = "run", GiveBack(r),
           pc \in [Res -> {"refresh", "planned", "take", "run", "deleted", "done"}],
           NEW to, to # "run", pc' = [pc EXCEPT ![r] = to],
           warned' \subseteq opened
    PROVE  PoolInv'
<1> DEFINE c == conn[r]
<1>1. /\ c \in opened /\ c # Nil /\ free \in Seq(opened)
      /\ conn' = [conn EXCEPT ![r] = Nil] /\ free' = Append(free, c) /\ opened' = opened
    BY DEF PoolInv, GiveBack
<1>2. /\ free' \in Seq(opened) /\ Len(free') = Len(free) + 1 /\ Len(free) \in Nat
      /\ \A i \in 1 .. Len(free) : free'[i] = free[i]
      /\ free'[Len(free) + 1] = c
    BY <1>1, AppendProperties, LenProperties
<1>3. \A i \in 1 .. Len(free) : free[i] # c
    BY <1>1 DEF PoolInv
<1>4. \A t \in Res \ {r} : conn'[t] = conn[t] /\ pc'[t] = pc[t] /\ (conn[t] # Nil => conn[t] # c)
    BY <1>1 DEF PoolInv
<1>5. conn'[r] = Nil /\ pc'[r] = to /\ conn' \in [Res -> Conn \cup {Nil}]
    BY <1>1 DEF PoolInv
<1> HIDE DEF c
<1>6. \A i, j \in 1 .. Len(free') : free'[i] = free'[j] => i = j
  <2> SUFFICES ASSUME NEW i \in 1 .. Len(free'), NEW j \in 1 .. Len(free'), free'[i] = free'[j]
               PROVE  i = j
      OBVIOUS
  <2>1. CASE i \in 1 .. Len(free) /\ j \in 1 .. Len(free)
      BY <1>2, <2>1 DEF PoolInv
  <2>2. CASE i = Len(free) + 1 /\ j \in 1 .. Len(free)
      BY <1>2, <1>3, <2>2
  <2>3. CASE j = Len(free) + 1 /\ i \in 1 .. Len(free)
      BY <1>2, <1>3, <2>3
  <2> QED
      BY <1>2, <2>1, <2>2, <2>3
<1>7. ASSUME NEW t \in Res, conn'[t] # Nil
      PROVE  conn'[t] \in opened /\ \A i \in 1 .. Len(free') : free'[i] # conn'[t]
  <2>1. t # r /\ conn'[t] = conn[t] /\ conn[t] # c
      BY <1>4, <1>5, <1>7
  <2>2. conn[t] \in opened /\ \A i \in 1 .. Len(free) : free[i] # conn[t]
      BY <1>7, <2>1 DEF PoolInv
  <2> QED
      BY <1>2, <2>1, <2>2
<1>8. \A t, u \in Res : conn'[t] = conn'[u] /\ conn'[t] # Nil => t = u
    BY <1>4, <1>5 DEF PoolInv
<1>9. \A t \in Res : pc'[t] = "run" <=> conn'[t] # Nil
    BY <1>4, <1>5 DEF PoolInv
<1> QED
    BY <1>1, <1>2, <1>5, <1>6, <1>7, <1>8, <1>9 DEF PoolInv

LEMMA CloseKeepsPool ==
    ASSUME PoolInv, NEW r \in Res, pc[r] = "run", Close(r),
           pc \in [Res -> {"refresh", "planned", "take", "run", "deleted", "done"}],
           NEW to, to # "run", pc' = [pc EXCEPT ![r] = to]
    PROVE  PoolInv'
<1> DEFINE c == conn[r]
<1>1. /\ c \in opened /\ c # Nil /\ free \in Seq(opened)
      /\ conn' = [conn EXCEPT ![r] = Nil] /\ free' = free /\ opened' = opened \ {c}
      /\ warned' = warned \ {c}
    BY DEF PoolInv, Close
<1>2. free \in Seq(opened \ {c})
  <2>1. Len(free) \in Nat /\ free \in [1 .. Len(free) -> opened]
      BY <1>1, LenProperties
  <2>2. \A i \in 1 .. Len(free) : free[i] \in opened \ {c}
      BY <1>1, <2>1 DEF PoolInv
  <2>3. free \in [1 .. Len(free) -> opened \ {c}]
      BY <2>1, <2>2
  <2> QED
      BY <2>1, <2>3, SeqDef
<1>3. \A t \in Res \ {r} : conn'[t] = conn[t] /\ pc'[t] = pc[t] /\ (conn[t] # Nil => conn[t] # c)
    BY <1>1 DEF PoolInv
<1>4. conn'[r] = Nil /\ pc'[r] = to /\ conn' \in [Res -> Conn \cup {Nil}]
    BY <1>1 DEF PoolInv
<1> HIDE DEF c
<1>5. \A t \in Res : conn'[t] # Nil =>
          conn'[t] \in opened' /\ \A i \in 1 .. Len(free') : free'[i] # conn'[t]
    BY <1>1, <1>3, <1>4 DEF PoolInv
<1>6. \A t, u \in Res : conn'[t] = conn'[u] /\ conn'[t] # Nil => t = u
    BY <1>3, <1>4 DEF PoolInv
<1>7. \A t \in Res : pc'[t] = "run" <=> conn'[t] # Nil
    BY <1>3, <1>4 DEF PoolInv
<1> QED
    BY <1>1, <1>2, <1>4, <1>5, <1>6, <1>7 DEF PoolInv

LEMMA TakeKeepsPool ==
    ASSUME PoolInv, NEW r \in Res, Take(r),
           pc \in [Res -> {"refresh", "planned", "take", "run", "deleted", "done"}]
    PROVE  PoolInv'
<1>1. /\ pc[r] = "take" /\ pc' = [pc EXCEPT ![r] = "run"] /\ warned' = warned /\ conn[r] = Nil
      /\ free \in Seq(opened) /\ Len(free) \in Nat /\ \A i \in 1 .. Len(free) : free[i] \in opened
    BY LenProperties, ElementOfSeq DEF PoolInv, Take
<1>2. \A t \in Res \ {r} : pc'[t] = pc[t]
    BY <1>1
<1>3. pc'[r] = "run"
    BY <1>1
<1>4. ASSUME NEW c \in Conn, conn' = [conn EXCEPT ![r] = c], \A t \in Res : conn[t] # c
      PROVE  /\ conn' \in [Res -> Conn \cup {Nil}] /\ conn'[r] = c
             /\ \A t \in Res \ {r} : conn'[t] = conn[t]
             /\ \A t, u \in Res : conn'[t] = conn'[u] /\ conn'[t] # Nil => t = u
             /\ \A t \in Res : pc'[t] = "run" <=> conn'[t] # Nil
  <2>1. conn' \in [Res -> Conn \cup {Nil}] /\ conn'[r] = c /\ \A t \in Res \ {r} : conn'[t] = conn[t]
      BY <1>4 DEF PoolInv
  <2>2. c # Nil
      BY NilIsNone
  <2>3. \A t, u \in Res : conn'[t] = conn'[u] /\ conn'[t] # Nil => t = u
      BY <1>4, <2>1 DEF PoolInv
  <2>4. \A t \in Res : pc'[t] = "run" <=> conn'[t] # Nil
      BY <1>2, <1>3, <2>1, <2>2 DEF PoolInv
  <2> QED
      BY <2>1, <2>3, <2>4
<1>5. CASE free # <<>>
  <2> DEFINE c == free[Len(free)]
  <2>1. /\ Len(free) \in 1 .. Len(free) /\ c \in opened /\ opened' = opened
        /\ conn' = [conn EXCEPT ![r] = c] /\ free' = SubSeq(free, 1, Len(free) - 1)
      BY <1>1, <1>5, EmptySeq DEF Take
  <2>2. /\ free' \in Seq(opened) /\ Len(free') = Len(free) - 1
        /\ \A i \in 1 .. Len(free) - 1 : free'[i] = free[i]
    <3> DEFINE m == Len(free) - 1
    <3>1. m \in Nat /\ \A i \in 1 .. m : free[i] \in opened
        BY <1>1, <2>1
    <3>2. free' = SubSeq(free, 1, m)
        BY <2>1
    <3> HIDE DEF m
    <3>3. m \in Int /\ 1 \in Int
        BY <3>1
    <3>4. /\ SubSeq(free, 1, m) \in Seq(opened)
          /\ Len(SubSeq(free, 1, m)) = IF 1 <= m THEN m - 1 + 1 ELSE 0
          /\ \A i \in 1 .. m - 1 + 1 : SubSeq(free, 1, m)[i] = free[1 + i - 1]
        BY <3>1, <3>3, SubSeqProperties
    <3>5. Len(SubSeq(free, 1, m)) = m
        BY <3>1, <3>4
    <3>6. \A i \in 1 .. m : SubSeq(free, 1, m)[i] = free[i]
      <4> TAKE i \in 1 .. m
      <4>1. i \in 1 .. m - 1 + 1 /\ 1 + i - 1 = i
          BY <3>1
      <4> QED
          BY <3>4, <4>1
    <3> QED
        BY <3>2, <3>4, <3>5, <3>6 DEF m
  <2>3. c \in Conn /\ \A t \in Res : conn[t] # c
    <3>1. c \in Conn
        BY <2>1 DEF PoolInv
    <3> QED
        BY <2>1, <3>1, NilIsNone DEF PoolInv
  <2> HIDE DEF c
  <2>4. /\ conn' \in [Res -> Conn \cup {Nil}] /\ conn'[r] = c
        /\ \A t \in Res \ {r} : conn'[t] = conn[t]
        /\ \A t, u \in Res : conn'[t] = conn'[u] /\ conn'[t] # Nil => t = u
        /\ \A t \in Res : pc'[t] = "run" <=> conn'[t] # Nil
      BY <1>4, <2>1, <2>3
  <2>5. \A i, j \in 1 .. Len(free') : free'[i] = free'[j] => i = j
      BY <1>1, <2>1, <2>2 DEF PoolInv
  <2>6. \A i \in 1 .. Len(free') : free'[i] # c
    <3>1. \A i \in 1 .. Len(free) : i # Len(free) => free[i] # free[Len(free)]
        BY <2>1 DEF PoolInv
    <3> QED
        BY <1>1, <2>2, <3>1 DEF c
  <2>7. \A t \in Res : conn'[t] # Nil =>
            conn'[t] \in opened' /\ \A i \in 1 .. Len(free') : free'[i] # conn'[t]
    <3>1. \A t \in Res \ {r} : conn[t] # Nil =>
              conn[t] \in opened /\ \A i \in 1 .. Len(free') : free'[i] # conn[t]
        BY <1>1, <2>2 DEF PoolInv
    <3> QED
        BY <2>1, <2>4, <2>6, <3>1
  <2> QED
      BY <1>1, <2>1, <2>2, <2>4, <2>5, <2>7 DEF PoolInv
<1>6. CASE free = <<>>
  <2>1. PICK c \in Conn \ opened : conn' = [conn EXCEPT ![r] = c] /\ opened' = opened \cup {c} /\ free' = free
      BY <1>6 DEF Take
  <2>2. \A t \in Res : conn[t] # c
      BY <2>1, NilIsNone DEF PoolInv
  <2>3. /\ conn' \in [Res -> Conn \cup {Nil}] /\ conn'[r] = c
        /\ \A t \in Res \ {r} : conn'[t] = conn[t]
        /\ \A t, u \in Res : conn'[t] = conn'[u] /\ conn'[t] # Nil => t = u
        /\ \A t \in Res : pc'[t] = "run" <=> conn'[t] # Nil
      BY <1>4, <2>1, <2>2
  <2>4. free' \in Seq(opened') /\ Len(free') = 0
      BY <1>6, <2>1, EmptySeq
  <2>5. opened' \subseteq Conn /\ warned' \subseteq opened'
      BY <1>1, <2>1 DEF PoolInv
  <2>6. \A t \in Res : conn'[t] # Nil => conn'[t] \in opened'
      BY <2>1, <2>3 DEF PoolInv
  <2> QED
      BY <2>3, <2>4, <2>5, <2>6 DEF PoolInv
<1> QED
    BY <1>5, <1>6

------------------------------------------------------------------------------
(* The data *)

\* The handler of r ends with s, perhaps in the middle of a replacement.
Ends(r, s) ==
    /\ pos' = pos /\ st' = [st EXCEPT ![r] = s]
    /\ \/ pc' = [pc EXCEPT ![r] = "done"]
       \/ pc' = [pc EXCEPT ![r] = "deleted"] /\ cfg[r] # Nil

LEMMA EndEnds ==
    ASSUME NEW r \in Res
    PROVE  /\ \A s : End(r, s) => Ends(r, s)
           /\ EndUnread(r) => Ends(r, Success(r))
BY DEF End, EndUnread, Ends

LEMMA EndKeeps ==
    ASSUME DataInv, NEW r \in Res, NEW s \in States(r), Ends(r, s), cfg' = cfg, plan' = plan
    PROVE  /\ pos' = [t \in Res |-> pos'[t]] /\ \A t \in Res : pos'[t] \in 1 .. Len(Of[t]) + 1
           /\ st' = [t \in Res |-> st'[t]] /\ \A t \in Res : st'[t] \in States(t)
           /\ \E to \in {"deleted", "done"} : pc' = [pc EXCEPT ![r] = to]
           /\ \A t \in Res : At(t)'
<1>1. pos' = pos /\ st' = [st EXCEPT ![r] = s]
    BY DEF Ends
<1>2. PICK to \in {"deleted", "done"} :
          pc' = [pc EXCEPT ![r] = to] /\ (to = "deleted" => cfg[r] # Nil)
    BY DEF Ends
<1>3. \A t \in Res : At(t)'
    BY <1>1, <1>2, StatementsStay DEF DataInv, At
<1> QED
    BY <1>1, <1>2, <1>3 DEF DataInv

\* The run of r ends with a proper state, or goes on as it is planned.
LEMMA AdvanceKeeps ==
    ASSUME DataInv, PoolInv, NEW r \in Res, pc[r] = "run", Advance(r),
           cfg' = cfg, plan' = plan
    PROVE  /\ pos' = [t \in Res |-> pos'[t]] /\ \A t \in Res : pos'[t] \in 1 .. Len(Of[t]) + 1
           /\ st' = [t \in Res |-> st'[t]] /\ \A t \in Res : st'[t] \in States(t)
           /\ \E to \in {"take", "deleted", "done"} : pc' = [pc EXCEPT ![r] = to]
           /\ \A t \in Res : At(t)'
<1>1. CASE pos[r] < Statements(r)
  <2>1. pos' = [pos EXCEPT ![r] = pos[r] + 1] /\ pc' = [pc EXCEPT ![r] = "take"] /\ st' = st
      BY <1>1 DEF Advance
  <2>2. pos[r] \in 1 .. Len(Of[r]) + 1 /\ Len(Of[r]) \in Nat /\ Statements(r) \in Len(Of[r]) .. Len(Of[r]) + 1
      BY OfType, StatementsType DEF DataInv
  <2>3. pos[r] + 1 \in 1 .. Len(Of[r]) + 1
      BY <1>1, <2>2
  <2>4. ASSUME NEW t \in Res
        PROVE  At(t)'
    <3>1. Statements(t)' = Statements(t)
        BY StatementsStay
    <3>2. CASE t = r
      <4>1. pos[r] + 1 <= Statements(r) /\ pos'[r] = pos[r] + 1
          BY <1>1, <2>1, <2>2 DEF DataInv
      <4> QED
          BY <2>1, <3>1, <3>2, <4>1 DEF DataInv, At
    <3>3. CASE t # r
      <4>1. pos'[t] = pos[t] /\ pc'[t] = pc[t]
          BY <2>1, <3>3 DEF DataInv
      <4> QED
          BY <2>1, <3>1, <4>1 DEF DataInv, At
    <3> QED
        BY <3>2, <3>3
  <2> QED
      BY <2>1, <2>3, <2>4 DEF DataInv
<1>2. CASE ~(pos[r] < Statements(r))
  <2>1. Ends(r, Success(r))
      BY <1>2, EndEnds DEF Advance
  <2>2. Success(r) \in States(r)
      BY OutcomeType
  <2> QED
      BY <2>1, <2>2, EndKeeps
<1> QED
    BY <1>1, <1>2

LEMMA FaultType ==
    ASSUME NEW kind, Fault(kind), faults \subseteq Faults
    PROVE  faults' \subseteq Faults
BY DEF Fault

LEMMA InitType ==
    ASSUME Init
    PROVE  TypeInv
<1>1. value \in [Setting -> [Instance -> Value]]
    BY SettingsAssumption DEF Init
<1>2. up = Members(product) /\ product \in Product
    BY DEF Init, Members
<1>3. up # {}
  <2>1. Cluster[product] \in Seq(Instance) /\ Cluster[product] # <<>>
      BY <1>2, SettingsAssumption
  <2>2. 1 \in DOMAIN Cluster[product]
      BY <2>1, EmptySeq, LenProperties
  <2> QED
      BY <1>2, <2>2 DEF Members
<1>4. cfg = [r \in Res |-> cfg[r]] /\ \A r \in Res : cfg[r] \in Blocks(r) \cup {Nil}
    BY DEF Init
<1>5. st = [r \in Res |-> st[r]] /\ \A r \in Res : st[r] \in States(r)
    BY DEF Init, States
<1>6. pos = [r \in Res |-> pos[r]] /\ \A r \in Res : pos[r] \in 1 .. Len(Of[r]) + 1
    BY OfType DEF Init
<1>7. plan \in [Res -> {"none", "create", "update", "delete", "stuck"}]
    BY DEF Init
<1>8. pc \in [Res -> {"refresh", "planned", "take", "run", "deleted", "done"}] /\ \A r \in Res : pc[r] = "planned"
    BY DEF Init
<1>9. edits \in 0 .. MaxEdits /\ faults \subseteq Faults
    BY Limits DEF Init
<1>10. \A r \in Res : At(r)
    BY <1>8 DEF At
<1>11. DataInv
    BY <1>1, <1>2, <1>3, <1>4, <1>5, <1>6, <1>7, <1>8, <1>9, <1>10 DEF DataInv
<1>12. PoolInv
    BY <1>8, EmptySeq DEF Init, PoolInv
<1> QED
    BY <1>11, <1>12 DEF TypeInv

\* Nothing moves but the run of one resource.
LEMMA StayKeepsPool ==
    ASSUME PoolInv, NEW r \in Res, pc[r] # "run", NEW to, to # "run", pc' = [pc EXCEPT ![r] = to],
           pc \in [Res -> {"refresh", "planned", "take", "run", "deleted", "done"}], UNCHANGED Pool
    PROVE  PoolInv'
<1>1. \A t \in Res : pc'[t] = "run" <=> pc[t] = "run"
    OBVIOUS
<1>2. conn' = conn /\ free' = free /\ opened' = opened /\ warned' = warned
    BY DEF Pool
<1> QED
    BY <1>1, <1>2 DEF PoolInv

LEMMA SameKeepsPool ==
    ASSUME PoolInv, \A t \in Res : pc'[t] = "run" <=> pc[t] = "run", UNCHANGED Pool
    PROVE  PoolInv'
<1>1. conn' = conn /\ free' = free /\ opened' = opened /\ warned' = warned
    BY DEF Pool
<1> QED
    BY <1>1 DEF PoolInv

\* A new process
LEMMA FreshPool ==
    ASSUME conn' = [r \in Res |-> Nil], free' = <<>>, opened' = {}, warned' = {},
           \A r \in Res : pc'[r] # "run"
    PROVE  PoolInv'
<1>1. Len(free') = 0 /\ free' \in Seq({})
    BY EmptySeq
<1> QED
    BY <1>1 DEF PoolInv

------------------------------------------------------------------------------
(* Runs *)

LEMMA RefreshKeepsTypes ==
    ASSUME TypeInv, NEW r \in Res, Refresh(r)
    PROVE  TypeInv'
<1>1. /\ pc[r] = "refresh" /\ pc' = [pc EXCEPT ![r] = "planned"]
      /\ st' = [st EXCEPT ![r] = Read(r, st[r])]
      /\ product' = product /\ value' = value /\ up' = up /\ cfg' = cfg /\ plan' = plan /\ pos' = pos
      /\ edits' = edits /\ faults' = faults /\ UNCHANGED Pool
    BY DEF Refresh
<1>2. Read(r, st[r]) \in States(r)
    BY <1>1, ReadType DEF TypeInv, DataInv, At
<1>3. st' = [t \in Res |-> st'[t]] /\ \A t \in Res : st'[t] \in States(t)
    BY <1>1, <1>2 DEF TypeInv, DataInv
<1>4. \A t \in Res : At(t)'
    BY <1>1, StatementsStay DEF TypeInv, DataInv, At
<1>5. DataInv'
    BY <1>1, <1>3, <1>4 DEF TypeInv, DataInv, Blocks
<1>6. PoolInv'
    BY <1>1, StayKeepsPool DEF TypeInv, DataInv
<1> QED
    BY <1>5, <1>6 DEF TypeInv

LEMMA RefreshFailsKeepsTypes ==
    ASSUME TypeInv, Phase, NEW r \in Res, RefreshFails(r)
    PROVE  TypeInv'
<1>0. \A t \in Res : pc[t] # "run"
    BY DEF RefreshFails, Phase
<1>1. /\ pc' = [t \in Res |-> "done"] /\ Fault("rejected")
      /\ product' = product /\ value' = value /\ up' = up /\ cfg' = cfg /\ plan' = plan /\ pos' = pos
      /\ edits' = edits /\ st' = st /\ UNCHANGED Pool
    BY DEF RefreshFails
<1>2. \A t \in Res : At(t)'
    BY <1>1 DEF At
<1>3. DataInv'
    BY <1>1, <1>2, FaultType DEF TypeInv, DataInv, Blocks
<1>4. PoolInv'
    BY <1>0, <1>1, SameKeepsPool DEF TypeInv
<1> QED
    BY <1>3, <1>4 DEF TypeInv

\* What a plan is made for
LEMMA PlanType ==
    ASSUME DataInv, NEW r \in Res
    PROVE  /\ PlanOf(r) \in {"none", "create", "update", "delete", "stuck"}
           /\ PlanOf(r) = "create" => cfg[r] # Nil
           /\ PlanOf(r) = "update" => cfg[r] # Nil /\ st[r] \in State(r)
           /\ PlanOf(r) = "delete" => (cfg[r] = Nil \/ r \in tainted) /\ st[r] \in State(r)
<1>1. st[r] # Nil /\ ~IsBlank(r) => st[r] \in State(r)
    BY DEF DataInv, States, Blank, IsBlank
<1>2. CASE st[r] = Nil
  <2>1. PlanOf(r) = IF cfg[r] = Nil THEN "none" ELSE "create"
      BY <1>2 DEF PlanOf
  <2> QED
      BY <2>1
<1>3. CASE st[r] # Nil /\ IsBlank(r)
  <2>1. PlanOf(r) = "stuck"
      BY <1>3 DEF PlanOf
  <2> QED
      BY <2>1
<1>4. CASE st[r] # Nil /\ ~IsBlank(r) /\ (cfg[r] = Nil \/ r \in tainted)
  <2>1. PlanOf(r) = "delete"
      BY <1>4 DEF PlanOf
  <2> QED
      BY <1>1, <1>4, <2>1
<1>5. CASE st[r] # Nil /\ ~IsBlank(r) /\ cfg[r] # Nil /\ r \notin tainted
  <2>1. PlanOf(r) = IF st[r].val # cfg[r].val \/ st[r].at # cfg[r].at THEN "update" ELSE "none"
      BY <1>5 DEF PlanOf
  <2> QED
      BY <1>1, <1>5, <2>1
<1> QED
    BY <1>2, <1>3, <1>4, <1>5

LEMMA StartApplyKeepsTypes ==
    ASSUME TypeInv, StartApply
    PROVE  TypeInv'
<1>1. /\ plan' = [r \in Res |-> PlanOf(r)]
      /\ pc' = [r \in Res |-> IF RunsNothing(r) THEN "done" ELSE "take"]
      /\ pos' = [r \in Res |-> 1]
      /\ st' = [r \in Res |-> IF RunsNothing(r) /\ PlanOf(r) = "delete" THEN Nil ELSE st[r]]
      /\ conn' = [r \in Res |-> Nil] /\ free' = <<>> /\ opened' = {} /\ warned' = {}
      /\ product' = product /\ value' = value /\ up' = up /\ cfg' = cfg
      /\ edits' = edits /\ faults' = faults
    BY DEF StartApply
<1>2. plan' \in [Res -> {"none", "create", "update", "delete", "stuck"}]
    BY <1>1, PlanType DEF TypeInv
<1>3. pc' \in [Res -> {"refresh", "planned", "take", "run", "deleted", "done"}]
    BY <1>1
<1>4. pos' = [r \in Res |-> pos'[r]] /\ \A r \in Res : pos'[r] \in 1 .. Len(Of[r]) + 1
    BY <1>1, OfType
<1>5. st' = [r \in Res |-> st'[r]] /\ \A r \in Res : st'[r] \in States(r)
    BY <1>1 DEF TypeInv, DataInv, States
<1>6. ASSUME NEW r \in Res
      PROVE  At(r)'
  <2>1. CASE RunsNothing(r)
      BY <1>1, <2>1 DEF At
  <2>2. CASE ~RunsNothing(r)
    <3>1. PlanOf(r) \in {"create", "update", "delete"}
        BY <2>2, PlanType DEF RunsNothing, TypeInv
    <3>2. plan'[r] = PlanOf(r) /\ st'[r] = st[r] /\ cfg'[r] = cfg[r] /\ pc'[r] = "take"
        BY <1>1, <2>2
    <3>3. pos'[r] <= Statements(r)'
      <4>1. \E n \in {0, 1} : Statements(r)' = Len(Of[r]) + n
          BY Zenon DEF Statements
      <4> QED
          BY <1>1, <4>1, OfType
    <3> QED
        BY <3>1, <3>2, <3>3, PlanType DEF At, TypeInv
  <2> QED
      BY <2>1, <2>2
<1>7. DataInv'
    BY <1>1, <1>2, <1>3, <1>4, <1>5, <1>6 DEF TypeInv, DataInv, Blocks
<1>8. PoolInv'
    BY <1>1, FreshPool
<1> QED
    BY <1>7, <1>8 DEF TypeInv

LEMMA CrashKeepsTypes ==
    ASSUME TypeInv, Crash
    PROVE  TypeInv'
<1>1. /\ pc' = [r \in Res |-> "done"] /\ Fault("crash")
      /\ conn' = [r \in Res |-> Nil] /\ free' = <<>> /\ opened' = {} /\ warned' = {}
      /\ product' = product /\ value' = value /\ up' = up /\ cfg' = cfg /\ plan' = plan /\ pos' = pos
      /\ edits' = edits /\ st' = st
    BY DEF Crash
<1>2. \A r \in Res : At(r)'
    BY <1>1 DEF At
<1>3. DataInv'
    BY <1>1, <1>2, FaultType DEF TypeInv, DataInv, Blocks
<1>4. PoolInv'
    BY <1>1, FreshPool
<1> QED
    BY <1>3, <1>4 DEF TypeInv

LEMMA NewRunKeepsTypes ==
    ASSUME TypeInv, NewRun
    PROVE  TypeInv'
<1>1. /\ pc' = [r \in Res |-> IF st[r] = Nil THEN "planned" ELSE "refresh"]
      /\ plan' = [r \in Res |-> "none"]
      /\ product' = product /\ value' = value /\ up' = up /\ st' = st /\ pos' = pos /\ UNCHANGED Pool
      /\ faults' = faults /\ \A r \in Res : pc[r] = "done"
    BY DEF NewRun, RunEnded
<1>2. /\ edits' \in 0 .. MaxEdits
      /\ cfg' = [r \in Res |-> cfg'[r]] /\ \A r \in Res : cfg'[r] \in Blocks(r) \cup {Nil}
  <2>1. CASE UNCHANGED <<cfg, edits>>
      BY <2>1 DEF TypeInv, DataInv
  <2>2. CASE /\ edits < MaxEdits /\ edits' = edits + 1
             /\ \E r \in Res : \E c \in Blocks(r) \cup {Nil} : cfg' = [cfg EXCEPT ![r] = c]
    <3>0. PICK r \in Res : \E c \in Blocks(r) \cup {Nil} : cfg' = [cfg EXCEPT ![r] = c]
        BY <2>2
    <3>1. PICK c \in Blocks(r) \cup {Nil} : cfg' = [cfg EXCEPT ![r] = c]
        BY <3>0
    <3>2. cfg' = [t \in Res |-> cfg'[t]] /\ \A t \in Res : cfg'[t] \in Blocks(t) \cup {Nil}
        BY <3>1 DEF TypeInv, DataInv
    <3>3. edits' \in 0 .. MaxEdits
        BY <2>2, Limits DEF TypeInv, DataInv
    <3> QED
        BY <3>2, <3>3
  <2> QED
      BY <2>1, <2>2 DEF NewRun
<1>3. \A r \in Res : At(r)'
    BY <1>1 DEF At
<1>4. DataInv'
    BY <1>1, <1>2, <1>3 DEF TypeInv, DataInv, Blocks
<1>5. PoolInv'
    BY <1>1, SameKeepsPool DEF TypeInv
<1> QED
    BY <1>4, <1>5 DEF TypeInv

LEMMA ImportKeepsTypes ==
    ASSUME TypeInv, NEW r \in Res, Import(r)
    PROVE  TypeInv'
<1>1. /\ cfg[r] # Nil /\ edits < MaxEdits /\ edits' = edits + 1
      /\ st' = [st EXCEPT ![r] = Read(r, Planned(r, cfg[r].at))]
      /\ product' = product /\ value' = value /\ up' = up /\ cfg' = cfg /\ plan' = plan /\ pos' = pos
      /\ pc' = pc /\ faults' = faults /\ UNCHANGED Pool /\ \A t \in Res : pc[t] = "done"
    BY DEF Import, RunEnded
<1>2. Planned(r, cfg[r].at) \in State(r)
    BY <1>1, BlockType, PlannedType DEF TypeInv
<1>3. Read(r, Planned(r, cfg[r].at)) \in States(r)
    BY <1>2, ReadType, NilIsNone DEF TypeInv, States
<1>4. st' = [t \in Res |-> st'[t]] /\ \A t \in Res : st'[t] \in States(t)
    BY <1>1, <1>3 DEF TypeInv, DataInv
<1>5. edits' \in 0 .. MaxEdits
    BY <1>1, Limits DEF TypeInv, DataInv
<1>6. \A t \in Res : At(t)'
    BY <1>1 DEF At
<1>7. DataInv'
    BY <1>1, <1>4, <1>5, <1>6 DEF TypeInv, DataInv, Blocks
<1>8. PoolInv'
    BY <1>1, SameKeepsPool DEF TypeInv
<1> QED
    BY <1>7, <1>8 DEF TypeInv

LEMMA LeaveKeepsTypes ==
    ASSUME TypeInv, NEW n, Leave(n)
    PROVE  TypeInv'
<1>1. /\ up' = up \ {n} /\ up' # {} /\ Fault("left")
      /\ product' = product /\ value' = value /\ cfg' = cfg /\ st' = st /\ plan' = plan /\ pc' = pc
      /\ pos' = pos /\ UNCHANGED Pool /\ edits' = edits
    BY DEF Leave
<1>2. \A r \in Res : At(r)'
    BY <1>1, StatementsStay DEF TypeInv, DataInv, At
<1>3. DataInv'
    BY <1>1, <1>2, FaultType DEF TypeInv, DataInv, Blocks
<1>4. PoolInv'
    BY <1>1, SameKeepsPool DEF TypeInv
<1> QED
    BY <1>3, <1>4 DEF TypeInv

LEMMA JoinKeepsTypes ==
    ASSUME TypeInv, NEW n, Join(n)
    PROVE  TypeInv'
<1>1. /\ n \in Members(product) /\ up' = up \cup {n} /\ Fault("joined")
      /\ value' \in {value, [s \in Setting |-> [value[s] EXCEPT ![n] = Default[s]]]}
      /\ product' = product /\ cfg' = cfg /\ st' = st /\ plan' = plan /\ pc' = pc
      /\ pos' = pos /\ UNCHANGED Pool /\ edits' = edits
    BY DEF Join, Members
<1>2. value' \in [Setting -> [Instance -> Value]]
  <2>1. \A s \in Setting : value[s] \in [Instance -> Value] /\ Default[s] \in Value
      BY SettingsAssumption DEF TypeInv, DataInv
  <2>2. \A s \in Setting : [value[s] EXCEPT ![n] = Default[s]] \in [Instance -> Value]
      BY <2>1
  <2> QED
      BY <1>1, <2>2 DEF TypeInv, DataInv
<1>3. \A r \in Res : At(r)'
    BY <1>1, StatementsStay DEF TypeInv, DataInv, At
<1>4. up' \subseteq Members(product') /\ up' # {}
    BY <1>1 DEF TypeInv, DataInv
<1>5. DataInv'
    BY <1>1, <1>2, <1>3, <1>4, FaultType DEF TypeInv, DataInv, Blocks
<1>6. PoolInv'
    BY <1>1, SameKeepsPool DEF TypeInv
<1> QED
    BY <1>5, <1>6 DEF TypeInv

------------------------------------------------------------------------------
(* Statements *)

LEMMA TakeKeepsTypes ==
    ASSUME TypeInv, NEW r \in Res, Take(r)
    PROVE  TypeInv'
<1>1. /\ pc[r] = "take" /\ pc' = [pc EXCEPT ![r] = "run"]
      /\ product' = product /\ value' = value /\ up' = up /\ cfg' = cfg /\ st' = st /\ plan' = plan
      /\ pos' = pos /\ edits' = edits /\ faults' = faults
    BY DEF Take
<1>2. \A t \in Res : At(t)'
    BY <1>1, StatementsStay DEF TypeInv, DataInv, At
<1>3. DataInv'
    BY <1>1, <1>2 DEF TypeInv, DataInv, Blocks
<1> QED
    BY <1>3, TakeKeepsPool DEF TypeInv, DataInv

\* A statement that leaves the connection or closes it, and what follows it
LEMMA StatementKeepsTypes ==
    ASSUME TypeInv, NEW r \in Res, pc[r] = "run",
           product' = product, up' = up, cfg' = cfg, plan' = plan, edits' = edits,
           faults' \subseteq Faults,
           value' \in [Setting -> [Instance -> Value]],
           \/ GiveBack(r) /\ warned' \in {warned, warned \cup {conn[r]}, warned \ {conn[r]}}
           \/ Close(r),
           \/ Advance(r)
           \/ \E s \in States(r) : Ends(r, s)
    PROVE  TypeInv'
<1>1. /\ pos' = [t \in Res |-> pos'[t]] /\ \A t \in Res : pos'[t] \in 1 .. Len(Of[t]) + 1
      /\ st' = [t \in Res |-> st'[t]] /\ \A t \in Res : st'[t] \in States(t)
      /\ \E to \in {"take", "deleted", "done"} : pc' = [pc EXCEPT ![r] = to]
      /\ \A t \in Res : At(t)'
  <2>1. CASE Advance(r)
      BY <2>1, AdvanceKeeps DEF TypeInv
  <2>2. CASE \E s \in States(r) : Ends(r, s)
    <3>1. PICK s \in States(r) : Ends(r, s)
        BY <2>2
    <3> QED
        BY <3>1, EndKeeps DEF TypeInv
  <2> QED
      BY <2>1, <2>2
<1>2. PICK to \in {"take", "deleted", "done"} : pc' = [pc EXCEPT ![r] = to]
    BY <1>1
<1>3. pc \in [Res -> {"refresh", "planned", "take", "run", "deleted", "done"}]
    BY DEF TypeInv, DataInv
<1>4. pc' \in [Res -> {"refresh", "planned", "take", "run", "deleted", "done"}]
    BY <1>2, <1>3
<1>5. DataInv'
    BY <1>1, <1>4 DEF TypeInv, DataInv, Blocks
<1>6. PoolInv'
  <2>1. CASE GiveBack(r) /\ warned' \in {warned, warned \cup {conn[r]}, warned \ {conn[r]}}
    <3>1. warned' \subseteq opened
        BY <2>1 DEF TypeInv, PoolInv
    <3> QED
        BY <1>2, <1>3, <2>1, <3>1, GiveBackKeepsPool DEF TypeInv
  <2>2. CASE Close(r)
      BY <1>2, <1>3, <2>2, CloseKeepsPool DEF TypeInv
  <2> QED
      BY <2>1, <2>2
<1> QED
    BY <1>5, <1>6 DEF TypeInv

LEMMA SetKeepsTypes ==
    ASSUME TypeInv, NEW r \in Res, Set(r)
    PROVE  TypeInv'
<1>1. /\ pc[r] = "run" /\ pos[r] <= Len(Of[r]) /\ Put(r, Targets(r))
      /\ GiveBack(r) /\ warned' = warned \ {conn[r]} /\ Advance(r)
      /\ product' = product /\ up' = up /\ cfg' = cfg /\ plan' = plan /\ edits' = edits
      /\ faults' = faults
    BY DEF Set, Sets
<1>2. value' \in [Setting -> [Instance -> Value]]
    BY <1>1, PutType DEF TypeInv
<1>3. faults' \subseteq Faults
    BY <1>1 DEF TypeInv, DataInv
<1> QED
    BY <1>1, <1>2, <1>3, StatementKeepsTypes

LEMMA SetWarnsKeepsTypes ==
    ASSUME TypeInv, NEW r \in Res, SetWarns(r)
    PROVE  TypeInv'
<1>1. /\ pc[r] = "run" /\ pos[r] <= Len(Of[r])
      /\ GiveBack(r) /\ warned' = warned \cup {conn[r]} /\ Advance(r)
      /\ product' = product /\ up' = up /\ cfg' = cfg /\ plan' = plan /\ edits' = edits
    BY DEF SetWarns, Sets
<1>2. value' \in [Setting -> [Instance -> Value]] /\ faults' \subseteq Faults
  <2>1. CASE SetsEmpty(r)
      BY <2>1 DEF SetWarns, TypeInv, DataInv
  <2>2. CASE ~SetsEmpty(r)
    <3>1. Fault("refused") /\ \E S \in SUBSET Targets(r) \ {Targets(r)} : Put(r, S)
        BY <2>2 DEF SetWarns
    <3> QED
        BY <1>1, <3>1, PutType, FaultType DEF TypeInv, DataInv
  <2> QED
      BY <2>1, <2>2
<1> QED
    BY <1>1, <1>2, StatementKeepsTypes

LEMMA SetFailsKeepsTypes ==
    ASSUME TypeInv, NEW r \in Res, SetFails(r)
    PROVE  TypeInv'
<1>1. /\ pc[r] = "run" /\ pos[r] <= Len(Of[r]) /\ End(r, StatementFailure(r))
      /\ product' = product /\ up' = up /\ cfg' = cfg /\ plan' = plan /\ edits' = edits
    BY DEF SetFails, Sets
<1>2. \E s \in States(r) : Ends(r, s)
    BY <1>1, OutcomeType, EndEnds DEF TypeInv
<1>3. CASE /\ IF Targets(r) = {} THEN UNCHANGED faults ELSE Fault("rejected")
           /\ warned' = warned \cup {conn[r]} /\ GiveBack(r) /\ UNCHANGED value
  <2>1. faults' \subseteq Faults
    <3>1. CASE Targets(r) = {}
        BY <1>3, <3>1 DEF TypeInv, DataInv
    <3>2. CASE Targets(r) # {}
        BY <1>3, <3>2, FaultType DEF TypeInv, DataInv
    <3> QED
        BY <3>1, <3>2
  <2>2. value' \in [Setting -> [Instance -> Value]]
      BY <1>3 DEF TypeInv, DataInv
  <2> QED
      BY <1>1, <1>2, <1>3, <2>1, <2>2, StatementKeepsTypes
<1>4. CASE Fault("lost") /\ Put(r, Targets(r)) /\ Close(r)
  <2>1. faults' \subseteq Faults
      BY <1>4, FaultType DEF TypeInv, DataInv
  <2>2. value' \in [Setting -> [Instance -> Value]]
      BY <1>1, <1>4, PutType DEF TypeInv
  <2> QED
      BY <1>1, <1>2, <1>4, <2>1, <2>2, StatementKeepsTypes
<1> QED
    BY <1>3, <1>4 DEF SetFails

LEMMA ShowWarningsKeepsTypes ==
    ASSUME TypeInv, NEW r \in Res, ShowWarnings(r)
    PROVE  TypeInv'
<1>1. /\ pc[r] = "run"
      /\ product' = product /\ value' = value /\ up' = up /\ cfg' = cfg /\ plan' = plan /\ edits' = edits
    BY DEF ShowWarnings
<1>2. Success(r) \in States(r) /\ Failure(r) \in States(r)
    BY <1>1, OutcomeType DEF TypeInv
<1>3. value' \in [Setting -> [Instance -> Value]]
    BY <1>1 DEF TypeInv, DataInv
<1>4. CASE /\ End(r, IF conn[r] \in warned THEN Failure(r) ELSE Success(r))
           /\ GiveBack(r) /\ UNCHANGED <<warned, faults>>
  <2>1. \E s \in States(r) : Ends(r, s)
      BY <1>2, <1>4, EndEnds
  <2>2. faults' \subseteq Faults
      BY <1>4 DEF TypeInv, DataInv
  <2> QED
      BY <1>1, <1>3, <1>4, <2>1, <2>2, StatementKeepsTypes
<1>5. CASE End(r, Success(r)) /\ Fault("lost") /\ Close(r)
  <2>1. faults' \subseteq Faults /\ Ends(r, Success(r))
      BY <1>5, FaultType, EndEnds DEF TypeInv, DataInv
  <2> QED
      BY <1>1, <1>2, <1>3, <1>5, <2>1, StatementKeepsTypes
<1> QED
    BY <1>4, <1>5 DEF ShowWarnings

LEMMA ReadsBackNoDelete ==
    ASSUME DataInv, NEW r \in Res, ReadBack(r)
    PROVE  plan[r] # "delete"
<1>1. pc[r] = "run" /\ Kind[r] = "global" /\ pos[r] > Len(Of[r])
    BY DEF ReadBack
<1>2. pos[r] <= Statements(r)
    BY <1>1 DEF DataInv, At
<1>3. plan[r] = "delete" => Statements(r) = Len(Of[r]) + 0
    BY <1>1, Zenon DEF Statements
<1>4. pos[r] \in Nat /\ Len(Of[r]) \in Nat
    BY OfType DEF DataInv
<1> QED
    BY <1>1, <1>2, <1>3, <1>4

LEMMA ReadBackKeepsTypes ==
    ASSUME TypeInv, NEW r \in Res, ReadBack(r)
    PROVE  TypeInv'
<1>1. /\ pc[r] = "run"
      /\ product' = product /\ value' = value /\ up' = up /\ cfg' = cfg /\ plan' = plan /\ edits' = edits
    BY DEF ReadBack
<1>2. value' \in [Setting -> [Instance -> Value]]
    BY <1>1 DEF TypeInv, DataInv
<1>3. CASE End(r, Read(r, Success(r))) /\ GiveBack(r) /\ warned' = warned \ {conn[r]} /\ UNCHANGED faults
  <2>0. plan[r] # "delete"
      BY ReadsBackNoDelete DEF TypeInv
  <2>1. Read(r, Success(r)) \in States(r)
    <3>1. cfg[r] # Nil
        BY <1>1, <2>0 DEF TypeInv, DataInv, At
    <3>2. Success(r) \in State(r)
        BY <2>0, <3>1, BlockType, PlannedType DEF TypeInv, Success
    <3> QED
        BY <3>2, ReadType, NilIsNone DEF TypeInv, States
  <2>2. faults' \subseteq Faults /\ Ends(r, Read(r, Success(r)))
      BY <1>3, EndEnds DEF TypeInv, DataInv
  <2> QED
      BY <1>1, <1>2, <1>3, <2>1, <2>2, StatementKeepsTypes
<1>4. CASE (End(r, Nil) \/ EndUnread(r)) /\ Close(r) /\ Fault("lost")
  <2>1. faults' \subseteq Faults /\ \E s \in States(r) : Ends(r, s)
      BY <1>1, <1>4, FaultType, EndEnds, OutcomeType DEF TypeInv, DataInv, States
  <2> QED
      BY <1>1, <1>2, <1>4, <2>1, StatementKeepsTypes
<1> QED
    BY <1>3, <1>4 DEF ReadBack

LEMMA NoDatabaseKeepsTypes ==
    ASSUME TypeInv, NEW r \in Res, NoDatabase(r)
    PROVE  TypeInv'
<1>1. /\ pc[r] = "take" /\ Fault("lost") /\ UNCHANGED Pool
      /\ product' = product /\ value' = value /\ up' = up /\ cfg' = cfg /\ plan' = plan /\ edits' = edits
    BY DEF NoDatabase
<1>2. PICK s \in States(r) : Ends(r, s)
    BY <1>1, OutcomeType, EndEnds DEF NoDatabase, TypeInv
<1>3. /\ pos' = [t \in Res |-> pos'[t]] /\ \A t \in Res : pos'[t] \in 1 .. Len(Of[t]) + 1
      /\ st' = [t \in Res |-> st'[t]] /\ \A t \in Res : st'[t] \in States(t)
      /\ \E to \in {"deleted", "done"} : pc' = [pc EXCEPT ![r] = to]
      /\ \A t \in Res : At(t)'
    BY <1>1, <1>2, EndKeeps DEF TypeInv
<1>4. DataInv'
    BY <1>1, <1>3, FaultType DEF TypeInv, DataInv, Blocks
<1>5. PoolInv'
    BY <1>1, <1>3, StayKeepsPool DEF TypeInv, DataInv
<1> QED
    BY <1>4, <1>5 DEF TypeInv

LEMMA ReplaceKeepsTypes ==
    ASSUME TypeInv, NEW r \in Res, Replace(r)
    PROVE  TypeInv'
<1>1. /\ pc[r] = "deleted" /\ pc' = [pc EXCEPT ![r] = "take"]
      /\ plan' = [plan EXCEPT ![r] = "create"] /\ pos' = [pos EXCEPT ![r] = 1] /\ UNCHANGED Pool
      /\ product' = product /\ value' = value /\ up' = up /\ cfg' = cfg /\ st' = st
      /\ edits' = edits /\ faults' = faults
    BY DEF Replace
<1>2. /\ plan' \in [Res -> {"none", "create", "update", "delete", "stuck"}]
      /\ pos' = [t \in Res |-> pos'[t]] /\ \A t \in Res : pos'[t] \in 1 .. Len(Of[t]) + 1
    BY <1>1, OfType DEF TypeInv, DataInv
<1>3. ASSUME NEW t \in Res
      PROVE  At(t)'
  <2>1. CASE t = r
    <3>1. \E n \in {0, 1} : Statements(t)' = Len(Of[t]) + n
        BY Zenon DEF Statements
    <3>2. pc'[r] = "take" /\ plan'[r] = "create" /\ pos'[r] = 1 /\ cfg'[r] # Nil
        BY <1>1 DEF TypeInv, DataInv, At
    <3> QED
        BY <2>1, <3>1, <3>2, OfType DEF At
  <2>2. CASE t # r
    <3>1. pc'[t] = pc[t] /\ plan'[t] = plan[t] /\ pos'[t] = pos[t]
        BY <1>1, <2>2 DEF TypeInv, DataInv
    <3> QED
        BY <1>1, <3>1, StatementsStay DEF TypeInv, DataInv, At
  <2> QED
      BY <2>1, <2>2
<1>4. DataInv'
    BY <1>1, <1>2, <1>3 DEF TypeInv, DataInv, Blocks
<1>5. PoolInv'
    BY <1>1, StayKeepsPool DEF TypeInv, DataInv
<1> QED
    BY <1>4, <1>5 DEF TypeInv

------------------------------------------------------------------------------
(* Every step *)

LEMMA PhaseStep ==
    ASSUME TypeInv, Phase, [Next]_vars
    PROVE  Phase'
<1>1. pc \in [Res -> {"refresh", "planned", "take", "run", "deleted", "done"}]
    BY DEF TypeInv, DataInv
<1>2. CASE StartApply \/ NewRun \/ Crash
  <2>1. StartApply => \A r \in Res : pc'[r] \in {"take", "run", "deleted", "done"}
      BY DEF StartApply
  <2>2. NewRun => \A r \in Res : pc'[r] \in {"refresh", "planned"}
      BY DEF NewRun
  <2>3. Crash => \A r \in Res : pc'[r] \in {"take", "run", "deleted", "done"}
      BY DEF Crash
  <2> QED
      BY <1>2, <2>1, <2>2, <2>3 DEF Phase
<1>3. ASSUME NEW r \in Res, NEW to \in {"take", "run", "deleted", "done"},
             pc[r] \in {"take", "run", "deleted"}, pc' = [pc EXCEPT ![r] = to]
      PROVE  Phase'
    BY <1>1, <1>3 DEF Phase
<1>4. ASSUME NEW r \in Res, Handler(r)
      PROVE  Phase'
  <2>1. CASE Refresh(r)
    <3>1. pc[r] = "refresh" /\ pc' = [pc EXCEPT ![r] = "planned"]
        BY <2>1 DEF Refresh
    <3> QED
        BY <1>1, <3>1 DEF Phase
  <2>2. CASE RefreshFails(r)
    <3>1. \A t \in Res : pc'[t] = "done"
        BY <2>2 DEF RefreshFails
    <3> QED
        BY <3>1 DEF Phase
  <2>3. CASE Take(r)
      BY <1>3, <2>3 DEF Take
  <2>4. CASE Set(r)
    <3>1. pc[r] = "run" /\ \E to \in {"take", "deleted", "done"} : pc' = [pc EXCEPT ![r] = to]
        BY <2>4, EndEnds DEF Set, Sets, Advance, Ends
    <3> QED
        BY <1>3, <3>1
  <2>5. CASE SetWarns(r)
    <3>1. pc[r] = "run" /\ \E to \in {"take", "deleted", "done"} : pc' = [pc EXCEPT ![r] = to]
        BY <2>5, EndEnds DEF SetWarns, Sets, Advance, Ends
    <3> QED
        BY <1>3, <3>1
  <2>6. CASE SetFails(r) \/ ShowWarnings(r) \/ ReadBack(r)
    <3>1. pc[r] = "run" /\ \E s : Ends(r, s)
        BY <2>6, EndEnds DEF SetFails, Sets, ShowWarnings, ReadBack
    <3> QED
        BY <1>3, <3>1 DEF Ends
  <2>7. CASE NoDatabase(r)
    <3>1. pc[r] = "take" /\ \E s : Ends(r, s)
        BY <2>7, EndEnds DEF NoDatabase
    <3> QED
        BY <1>3, <3>1 DEF Ends
  <2>8. CASE Replace(r)
      BY <1>3, <2>8 DEF Replace
  <2> QED
      BY <1>4, <2>1, <2>2, <2>3, <2>4, <2>5, <2>6, <2>7, <2>8 DEF Handler
<1>5. ASSUME pc' = pc
      PROVE  Phase'
    BY <1>5 DEF Phase
<1>6. ASSUME NEW r \in Res, Import(r)
      PROVE  Phase'
    BY <1>5, <1>6 DEF Import
<1>7. ASSUME NEW n \in Instance, Leave(n) \/ Join(n)
      PROVE  Phase'
    BY <1>5, <1>7 DEF Leave, Join
<1>8. CASE UNCHANGED vars
    BY <1>5, <1>8 DEF vars
<1> QED
    BY <1>2, <1>4, <1>6, <1>7, <1>8 DEF Next

LEMMA TypeStep ==
    ASSUME TypeInv, Phase, [Next]_vars
    PROVE  TypeInv'
<1>1. ASSUME NEW r \in Res, Handler(r)
      PROVE  TypeInv'
    BY <1>1, RefreshKeepsTypes, RefreshFailsKeepsTypes, TakeKeepsTypes, SetKeepsTypes, SetWarnsKeepsTypes,
       SetFailsKeepsTypes, ShowWarningsKeepsTypes, ReadBackKeepsTypes, NoDatabaseKeepsTypes,
       ReplaceKeepsTypes DEF Handler
<1>2. CASE UNCHANGED vars
  <2>1. \A r \in Res : At(r)'
      BY <1>2 DEF TypeInv, DataInv, At, vars, Statements
  <2>2. DataInv'
      BY <1>2, <2>1 DEF TypeInv, DataInv, vars, Blocks
  <2>3. PoolInv'
      BY <1>2 DEF TypeInv, PoolInv, vars, Pool
  <2> QED
      BY <2>2, <2>3 DEF TypeInv
<1> QED
    BY <1>1, <1>2, StartApplyKeepsTypes, NewRunKeepsTypes, CrashKeepsTypes, ImportKeepsTypes,
       LeaveKeepsTypes, JoinKeepsTypes DEF Next

LEMMA TaintStep ==
    ASSUME tainted \subseteq Res, [Next]_vars
    PROVE  tainted' \subseteq Res
<1>1. ASSUME NEW r \in Res, Handler(r)
      PROVE  tainted' \subseteq Res
  <2>1. CASE Refresh(r) \/ RefreshFails(r) \/ Take(r) \/ Replace(r)
      BY <2>1 DEF Refresh, RefreshFails, Take, Replace
  <2>2. CASE Set(r) \/ SetWarns(r)
      BY <2>2 DEF Set, SetWarns, Advance, End
  <2>3. CASE SetFails(r) \/ ShowWarnings(r) \/ ReadBack(r) \/ NoDatabase(r)
      BY <2>3 DEF SetFails, ShowWarnings, ReadBack, NoDatabase, End, EndUnread
  <2> QED
      BY <1>1, <2>1, <2>2, <2>3 DEF Handler
<1> QED
    BY <1>1 DEF Next, StartApply, NewRun, Crash, Import, Leave, Join, vars

LEMMA Types == Safe => [](TypeInv /\ Phase /\ tainted \subseteq Res)
<1>1. Init => TypeInv /\ Phase /\ tainted \subseteq Res
    BY InitType DEF Init, Phase
<1>2. (TypeInv /\ Phase /\ tainted \subseteq Res) /\ [Next]_vars
          => (TypeInv /\ Phase /\ tainted \subseteq Res)'
    BY TypeStep, PhaseStep, TaintStep
<1> QED
    BY <1>1, <1>2, PTL DEF Safe

\* Whatever runs, fails, leaves or joins: each variable has its type, and of those the pool is
\* what could go wrong: no two handlers have a connection, a handler has one while it runs a
\* statement and only then, and the pool has no more than the server allows.
THEOREM TypeCorrect == Safe => []TypeOK
<1>1. TypeInv /\ tainted \subseteq Res => TypeOK
  <2> SUFFICES ASSUME TypeInv, tainted \subseteq Res
               PROVE  TypeOK
      OBVIOUS
  <2>1. up \subseteq Instance
      BY MembersType DEF TypeInv, DataInv
  <2>2. /\ product \in Product
        /\ value \in [Setting -> [Instance -> Value]]
        /\ up # {}
        /\ \A r \in Res : cfg[r] \in Blocks(r) \cup {Nil}
        /\ \A r \in Res : st[r] \in State(r) \cup {Blank(n) : n \in Instance} \cup {Nil}
        /\ plan \in [Res -> {"none", "create", "update", "delete", "stuck"}]
        /\ pc \in [Res -> {"refresh", "planned", "take", "run", "deleted", "done"}]
        /\ \A r \in Res : pos[r] \in 1 .. Len(Of[r]) + 1
        /\ edits \in 0 .. MaxEdits
        /\ faults \subseteq Faults
      BY DEF TypeInv, DataInv, States
  <2>3. /\ conn \in [Res -> Conn \cup {Nil}]
        /\ \A r, t \in Res : conn[r] = conn[t] /\ conn[r] # Nil => r = t
        /\ \A r \in Res : pc[r] = "run" <=> conn[r] # Nil
        /\ free \in Seq(opened) /\ opened \subseteq Conn /\ warned \subseteq opened
      BY DEF TypeInv, PoolInv
  <2> QED
      BY <2>1, <2>2, <2>3 DEF TypeOK
<1> QED
    BY <1>1, Types, PTL

------------------------------------------------------------------------------
(* What a removed resource leaves *)

Tabled(r) == Settings(r) \cap Untabled = {}

\* A block is about an instance of the clusters that it is for.
InCluster ==
    \A r \in Res : \A p \in On[r], c \in Configs[r] : c.at # Nil => c.at \in Members(p)

\* Who cannot be reset is alone: others could be blamed for it.
Apart == \A r, t \in Res : r # t /\ ~Tabled(t) => On[r] \cap On[t] = {}

Here == \A r \in Res : st[r] # Nil => product \in On[r]

\* The state names an instance of a block, and a value that is not the default one is on an
\* instance that the blocks are for, and has a state or a Create that is under way; what a
\* Delete has passed is reset.
Tidy(r) ==
    /\ st[r] # Nil =>
          st[r] \in State(r) /\ st[r].id = st[r].at /\ \E c \in Configs[r] : st[r].at = c.at
    /\ pc[r] = "done" /\ cfg[r] = Nil => st[r] = Nil
    /\ ~Moves(r) => \A s \in Settings(r) \ Kept, n \in up : value[s][n] # Default[s] =>
          /\ \E c \in Configs[r] : n \in Where(c.at)
          /\ st[r] # Nil \/ (pc[r] \in {"take", "run"} /\ plan[r] = "create")
    /\ pc[r] \in {"take", "run"} /\ plan[r] = "delete" =>
          \A i \in 1 .. pos[r] - 1, n \in Where(st[r].at) : value[Of[r][i]][n] = Default[Of[r][i]]

Clean ==
    faults = {} =>
        /\ up = Members(product)
        /\ warned = {} \/ \E t \in Res : ~Tabled(t) /\ product \in On[t]
        /\ \A r \in Res : Tabled(r) => Tidy(r)

\* What is deleted was removed, and nothing is replaced.
Untainted ==
    faults = {} =>
        /\ tainted = {}
        /\ \A r \in Res : /\ pc[r] # "deleted"
                          /\ pc[r] \in {"take", "run"} /\ plan[r] = "delete" => cfg[r] = Nil

ResetInv == TypeInv /\ Phase /\ Here /\ Untainted /\ Clean

LEMMA BlockIsHere ==
    ASSUME DataInv, NEW r \in Res, cfg[r] # Nil
    PROVE  product \in On[r]
BY DEF DataInv, Blocks

LEMMA BlockIsUp ==
    ASSUME InCluster, DataInv, up = Members(product), NEW r \in Res, NEW c \in Configs[r],
           product \in On[r]
    PROVE  (c.at = Nil \/ c.at \in up) /\ Where(c.at) # {} /\ Where(c.at) \subseteq up
<1>1. c.at = Nil \/ c.at \in up
    BY DEF InCluster
<1> QED
    BY <1>1 DEF Where, DataInv

LEMMA Goes ==
    ASSUME DataInv, NEW r \in Res, pc[r] \in {"take", "run"}, Here
    PROVE  product \in On[r]
BY NilIsNone, BlockIsHere DEF DataInv, At, Here

\* Of the others nothing changes.
LEMMA Frame ==
    ASSUME NEW r \in Res, Tidy(r), up' = up, cfg'[r] = cfg[r], st'[r] = st[r], plan'[r] = plan[r],
           pos'[r] = pos[r], pc'[r] \in {"take", "run"} <=> pc[r] \in {"take", "run"},
           pc'[r] = "done" => pc[r] = "done",
           \A s \in Settings(r) : value'[s] = value[s], DataInv
    PROVE  Tidy(r)'
<1>1. \A n : Where(n)' = Where(n)
    BY DEF Where
<1>2. \A i \in 1 .. pos[r] - 1 : Of[r][i] \in Settings(r)
    BY OfType DEF DataInv, Settings
<1>3. ASSUME pc'[r] \in {"take", "run"}, plan'[r] = "delete"
      PROVE  \A i \in 1 .. pos'[r] - 1, n \in Where(st[r].at)' : value'[Of[r][i]][n] = Default[Of[r][i]]
    BY <1>1, <1>2, <1>3 DEF Tidy
<1>4. ASSUME ~Moves(r)
      PROVE  \A s \in Settings(r) \ Kept, n \in up' : value'[s][n] # Default[s] =>
                /\ \E c \in Configs[r] : n \in Where(c.at)'
                /\ st'[r] # Nil \/ (pc'[r] \in {"take", "run"} /\ plan'[r] = "create")
    BY <1>1, <1>4 DEF Tidy
<1> QED
    BY <1>1, <1>3, <1>4 DEF Tidy

LEMMA PutFrame ==
    ASSUME DataInv, NEW r \in Res, Sets(r), NEW S, Put(r, S), NEW t \in Res, t # r
    PROVE  \A s \in Settings(t) : value'[s] = value[s]
<1>1. SettingAt(r) \in Settings(r)
    BY OfType DEF DataInv, Sets, SettingAt, Settings
<1>2. Settings(r) \cap Settings(t) = {}
    BY SettingsAssumption
<1> QED
    BY <1>1, <1>2 DEF Put, DataInv

LEMMA HereStep ==
    ASSUME TypeInv, Here, [Next]_vars
    PROVE  Here'
<1>0. \A r \in Res : cfg[r] # Nil => product \in On[r]
    BY BlockIsHere DEF TypeInv
<1>1. ASSUME product' = product, \A r \in Res : st'[r] # Nil => st[r] # Nil \/ cfg[r] # Nil
      PROVE  Here'
    BY <1>0, <1>1 DEF Here
<1>2. st = [r \in Res |-> st[r]]
    BY DEF TypeInv, DataInv
<1>3. ASSUME NEW r \in Res, NEW s, st' = [st EXCEPT ![r] = s], s # Nil => st[r] # Nil \/ cfg[r] # Nil
      PROVE  \A t \in Res : st'[t] # Nil => st[t] # Nil \/ cfg[t] # Nil
    BY <1>2, <1>3
<1>4. ASSUME NEW r \in Res, pc[r] \in {"take", "run"}
      PROVE  st[r] # Nil \/ cfg[r] # Nil
    BY <1>4, NilIsNone DEF TypeInv, DataInv, At
<1>5. CASE StartApply
  <2>1. product' = product /\ \A r \in Res : st'[r] # Nil => st[r] # Nil
      BY <1>5 DEF StartApply
  <2> QED
      BY <1>1, <2>1
<1>6. CASE NewRun \/ Crash
    BY <1>1, <1>6 DEF NewRun, Crash
<1>7. ASSUME NEW r \in Res, Handler(r)
      PROVE  Here'
  <2>1. CASE Refresh(r)
    <3>1. st[r] # Nil /\ st' = [st EXCEPT ![r] = Read(r, st[r])] /\ product' = product
        BY <2>1 DEF Refresh, TypeInv, DataInv, At
    <3>2. \A t \in Res : st'[t] # Nil => st[t] # Nil \/ cfg[t] # Nil
        BY <1>3, <3>1
    <3> QED
        BY <1>1, <3>1, <3>2
  <2>2. CASE RefreshFails(r) \/ Take(r) \/ Replace(r)
      BY <1>1, <2>2 DEF RefreshFails, Take, Replace
  <2>3. CASE Set(r) \/ SetWarns(r) \/ SetFails(r) \/ ShowWarnings(r) \/ ReadBack(r) \/ NoDatabase(r)
    <3>1. /\ pc[r] \in {"take", "run"} /\ product' = product
          /\ st' = st \/ \E s : st' = [st EXCEPT ![r] = s]
      <4>1. CASE Set(r) \/ SetWarns(r)
          BY <4>1 DEF Set, SetWarns, Sets, Advance, End
      <4>2. CASE SetFails(r)
          BY <4>2 DEF SetFails, Sets, End
      <4>3. CASE ShowWarnings(r)
          BY <4>3 DEF ShowWarnings, End
      <4>4. CASE ReadBack(r)
          BY <4>4, EndEnds DEF ReadBack, Ends
      <4>5. CASE NoDatabase(r)
          BY <4>5, EndEnds DEF NoDatabase, Ends
      <4> QED
          BY <2>3, <4>1, <4>2, <4>3, <4>4, <4>5
    <3>2. \A t \in Res : st'[t] # Nil => st[t] # Nil \/ cfg[t] # Nil
        BY <1>3, <1>4, <3>1
    <3> QED
        BY <1>1, <3>1, <3>2
  <2> QED
      BY <1>7, <2>1, <2>2, <2>3 DEF Handler
<1>8. ASSUME NEW r \in Res, Import(r)
      PROVE  Here'
  <2>1. cfg[r] # Nil /\ product' = product /\ \E s : st' = [st EXCEPT ![r] = s]
      BY <1>8 DEF Import
  <2>2. \A t \in Res : st'[t] # Nil => st[t] # Nil \/ cfg[t] # Nil
      BY <1>3, <2>1
  <2> QED
      BY <1>1, <2>1, <2>2
<1>9. ASSUME NEW n \in Instance, Leave(n) \/ Join(n)
      PROVE  Here'
    BY <1>1, <1>9 DEF Leave, Join
<1>10. CASE UNCHANGED vars
    BY <1>1, <1>10 DEF vars
<1> QED
    BY <1>5, <1>6, <1>7, <1>8, <1>9, <1>10 DEF Next

\* What is read of a resource whose instance is up
LEMMA ReadTidy ==
    ASSUME DataInv, NEW r \in Res, NEW old \in State(r), old.id = old.at,
           old.at = Nil \/ old.at \in up
    PROVE  /\ Read(r, old) \in State(r) /\ Read(r, old) # Nil
           /\ Read(r, old).id = old.at /\ Read(r, old).at = old.at
<1>1. Read(r, old) = [val |-> [i \in DOMAIN Of[r] |-> value[Of[r][i]][Shown(old.id)]],
                      at  |-> IF old.id = Nil THEN old.at ELSE old.id,
                      id  |-> old.id]
    BY DEF Read
<1>2. Shown(old.id) \in Instance
    BY FirstType, MembersType DEF Shown, DataInv
<1>3. [i \in DOMAIN Of[r] |-> value[Of[r][i]][Shown(old.id)]] \in [DOMAIN Of[r] -> Value]
    BY <1>2, OfType DEF DataInv
<1>4. old.at \in Instance \cup {Nil}
    BY DEF State
<1>5. Read(r, old) \in State(r)
    BY <1>1, <1>3, <1>4 DEF State
<1> QED
    BY <1>1, <1>5, NilIsNone

LEMMA PlannedTidy ==
    ASSUME InCluster, DataInv, up = Members(product), NEW r \in Res, cfg[r] # Nil
    PROVE  /\ Planned(r, cfg[r].at) \in State(r) /\ Planned(r, cfg[r].at) # Nil
           /\ Planned(r, cfg[r].at).at = cfg[r].at /\ Planned(r, cfg[r].at).id = cfg[r].at
           /\ cfg[r].at = Nil \/ cfg[r].at \in up
<1>1. Planned(r, cfg[r].at) \in State(r)
    BY BlockType, PlannedType
<1>2. cfg[r].at = Nil \/ cfg[r].at \in up
    BY BlockType, BlockIsHere, BlockIsUp
<1> QED
    BY <1>1, <1>2, NilIsNone DEF Planned

\* A handler ends with a state.
LEMMA EndsWithState ==
    ASSUME NEW r \in Res, st'[r] \in State(r), st'[r].id = st'[r].at, cfg[r] \in Configs[r],
           st'[r].at = cfg[r].at, pc'[r] = "done" \/ pc'[r] = "planned", cfg'[r] = cfg[r], cfg[r] # Nil,
           ~Moves(r) => \A s \in Settings(r) \ Kept, n \in up' : value'[s][n] # Default[s] =>
                \E c \in Configs[r] : n \in Where(c.at)'
    PROVE  Tidy(r)'
<1>1. st'[r] # Nil
    BY NilIsNone
<1> QED
    BY <1>1 DEF Tidy

\* A handler ends without one.
LEMMA EndsGone ==
    ASSUME NEW r \in Res, st'[r] = Nil, pc'[r] = "done",
           ~Moves(r) => \A s \in Settings(r) \ Kept, n \in up' : value'[s][n] = Default[s]
    PROVE  Tidy(r)'
BY DEF Tidy

\* A Delete that has passed all settings has reset them.
LEMMA AllReset ==
    ASSUME DataInv, NEW r \in Res, Tidy(r), ~Moves(r), st[r] # Nil,
           NEW v \in [Setting -> [Instance -> Value]],
           \A s \in Settings(r), n \in up : v[s][n] = value[s][n] \/ v[s][n] = Default[s],
           \A i \in 1 .. Len(Of[r]), n \in Where(st[r].at) : v[Of[r][i]][n] = Default[Of[r][i]]
    PROVE  \A s \in Settings(r) \ Kept, n \in up : v[s][n] = Default[s]
<1> SUFFICES ASSUME NEW s \in Settings(r) \ Kept, NEW n \in up, v[s][n] # Default[s]
             PROVE  FALSE
    OBVIOUS
<1>1. value[s][n] # Default[s]
    OBVIOUS
<1>2. PICK c \in Configs[r] : n \in Where(c.at)
    BY <1>1 DEF Tidy
<1>3. c.at = st[r].at
    BY DEF Tidy, Moves
<1>4. PICK i \in 1 .. Len(Of[r]) : s = Of[r][i]
    BY OfType DEF Settings
<1> QED
    BY <1>2, <1>3, <1>4

LEMMA PutValues ==
    ASSUME DataInv, NEW r \in Res, Sets(r), Put(r, Targets(r))
    PROVE  \A s \in Setting, n \in Instance :
              value'[s][n] = IF s = SettingAt(r) /\ n \in Targets(r) THEN Target(r) ELSE value[s][n]
<1>1. SettingAt(r) \in Setting /\ value \in [Setting -> [Instance -> Value]]
    BY TargetType DEF DataInv, Sets
<1>2. value' = [value EXCEPT ![SettingAt(r)] =
                    [n \in Instance |-> IF n \in Targets(r) THEN Target(r) ELSE value[SettingAt(r)][n]]]
    BY DEF Put
<1> QED
    BY <1>1, <1>2

LEMMA StartApplyTidy ==
    ASSUME TypeInv, NEW r \in Res, Tidy(r), StartApply
    PROVE  Tidy(r)'
<1>1. /\ pc[r] = "planned" /\ up' = up /\ value' = value /\ cfg'[r] = cfg[r] /\ plan'[r] = PlanOf(r)
      /\ pos'[r] = 1
      /\ pc'[r] = IF RunsNothing(r) THEN "done" ELSE "take"
      /\ st'[r] = IF RunsNothing(r) /\ PlanOf(r) = "delete" THEN Nil ELSE st[r]
    BY DEF StartApply
<1>2. \A n : Where(n)' = Where(n)
    BY <1>1 DEF Where
<1>3. st'[r] # Nil => st'[r] = st[r]
    BY <1>1
<1>4. ASSUME pc'[r] = "done", cfg'[r] = Nil
      PROVE  st'[r] = Nil
  <2>1. RunsNothing(r) /\ cfg[r] = Nil
      BY <1>1, <1>4
  <2>2. ~(st[r] # Nil /\ IsBlank(r))
    <3>1. ASSUME st[r] # Nil
          PROVE  st[r].val # <<>>
      <4>1. st[r].val \in [DOMAIN Of[r] -> Value] /\ 1 \in DOMAIN Of[r]
          BY <3>1, OfType DEF Tidy, State
      <4>2. DOMAIN st[r].val # {}
          BY <4>1
      <4>3. DOMAIN <<>> = {}
          OBVIOUS
      <4> QED
          BY <4>2, <4>3
    <3> QED
        BY <3>1 DEF IsBlank
  <2>3. CASE st[r] = Nil
      BY <1>3, <2>3
  <2>4. CASE st[r] # Nil
    <3>1. PlanOf(r) = "delete"
        BY <2>1, <2>2, <2>4 DEF PlanOf
    <3> QED
        BY <1>1, <2>1, <3>1
  <2> QED
      BY <2>3, <2>4
<1>5. ASSUME ~Moves(r), NEW s \in Settings(r) \ Kept, NEW n \in up', value'[s][n] # Default[s]
      PROVE  (\E c \in Configs[r] : n \in Where(c.at)') /\ st'[r] # Nil
  <2>1. (\E c \in Configs[r] : n \in Where(c.at)) /\ st[r] # Nil
      BY <1>1, <1>5 DEF Tidy
  <2>2. ~(RunsNothing(r) /\ PlanOf(r) = "delete")
      BY DEF RunsNothing
  <2> QED
      BY <1>1, <1>2, <2>1, <2>2
<1> QED
    BY <1>1, <1>3, <1>4, <1>5 DEF Tidy

LEMMA NewRunTidy ==
    ASSUME TypeInv, NEW r \in Res, Tidy(r), NewRun
    PROVE  Tidy(r)'
<1>1. /\ pc[r] = "done" /\ up' = up /\ value' = value /\ st' = st
      /\ pc'[r] \in {"planned", "refresh"}
    BY DEF NewRun, RunEnded
<1>2. \A n : Where(n)' = Where(n)
    BY <1>1 DEF Where
<1> QED
    BY <1>1, <1>2 DEF Tidy

\* What the blocks and the state of r that goes on name is up.
LEMMA TargetsUp ==
    ASSUME InCluster, ResetInv, faults = {}, up = Members(product), NEW r \in Res, Tidy(r), pc[r] \in {"take", "run"}
    PROVE  /\ Targets(r) # {} /\ Targets(r) \subseteq up
           /\ plan[r] = "delete" => Targets(r) = Where(st[r].at) /\ st[r] # Nil /\ cfg[r] = Nil
           /\ plan[r] # "delete" => Targets(r) = Where(cfg[r].at) /\ cfg[r] # Nil /\ cfg[r] \in Configs[r]
<1>1. product \in On[r]
    BY Goes DEF ResetInv, TypeInv
<1>2. CASE plan[r] = "delete"
  <2>1. st[r] # Nil /\ cfg[r] = Nil
      BY <1>2, NilIsNone DEF ResetInv, TypeInv, DataInv, At, Untainted
  <2>2. PICK c \in Configs[r] : st[r].at = c.at
      BY <2>1 DEF Tidy
  <2> QED
      BY <1>1, <1>2, <2>1, <2>2, BlockIsUp DEF ResetInv, TypeInv, Targets
<1>3. CASE plan[r] # "delete"
  <2>1. cfg[r] # Nil
      BY <1>3 DEF ResetInv, TypeInv, DataInv, At
  <2>2. cfg[r] \in Configs[r]
      BY <2>1, BlockType DEF ResetInv, TypeInv
  <2> QED
      BY <1>1, <1>3, <2>1, <2>2, BlockIsUp DEF ResetInv, TypeInv, Targets
<1> QED
    BY <1>2, <1>3

LEMMA SetTidy ==
    ASSUME InCluster, ResetInv, faults = {}, up = Members(product), NEW r \in Res, Tidy(r), Set(r)
    PROVE  Tidy(r)'
<1> DEFINE m == Len(Of[r])
<1>1. /\ pc[r] = "run" /\ Sets(r) /\ pos[r] <= m /\ Put(r, Targets(r)) /\ Advance(r)
      /\ up' = up /\ cfg' = cfg /\ plan' = plan
    BY DEF Set, Sets
<1>2. /\ Targets(r) # {} /\ Targets(r) \subseteq up
      /\ plan[r] = "delete" => Targets(r) = Where(st[r].at) /\ st[r] # Nil /\ cfg[r] = Nil
      /\ plan[r] # "delete" => Targets(r) = Where(cfg[r].at) /\ cfg[r] # Nil /\ cfg[r] \in Configs[r]
    BY <1>1, TargetsUp
<1>3. \A n : Where(n)' = Where(n)
    BY <1>1 DEF Where
<1>4. DataInv /\ up \subseteq Instance /\ pc = [t \in Res |-> pc[t]] /\ st = [t \in Res |-> st[t]]
      /\ pos = [t \in Res |-> pos[t]]
    BY MembersType DEF ResetInv, TypeInv, DataInv
<1>5. \A s \in Setting, n \in Instance :
         value'[s][n] = IF s = SettingAt(r) /\ n \in Targets(r) THEN Target(r) ELSE value[s][n]
    BY <1>1, <1>4, PutValues
<1>6. \A s \in Settings(r) : s \in Setting
    BY OfType DEF Settings
<1>7. SettingAt(r) = Of[r][pos[r]] /\ pos[r] \in 1 .. m /\ m \in Nat \ {0} /\ DOMAIN Of[r] = 1 .. m
      /\ \A i \in 1 .. m : Of[r][i] \in Settings(r)
    BY <1>1, <1>4, OfType DEF SettingAt, DataInv, Settings
<1>8. plan[r] = "delete" => Target(r) = Default[SettingAt(r)]
    BY DEF Target
\* Where the values are that are not the default ones
<1>9. ASSUME ~Moves(r), NEW s \in Settings(r) \ Kept, NEW n \in up, value'[s][n] # Default[s]
      PROVE  (\E c \in Configs[r] : n \in Where(c.at)) /\ (st[r] # Nil \/ plan[r] = "create")
  <2>1. CASE value'[s][n] = value[s][n]
      BY <1>9, <2>1 DEF Tidy
  <2>2. CASE s = SettingAt(r) /\ n \in Targets(r)
    <3>1. value'[s][n] = Target(r)
        BY <1>4, <1>5, <1>6, <2>2
    <3>2. plan[r] # "delete"
        BY <1>8, <1>9, <2>2, <3>1
    <3>3. \E c \in Configs[r] : n \in Where(c.at)
        BY <1>2, <2>2, <3>2
    <3>4. plan[r] = "create" \/ st[r] # Nil
        BY <1>1, <1>4, <3>2, NilIsNone DEF DataInv, At
    <3> QED
        BY <3>3, <3>4
  <2> QED
      BY <1>4, <1>5, <1>6, <2>1, <2>2
\* What a Delete has reset
<1>10. ASSUME plan[r] = "delete", NEW i \in 1 .. pos[r], NEW n \in Where(st[r].at)
       PROVE  value'[Of[r][i]][n] = Default[Of[r][i]]
  <2>1. n \in Targets(r) /\ n \in Instance /\ Of[r][i] \in Setting
      BY <1>2, <1>4, <1>6, <1>7, <1>10
  <2>2. CASE Of[r][i] = SettingAt(r)
      BY <1>5, <1>8, <1>10, <2>1, <2>2
  <2>3. CASE Of[r][i] # SettingAt(r)
    <3>1. i \in 1 .. pos[r] - 1
        BY <1>7, <2>3
    <3>2. value[Of[r][i]][n] = Default[Of[r][i]]
        BY <1>1, <1>10, <3>1 DEF Tidy
    <3> QED
        BY <1>5, <2>1, <2>3, <3>2
  <2> QED
      BY <2>2, <2>3
<1>11. CASE pos[r] < Statements(r)
  <2>1. pos'[r] = pos[r] + 1 /\ pc'[r] = "take" /\ st'[r] = st[r]
      BY <1>1, <1>4, <1>11 DEF Advance
  <2>2. \A i \in 1 .. pos'[r] - 1 : i \in 1 .. pos[r]
      BY <1>7, <2>1
  <2> HIDE DEF m
  <2>3. ASSUME plan'[r] = "delete"
        PROVE  \A i \in 1 .. pos'[r] - 1, n \in Where(st[r].at)' : value'[Of[r][i]][n] = Default[Of[r][i]]
      BY <1>1, <1>3, <1>10, <2>1, <2>2, <2>3
  <2>4. ASSUME ~Moves(r)
        PROVE  \A s \in Settings(r) \ Kept, n \in up' : value'[s][n] # Default[s] =>
                  /\ \E c \in Configs[r] : n \in Where(c.at)'
                  /\ st'[r] # Nil \/ (pc'[r] \in {"take", "run"} /\ plan'[r] = "create")
      BY <1>1, <1>3, <1>9, <2>1, <2>4
  <2>5. st'[r] # Nil =>
            st'[r] \in State(r) /\ st'[r].id = st'[r].at /\ \E c \in Configs[r] : st'[r].at = c.at
      BY <2>1 DEF Tidy
  <2> QED
      BY <2>1, <2>3, <2>4, <2>5 DEF Tidy
<1>12. CASE ~(pos[r] < Statements(r))
  <2>1. pc'[r] = "done" /\ st'[r] = Success(r)
      BY <1>1, <1>4, <1>12 DEF Advance, End, ResetInv, Untainted
  <2>2. CASE plan[r] = "delete"
    <3>1. pos[r] = m
        BY <1>7, <1>12, StatementsType
    <3>2. value' \in [Setting -> [Instance -> Value]]
        BY <1>1, <1>4, PutType
    <3>3. \A s \in Settings(r), n \in up : value'[s][n] = value[s][n] \/ value'[s][n] = Default[s]
        BY <1>4, <1>5, <1>6, <1>8, <2>2
    <3>4. \A i \in 1 .. m, n \in Where(st[r].at) : value'[Of[r][i]][n] = Default[Of[r][i]]
        BY <1>10, <2>2, <3>1
    <3>5. ~Moves(r) => \A s \in Settings(r) \ Kept, n \in up : value'[s][n] = Default[s]
      <4> DEFINE v == value'
      <4>1. v \in [Setting -> [Instance -> Value]]
          BY <3>2
      <4>2. \A s \in Settings(r), n \in up : v[s][n] = value[s][n] \/ v[s][n] = Default[s]
          BY <3>3
      <4>3. \A i \in 1 .. Len(Of[r]), n \in Where(st[r].at) : v[Of[r][i]][n] = Default[Of[r][i]]
          BY <3>4
      <4> HIDE DEF v
      <4>4. ~Moves(r) => \A s \in Settings(r) \ Kept, n \in up : v[s][n] = Default[s]
          BY <1>2, <1>4, <2>2, <4>1, <4>2, <4>3, AllReset
      <4> QED
          BY <4>4 DEF v
    <3>6. st'[r] = Nil
        BY <2>1, <2>2 DEF Success
    <3> QED
        BY <1>1, <2>1, <3>5, <3>6, EndsGone
  <2>3. CASE plan[r] # "delete"
    <3>1. st'[r] = Planned(r, cfg[r].at) /\ cfg[r] # Nil /\ cfg[r] \in Configs[r]
        BY <1>2, <2>1, <2>3 DEF Success
    <3>2. st'[r] \in State(r) /\ st'[r].id = st'[r].at /\ st'[r].at = cfg[r].at
        BY <1>4, <3>1, PlannedTidy
    <3>3. ~Moves(r) => \A s \in Settings(r) \ Kept, n \in up' : value'[s][n] # Default[s] =>
                \E c \in Configs[r] : n \in Where(c.at)'
        BY <1>1, <1>3, <1>9
    <3>4. cfg'[r] = cfg[r]
        BY <1>1
    <3> QED
        BY <2>1, <3>1, <3>2, <3>3, <3>4, EndsWithState
  <2> QED
      BY <2>2, <2>3
<1> QED
    BY <1>11, <1>12

\* The end of a handler that sets nothing in its last statement
LEMMA LastTidy ==
    ASSUME InCluster, ResetInv, faults = {}, up = Members(product), NEW r \in Res, Tidy(r), pc[r] = "run",
           pos[r] > Len(Of[r]), pc'[r] = "done", value' = value, up' = up, cfg'[r] = cfg[r],
           \/ plan[r] = "delete" /\ st'[r] = Nil
           \/ /\ plan[r] # "delete" /\ st'[r] \in State(r) /\ st'[r].id = st'[r].at
              /\ st'[r].at = cfg[r].at
    PROVE  Tidy(r)'
<1>1. /\ plan[r] = "delete" => st[r] # Nil /\ cfg[r] = Nil
      /\ plan[r] # "delete" => cfg[r] # Nil /\ cfg[r] \in Configs[r]
    BY TargetsUp
<1>2. \A n : Where(n)' = Where(n)
    BY DEF Where
<1>3. DataInv /\ value \in [Setting -> [Instance -> Value]]
    BY DEF ResetInv, TypeInv, DataInv
<1>4. CASE plan[r] = "delete"
  <2>1. \A i \in 1 .. Len(Of[r]) : i \in 1 .. pos[r] - 1
      BY <1>3, OfType DEF DataInv
  <2>2. \A i \in 1 .. Len(Of[r]), n \in Where(st[r].at) : value[Of[r][i]][n] = Default[Of[r][i]]
      BY <1>4, <2>1 DEF Tidy
  <2>3. ~Moves(r) => \A s \in Settings(r) \ Kept, n \in up : value[s][n] = Default[s]
      BY <1>1, <1>3, <1>4, <2>2, AllReset
  <2> QED
      BY <1>4, <2>3, EndsGone
<1>5. CASE plan[r] # "delete"
  <2>1. ~Moves(r) => \A s \in Settings(r) \ Kept, n \in up' : value'[s][n] # Default[s] =>
                \E c \in Configs[r] : n \in Where(c.at)'
      BY <1>2 DEF Tidy
  <2> QED
      BY <1>1, <1>5, <2>1, EndsWithState
<1> QED
    BY <1>4, <1>5

LEMMA Lonely ==
    ASSUME Apart, NEW r \in Res, product \in On[r], Tabled(r)
    PROVE  ~\E t \in Res : ~Tabled(t) /\ product \in On[t]
BY DEF Apart

\* One handler moves: the others are as they were.
LEMMA OthersTidy ==
    ASSUME ResetInv, \A t \in Res : Tabled(t) => Tidy(t), NEW r \in Res,
           up' = up, cfg' = cfg, plan' = plan,
           \A t \in Res \ {r} : pc'[t] = pc[t] /\ st'[t] = st[t] /\ pos'[t] = pos[t],
           \A t \in Res \ {r} : \A s \in Settings(t) : value'[s] = value[s],
           Tabled(r) => Tidy(r)'
    PROVE  \A t \in Res : Tabled(t) => Tidy(t)'
<1>1. ASSUME NEW t \in Res, t # r, Tabled(t)
      PROVE  Tidy(t)'
    BY <1>1, Frame DEF ResetInv, TypeInv
<1> QED
    BY <1>1

LEMMA CleanStatement ==
    ASSUME InCluster, Apart, ResetInv, faults = {}, NEW r \in Res, faults' = {},
           Set(r) \/ SetWarns(r) \/ SetFails(r) \/ ShowWarnings(r) \/ ReadBack(r)
    PROVE  Clean'
<1> DEFINE Alone == \E t \in Res : ~Tabled(t) /\ product \in On[t]
<1>1. /\ up = Members(product)
      /\ warned = {} \/ Alone
      /\ \A t \in Res : Tabled(t) => Tidy(t)
    BY DEF ResetInv, Clean
<1>2. /\ pc[r] = "run" /\ product' = product /\ up' = up /\ cfg' = cfg /\ plan' = plan
    BY DEF Set, SetWarns, SetFails, ShowWarnings, ReadBack, Sets
<1>3. /\ DataInv /\ pc = [t \in Res |-> pc[t]] /\ st = [t \in Res |-> st[t]] /\ pos = [t \in Res |-> pos[t]]
      /\ value \in [Setting -> [Instance -> Value]]
    BY DEF ResetInv, TypeInv, DataInv
<1>4. product \in On[r] /\ (Tabled(r) => ~Alone)
    BY <1>2, Goes, Lonely DEF ResetInv, TypeInv
<1>5. \A kind : ~Fault(kind)
    BY DEF Fault
<1>6. Alone' = Alone
    BY <1>2 DEF Tabled
<1>7. ASSUME warned' = {} \/ Alone, \A t \in Res : Tabled(t) => Tidy(t)'
      PROVE  Clean'
  <2>1. up' = Members(product)'
      BY <1>1, <1>2 DEF Members
  <2> QED
      BY <1>6, <1>7, <2>1 DEF Clean, Tabled
<1>8. ASSUME NEW s, End(r, s)
      PROVE  /\ \A t \in Res \ {r} : pc'[t] = pc[t] /\ st'[t] = st[t] /\ pos'[t] = pos[t]
             /\ pc'[r] = "done" /\ st'[r] = s
    BY <1>3, <1>8 DEF End, ResetInv, Untainted
<1>9. ASSUME Advance(r)
      PROVE  \A t \in Res \ {r} : pc'[t] = pc[t] /\ st'[t] = st[t] /\ pos'[t] = pos[t]
    BY <1>3, <1>9 DEF Advance, End
<1>10. ASSUME value' = value \/ \E S : Sets(r) /\ Put(r, S)
       PROVE  \A t \in Res \ {r} : \A s \in Settings(t) : value'[s] = value[s]
    BY <1>3, <1>10, PutFrame
<1> HIDE DEF Alone
<1>11. CASE Set(r)
  <2>1. Sets(r) /\ Put(r, Targets(r)) /\ Advance(r) /\ warned' = warned \ {conn[r]}
      BY <1>11 DEF Set
  <2>2. Tabled(r) => Tidy(r)'
      BY <1>1, <1>11, SetTidy
  <2>3. \A t \in Res : Tabled(t) => Tidy(t)'
      BY <1>1, <1>2, <1>9, <1>10, <2>1, <2>2, OthersTidy
  <2> QED
      BY <1>1, <1>7, <2>1, <2>3
<1>12. CASE SetWarns(r)
  <2>1. SetsEmpty(r) /\ Sets(r) /\ Advance(r) /\ value' = value
      BY <1>5, <1>12 DEF SetWarns
  <2>2. ~Tabled(r)
    <3>1. SettingAt(r) \in Settings(r)
        BY <1>3, <2>1, OfType DEF DataInv, Sets, SettingAt, Settings
    <3> QED
        BY <2>1, <3>1 DEF Tabled, SetsEmpty
  <2>3. Alone
      BY <1>4, <2>2 DEF Alone
  <2>4. \A t \in Res : Tabled(t) => Tidy(t)'
      BY <1>1, <1>2, <1>9, <1>10, <2>1, <2>2, OthersTidy
  <2> QED
      BY <1>7, <2>3, <2>4
<1>13. CASE SetFails(r)
  <2>1. Targets(r) = {} /\ value' = value /\ End(r, StatementFailure(r))
      BY <1>5, <1>13 DEF SetFails
  <2>2. ~Tabled(r)
      BY <1>1, <1>2, <2>1, TargetsUp
  <2>3. Alone
      BY <1>4, <2>2 DEF Alone
  <2>4. \A t \in Res : Tabled(t) => Tidy(t)'
      BY <1>1, <1>2, <1>8, <1>10, <2>1, <2>2, OthersTidy
  <2> QED
      BY <1>7, <2>3, <2>4
<1>14. CASE ShowWarnings(r)
  <2>1. /\ pos[r] > Len(Of[r]) /\ value' = value /\ warned' = warned
        /\ End(r, IF conn[r] \in warned THEN Failure(r) ELSE Success(r))
      BY <1>5, <1>14 DEF ShowWarnings
  <2>2. ASSUME Tabled(r)
        PROVE  Tidy(r)'
    <3>1. warned = {}
        BY <1>1, <1>4, <2>2
    <3>2. st'[r] = Success(r) /\ pc'[r] = "done"
        BY <1>8, <2>1, <3>1
    <3>3. CASE plan[r] = "delete"
      <4>1. st'[r] = Nil
          BY <3>2, <3>3 DEF Success
      <4> QED
          BY <1>1, <1>2, <2>1, <2>2, <3>2, <3>3, <4>1, LastTidy
    <3>4. CASE plan[r] # "delete"
      <4>1. cfg[r] # Nil
          BY <1>2, <1>3, <3>4 DEF DataInv, At
      <4>2. st'[r] \in State(r) /\ st'[r].id = st'[r].at /\ st'[r].at = cfg[r].at
          BY <1>1, <1>3, <3>2, <3>4, <4>1, PlannedTidy DEF Success
      <4> QED
          BY <1>1, <1>2, <2>1, <2>2, <3>2, <3>4, <4>2, LastTidy
    <3> QED
        BY <3>3, <3>4
  <2>3. \A t \in Res : Tabled(t) => Tidy(t)'
      BY <1>1, <1>2, <1>8, <1>10, <2>1, <2>2, OthersTidy
  <2> QED
      BY <1>1, <1>7, <2>1, <2>3
<1>15. CASE ReadBack(r)
  <2>1. /\ pos[r] > Len(Of[r]) /\ value' = value /\ warned' = warned \ {conn[r]}
        /\ End(r, Read(r, Success(r)))
      BY <1>5, <1>15 DEF ReadBack
  <2>2. ASSUME Tabled(r)
        PROVE  Tidy(r)'
    <3>1. plan[r] # "delete"
        BY <1>3, <1>15, ReadsBackNoDelete
    <3>2. cfg[r] # Nil
        BY <1>2, <1>3, <3>1 DEF DataInv, At
    <3>3. /\ Success(r) \in State(r) /\ Success(r).at = cfg[r].at /\ Success(r).id = cfg[r].at
          /\ cfg[r].at = Nil \/ cfg[r].at \in up
        BY <1>1, <1>3, <3>1, <3>2, PlannedTidy DEF Success
    <3>4. st'[r] = Read(r, Success(r)) /\ pc'[r] = "done"
        BY <1>8, <2>1
    <3>5. st'[r] \in State(r) /\ st'[r].id = st'[r].at /\ st'[r].at = cfg[r].at
        BY <1>3, <3>3, <3>4, ReadTidy
    <3> QED
        BY <1>1, <1>2, <2>1, <2>2, <3>1, <3>4, <3>5, LastTidy
  <2>3. \A t \in Res : Tabled(t) => Tidy(t)'
      BY <1>1, <1>2, <1>8, <1>10, <2>1, <2>2, OthersTidy
  <2> QED
      BY <1>1, <1>7, <2>1, <2>3
<1> QED
    BY <1>11, <1>12, <1>13, <1>14, <1>15

LEMMA CleanStep ==
    ASSUME InCluster, Apart, ResetInv, [Next]_vars
    PROVE  Clean'
<1> SUFFICES ASSUME faults' = {}
             PROVE  Clean'
    BY DEF Clean
<1>1. \A kind : ~Fault(kind)
    BY DEF Fault
<1>2. faults = {}
  <2>1. faults' = faults \/ \E kind : Fault(kind)
    <3>1. CASE StartApply \/ NewRun \/ Crash
        BY <3>1 DEF StartApply, NewRun, Crash
    <3>2. ASSUME NEW r \in Res, Handler(r)
          PROVE  faults' = faults \/ \E kind : Fault(kind)
      <4>1. CASE Refresh(r) \/ RefreshFails(r) \/ Take(r) \/ Set(r)
          BY <4>1 DEF Refresh, RefreshFails, Take, Set
      <4>2. CASE SetWarns(r)
          BY <4>2 DEF SetWarns
      <4>3. CASE SetFails(r)
          BY <4>3 DEF SetFails
      <4>4. CASE ShowWarnings(r) \/ ReadBack(r)
          BY <4>4 DEF ShowWarnings, ReadBack
      <4>5. CASE NoDatabase(r) \/ Replace(r)
          BY <4>5 DEF NoDatabase, Replace
      <4> QED
          BY <3>2, <4>1, <4>2, <4>3, <4>4, <4>5 DEF Handler
    <3>3. ASSUME NEW r \in Res, Import(r)
          PROVE  faults' = faults
        BY <3>3 DEF Import
    <3>4. ASSUME NEW n \in Instance, Leave(n) \/ Join(n)
          PROVE  \E kind : Fault(kind)
        BY <3>4 DEF Leave, Join
    <3>5. CASE UNCHANGED vars
        BY <3>5 DEF vars
    <3> QED
        BY <3>1, <3>2, <3>3, <3>4, <3>5 DEF Next
  <2> QED
      BY <1>1, <2>1
<1> DEFINE Alone == \E t \in Res : ~Tabled(t) /\ product \in On[t]
<1>3. /\ up = Members(product)
      /\ warned = {} \/ Alone
      /\ \A t \in Res : Tabled(t) => Tidy(t)
    BY <1>2 DEF ResetInv, Clean
<1>4. ASSUME product' = product, up' = up, warned' = {} \/ warned' = warned,
             \A t \in Res : Tabled(t) => Tidy(t)'
      PROVE  Clean'
  <2>1. up' = Members(product)' /\ Alone' = Alone
      BY <1>3, <1>4 DEF Members, Tabled
  <2>2. warned' = {} \/ Alone'
      BY <1>3, <1>4, <2>1
  <2> HIDE DEF Alone
  <2>3. \A t \in Res : Tabled(t)' = Tabled(t)
      BY DEF Tabled
  <2> QED
      BY <1>4, <2>1, <2>2, <2>3 DEF Clean, Alone
<1>5. DataInv /\ pc = [t \in Res |-> pc[t]] /\ st = [t \in Res |-> st[t]] /\ TypeInv
    BY DEF ResetInv, TypeInv, DataInv
<1> HIDE DEF Alone
<1>6. CASE StartApply
  <2>1. product' = product /\ up' = up /\ warned' = {}
      BY <1>6 DEF StartApply
  <2> QED
      BY <1>3, <1>4, <1>5, <1>6, <2>1, StartApplyTidy
<1>7. CASE NewRun
  <2>1. product' = product /\ up' = up /\ warned' = warned
      BY <1>7 DEF NewRun, Pool
  <2> QED
      BY <1>3, <1>4, <1>5, <1>7, <2>1, NewRunTidy
<1>8. CASE Crash
    BY <1>1, <1>8 DEF Crash
<1>9. ASSUME NEW r \in Res, Refresh(r)
      PROVE  Clean'
  <2>1. /\ product' = product /\ up' = up /\ warned' = warned /\ value' = value /\ cfg' = cfg
        /\ plan' = plan /\ pos' = pos
        /\ pc[r] = "refresh" /\ pc' = [pc EXCEPT ![r] = "planned"]
        /\ st' = [st EXCEPT ![r] = Read(r, st[r])]
      BY <1>9 DEF Refresh, Pool
  <2>2. ASSUME Tabled(r)
        PROVE  Tidy(r)'
    <3>1. st[r] # Nil
        BY <1>5, <2>1 DEF DataInv, At
    <3>2. product \in On[r] /\ Tidy(r)
        BY <1>3, <2>2, <3>1 DEF ResetInv, Here
    <3>3. PICK c \in Configs[r] : st[r].at = c.at
        BY <3>1, <3>2 DEF Tidy
    <3>4. st[r].at = Nil \/ st[r].at \in up
        BY <1>3, <1>5, <3>2, <3>3, BlockIsUp
    <3>5. st[r] \in State(r) /\ st[r].id = st[r].at
        BY <3>1, <3>2 DEF Tidy
    <3>6. /\ Read(r, st[r]) \in State(r) /\ Read(r, st[r]) # Nil
          /\ Read(r, st[r]).id = st[r].at /\ Read(r, st[r]).at = st[r].at
        BY <1>5, <3>4, <3>5, ReadTidy
    <3>7. st'[r] = Read(r, st[r]) /\ pc'[r] = "planned"
        BY <1>5, <2>1
    <3>8. \A n : Where(n)' = Where(n)
        BY <2>1 DEF Where
    <3> QED
        BY <2>1, <3>1, <3>2, <3>3, <3>6, <3>7, <3>8 DEF Tidy
  <2>3. \A t \in Res \ {r} : pc'[t] = pc[t] /\ st'[t] = st[t] /\ pos'[t] = pos[t]
      BY <1>5, <2>1
  <2>4. \A t \in Res : Tabled(t) => Tidy(t)'
      BY <1>3, <2>1, <2>2, <2>3, OthersTidy
  <2> QED
      BY <1>4, <2>1, <2>4
<1>10. ASSUME NEW r \in Res, RefreshFails(r)
       PROVE  Clean'
    BY <1>1, <1>10 DEF RefreshFails
<1>11. ASSUME NEW r \in Res, Take(r)
       PROVE  Clean'
  <2>1. /\ product' = product /\ up' = up /\ warned' = warned /\ value' = value /\ cfg' = cfg
        /\ plan' = plan /\ pos' = pos /\ st' = st
        /\ pc[r] = "take" /\ pc' = [pc EXCEPT ![r] = "run"]
      BY <1>11 DEF Take
  <2>2. \A t \in Res : /\ pc'[t] \in {"take", "run"} <=> pc[t] \in {"take", "run"}
                       /\ pc'[t] = "done" => pc[t] = "done"
      BY <1>5, <2>1
  <2>3. \A t \in Res : Tabled(t) => Tidy(t)'
      BY <1>3, <1>5, <2>1, <2>2, Frame
  <2> QED
      BY <1>4, <2>1, <2>3
<1>12. ASSUME NEW r \in Res, Set(r) \/ SetWarns(r) \/ SetFails(r) \/ ShowWarnings(r) \/ ReadBack(r)
       PROVE  Clean'
    BY <1>2, <1>12, CleanStatement
<1>13. ASSUME NEW r \in Res, Import(r)
       PROVE  Clean'
  <2>1. /\ product' = product /\ up' = up /\ warned' = warned /\ value' = value /\ cfg' = cfg
        /\ plan' = plan /\ pos' = pos /\ pc' = pc /\ cfg[r] # Nil /\ pc[r] = "done"
        /\ st' = [st EXCEPT ![r] = Read(r, Planned(r, cfg[r].at))]
      BY <1>13 DEF Import, RunEnded, Pool
  <2>2. ASSUME Tabled(r)
        PROVE  Tidy(r)'
    <3>1. /\ Planned(r, cfg[r].at) \in State(r)
          /\ Planned(r, cfg[r].at).at = cfg[r].at /\ Planned(r, cfg[r].at).id = cfg[r].at
          /\ cfg[r].at = Nil \/ cfg[r].at \in up
        BY <1>3, <1>5, <2>1, PlannedTidy
    <3>2. st'[r] = Read(r, Planned(r, cfg[r].at)) /\ pc'[r] = "done" /\ cfg'[r] = cfg[r]
        BY <1>5, <2>1
    <3>3. st'[r] \in State(r) /\ st'[r].id = st'[r].at /\ st'[r].at = cfg[r].at
        BY <1>5, <3>1, <3>2, ReadTidy
    <3>4. cfg[r] \in Configs[r]
        BY <1>5, <2>1, BlockType
    <3>5. \A n : Where(n)' = Where(n)
        BY <2>1 DEF Where
    <3>6. ~Moves(r) => \A s \in Settings(r) \ Kept, n \in up' : value'[s][n] # Default[s] =>
                \E c \in Configs[r] : n \in Where(c.at)'
        BY <1>3, <2>1, <2>2, <3>5 DEF Tidy
    <3> QED
        BY <2>1, <3>2, <3>3, <3>4, <3>6, EndsWithState
  <2>3. \A t \in Res \ {r} : pc'[t] = pc[t] /\ st'[t] = st[t] /\ pos'[t] = pos[t]
      BY <1>5, <2>1
  <2>4. \A t \in Res : Tabled(t) => Tidy(t)'
      BY <1>3, <2>1, <2>2, <2>3, OthersTidy
  <2> QED
      BY <1>4, <2>1, <2>4
<1>14. ASSUME NEW n \in Instance, Leave(n) \/ Join(n)
       PROVE  Clean'
    BY <1>1, <1>14 DEF Leave, Join
<1>15. CASE UNCHANGED vars
  <2>1. /\ product' = product /\ up' = up /\ warned' = warned /\ value' = value /\ cfg' = cfg
        /\ plan' = plan /\ pos' = pos /\ pc' = pc /\ st' = st
      BY <1>15 DEF vars, Pool
  <2>2. \A t \in Res : Tabled(t) => Tidy(t)'
      BY <1>3, <1>5, <2>1, Frame
  <2> QED
      BY <1>4, <2>1, <2>2
<1>16. ASSUME NEW r \in Res, NoDatabase(r) \/ Replace(r)
       PROVE  Clean'
  <2>1. pc[r] # "deleted"
      BY <1>2 DEF ResetInv, Untainted
  <2> QED
      BY <1>1, <1>16, <2>1 DEF NoDatabase, Replace
<1> QED
    BY <1>6, <1>7, <1>8, <1>9, <1>10, <1>11, <1>12, <1>13, <1>14, <1>15, <1>16 DEF Next, Handler

LEMMA NothingTainted ==
    ASSUME ResetInv, [Next]_vars
    PROVE  Untainted'
<1> SUFFICES ASSUME faults' = {}
             PROVE  Untainted'
    BY DEF Untainted
<1>1. \A kind : ~Fault(kind)
    BY DEF Fault
<1>2. /\ pc = [t \in Res |-> pc[t]] /\ plan = [t \in Res |-> plan[t]] /\ DataInv
    BY DEF ResetInv, TypeInv, DataInv
<1>3. ASSUME faults = {}, tainted' = tainted, cfg' = cfg, plan' = plan,
             NEW r \in Res, NEW to, pc' = [pc EXCEPT ![r] = to], to # "deleted",
             to \in {"take", "run"} => pc[r] \in {"take", "run"}
      PROVE  Untainted'
    BY <1>2, <1>3 DEF ResetInv, Untainted
<1>4. CASE StartApply
  <2>1. /\ faults = {} /\ tainted' = tainted /\ plan' = [r \in Res |-> PlanOf(r)] /\ cfg' = cfg
        /\ \A r \in Res : pc'[r] \in {"take", "done"}
      BY <1>4 DEF StartApply
  <2> QED
      BY <1>2, <2>1, PlanType DEF ResetInv, Untainted
<1>5. CASE NewRun
    BY <1>5 DEF NewRun, ResetInv, Untainted
<1>6. ASSUME NEW r \in Res, Refresh(r) \/ Take(r)
      PROVE  Untainted'
    BY <1>3, <1>6 DEF Refresh, Take
<1>7. ASSUME NEW r \in Res, Set(r) \/ SetWarns(r) \/ SetFails(r) \/ ShowWarnings(r) \/ ReadBack(r)
      PROVE  Untainted'
  <2>1. /\ faults = {} /\ cfg' = cfg /\ plan' = plan /\ pc[r] = "run"
        /\ Advance(r) \/ \E s : End(r, s)
      BY <1>1, <1>7 DEF Set, SetWarns, SetFails, ShowWarnings, ReadBack, Sets
  <2>2. tainted = {}
      BY <2>1 DEF ResetInv, Untainted
  <2>3. tainted' = tainted /\ \E to \in {"take", "done"} : pc' = [pc EXCEPT ![r] = to]
      BY <2>1, <2>2 DEF Advance, End
  <2> QED
      BY <1>3, <2>1, <2>3
<1>8. ASSUME NEW r \in Res, NoDatabase(r) \/ RefreshFails(r)
      PROVE  Untainted'
    BY <1>1, <1>8 DEF NoDatabase, RefreshFails
<1>9. ASSUME NEW r \in Res, Replace(r)
      PROVE  Untainted'
  <2>1. pc[r] = "deleted" /\ faults = {}
      BY <1>9 DEF Replace
  <2>2. pc[r] # "deleted"
      BY <2>1 DEF ResetInv, Untainted
  <2> QED
      BY <2>1, <2>2
<1>10. ASSUME NEW r \in Res, Import(r)
       PROVE  Untainted'
    BY <1>10 DEF Import, ResetInv, Untainted
<1>11. CASE UNCHANGED vars
    BY <1>11 DEF vars, ResetInv, Untainted
<1>12. CASE Crash \/ \E n \in Instance : Leave(n) \/ Join(n)
    BY <1>1, <1>12 DEF Crash, Leave, Join
<1> QED
    BY <1>4, <1>5, <1>6, <1>7, <1>8, <1>9, <1>10, <1>11, <1>12 DEF Next, Handler

LEMMA InitReset ==
    ASSUME Init
    PROVE  ResetInv
<1>1. TypeInv /\ Phase /\ Here
    BY InitType DEF Init, Phase, Here
<1>2. /\ up = Members(product) /\ warned = {}
      /\ \A r \in Res : st[r] = Nil /\ pc[r] = "planned"
      /\ \A s \in Setting, n \in Instance : value[s][n] = Default[s]
    BY DEF Init, Members
<1>3. \A r \in Res : \A s \in Settings(r), n \in up : value[s][n] = Default[s]
    BY <1>1, <1>2, OfType, MembersType DEF Settings, TypeInv, DataInv
<1>4. \A r \in Res : Tidy(r)
    BY <1>2, <1>3 DEF Tidy
<1> QED
    BY <1>1, <1>2, <1>4 DEF Init, ResetInv, Untainted, Clean

\* While nothing fails, a resource that was removed has left nothing behind when the run is
\* over, in the state or on an instance, whatever was declared, changed, imported and removed
\* in the runs before and in whichever order the statements of the resources ran on the pool's
\* connections: if the blocks name instances that there are, and nobody shares a server with
\* a resource whose setting cannot be reset, which would be blamed on others.
THEOREM Resets == InCluster /\ Apart => (Safe => []DestroyResets)
<1> SUFFICES ASSUME InCluster, Apart PROVE Safe => []DestroyResets
    OBVIOUS
<1>1. Init => ResetInv
    BY InitReset
<1>2. ResetInv /\ [Next]_vars => ResetInv'
  <2> SUFFICES ASSUME ResetInv, [Next]_vars
               PROVE  ResetInv'
      OBVIOUS
  <2> QED
      BY TypeStep, PhaseStep, HereStep, NothingTainted, CleanStep DEF ResetInv
<1>3. ResetInv => DestroyResets
  <2> SUFFICES ASSUME ResetInv, RunEnded, faults = {}, NEW r \in Res, cfg[r] = Nil,
                      Settings(r) \cap Untabled = {}
               PROVE  /\ st[r] = Nil
                      /\ ~Moves(r) => \A s \in Settings(r) \ Kept, n \in up : value[s][n] = Default[s]
      BY DEF DestroyResets
  <2>1. Tidy(r) /\ pc[r] = "done"
      BY DEF ResetInv, Clean, Tabled, RunEnded
  <2> QED
      BY <2>1 DEF Tidy
<1> QED
    BY <1>1, <1>2, <1>3, PTL DEF Safe

==============================================================================
