---------------------------- MODULE WorkbenchProofs ----------------------------
(***************************************************************************)
(* What holds of the main window and of the parts that open in it, for any *)
(* numbers of tabs, projects and operations.                               *)
(***************************************************************************)
EXTENDS MCWorkbench, SequenceTheorems, FiniteSetTheorems, TLAPS

----------------------------------------------------------------------------
(* The main window: records.  A project, a tab or a snapshot may be None.  *)

Ops == {"submission", "preflight", "step4", "restart4", "export"}
Ops4 == {"preflight", "step4", "restart4"}
Signals == {"ok", "failed", "unknownHost", "unavailable", "finished"}
SomeProject == Projects \cup {None}
SomeTab == Tabs \cup {None}

Snaps == {None} \cup [project : SomeProject, next : {0} \cup Steps]
Docs == [snap : Snaps, needs : SUBSET (0..3), touched : Nat]
Identities == {None} \cup [project : SomeProject, role : {"local", "recovered", "draft", "view"}]
Drafts == {None} \cup [project : SomeProject, confirmed : BOOLEAN]
Contents == [identity : Identities, draft : Drafts, readOnly : BOOLEAN, doc : Docs]
Windows == [open : SUBSET Tabs, retired : SUBSET Tabs, tabs : [Tabs -> Contents],
            bound : SomeTab, reg : Docs, visible : SomeTab, closed : BOOLEAN]
Asked == [project : SomeProject, step : 0..3]
Requests == {None} \cup Asked
Lives == [running : BOOLEAN, origin : SomeTab, request : Requests, retry : BOOLEAN,
          trusted : BOOLEAN, inCallback : BOOLEAN, finishPending : BOOLEAN, workers : Nat,
          shown : {"none", "success", "failure", "trust", "fallback"}]
Lives4 == [running : BOOLEAN, origin : SomeTab, project : SomeProject, workers : Nat]
Jobs == [op : Ops, project : SomeProject, origin : SomeTab]
Reports == [op : Ops, project : SomeProject, origin : SomeTab, signal : Signals]
Contexts == [target : SomeTab, visible : SomeTab, previous : SomeTab]
Decisions == [op : {"step4", "restart4"}, project : SomeProject, maySubmit : BOOLEAN]
Frames ==
    [wait : {"success", "failure", "trust"}, op : {"submission"}, data : {None}, context : Contexts]
    \cup [wait : {"dialog"}, op : {"preflight"}, data : Decisions, context : Contexts]
    \cup [wait : {"message", "step4"}, op : Ops \ {"submission"}, data : {None}, context : Contexts]

WindowTypes ==
    /\ win \in Windows /\ sub \in Lives /\ tra \in Lives4
    /\ pool \in Seq(Jobs) /\ events \in Seq(Reports) /\ stack \in Seq(Frames)
    /\ home \in [{"submission", "transport"} -> SomeTab]
    /\ count \in [opens : Nat, starts : Nat, touches : Nat]

----------------------------------------------------------------------------
(* The one submission: where its worker, its signals and its box are.      *)

Absent(q) == \A i \in DOMAIN q : q[i].op # "submission"

\* One element of q is of the submission.
Lone(q) ==
    \E i \in DOMAIN q : q[i].op = "submission" /\ \A k \in DOMAIN q \ {i} : q[k].op # "submission"

\* The end of its worker is still to be delivered, or its outcome before that.
EndTo(q) ==
    \E i \in DOMAIN q :
        /\ q[i].op = "submission" /\ q[i].signal = "finished"
        /\ \A k \in DOMAIN q \ {i} : q[k].op # "submission"

BothTo(q) ==
    \E i, j \in DOMAIN q :
        /\ i < j /\ q[i].op = "submission" /\ q[i].signal # "finished"
        /\ q[j].op = "submission" /\ q[j].signal = "finished"
        /\ \A k \in DOMAIN q \ {i, j} : q[k].op # "submission"

Resting ==
    /\ ~sub.running /\ sub.workers = 0 /\ ~sub.inCallback /\ ~sub.finishPending
    /\ Absent(pool) /\ Absent(events) /\ Absent(stack)

AtWork ==
    /\ sub.running /\ sub.workers = 1 /\ ~sub.inCallback /\ ~sub.finishPending
    /\ Lone(pool) /\ Absent(events) /\ Absent(stack)

HasEnded ==
    /\ sub.running /\ sub.workers = 1 /\ ~sub.inCallback /\ ~sub.finishPending
    /\ Absent(pool) /\ BothTo(events) /\ Absent(stack)

InBox ==
    /\ sub.running /\ sub.workers = 1 /\ sub.inCallback /\ ~sub.finishPending
    /\ Absent(pool) /\ EndTo(events) /\ Lone(stack)

BoxAnswered ==
    /\ sub.running /\ sub.workers = 1 /\ ~sub.inCallback /\ ~sub.finishPending
    /\ Absent(pool) /\ EndTo(events) /\ Absent(stack)

EndDeferred ==
    /\ sub.running /\ sub.workers = 0 /\ sub.inCallback /\ sub.finishPending
    /\ Absent(pool) /\ Absent(events) /\ Lone(stack)

Lifecycle ==
    /\ \/ Resting \/ AtWork \/ HasEnded \/ InBox \/ BoxAnswered \/ EndDeferred
    /\ sub.running => sub.request \in Asked
    /\ home["submission"] # None /\ ~sub.running => sub.shown # "none"

----------------------------------------------------------------------------
(* The workers of Step 4.                                                  *)

Of4(q) == {i \in DOMAIN q : q[i].op \in Ops4}
Ends4(q) == {i \in DOMAIN q : q[i].op \in Ops4 /\ q[i].signal = "finished"}

Counted4 == tra.workers = Cardinality(Of4(pool)) + Cardinality(Ends4(events))

ClosedIdle == win.closed => pool = <<>>

----------------------------------------------------------------------------
(* Whose tab it is.                                                        *)

\* The tab a submission was started from is there until it has ended, and the tab that
\* works with the registers is there as long as they hold anything.
AtHome ==
    /\ sub.running => sub.origin = home["submission"]
    /\ sub.origin # None => sub.origin \in win.open \cup win.retired
    /\ win.visible # None => win.visible \in win.open
    /\ \A i \in DOMAIN stack : stack[i].op = "submission" => stack[i].context.target = sub.origin

MainInv == WindowTypes /\ Lifecycle /\ Counted4 /\ ClosedIdle /\ AtHome
MainWindowInv == area = "window" => MainInv

----------------------------------------------------------------------------
(* The queues.                                                             *)

LEMMA TailOf ==
    ASSUME NEW S, NEW q \in Seq(S), q # <<>>
    PROVE  /\ Tail(q) \in Seq(S) /\ Head(q) = q[1] /\ 1 \in DOMAIN q /\ q[1] \in S
           /\ DOMAIN q = 1..Len(q) /\ DOMAIN Tail(q) = 1..(Len(q) - 1) /\ Len(q) \in Nat \ {0}
           /\ \A i \in 1..(Len(q) - 1) : Tail(q)[i] = q[i + 1]
<1>1. Tail(q) \in Seq(S) /\ Len(Tail(q)) = Len(q) - 1 /\ Head(q) \in S
      /\ \A i \in 1..(Len(q) - 1) : Tail(q)[i] = q[i + 1]
  BY HeadTailProperties
<1>2. Head(q) = q[1] /\ Len(q) \in Nat /\ DOMAIN q = 1..Len(q)
  OBVIOUS
<1>3. Len(q) # 0
  BY EmptySeq, <1>2
<1>4. DOMAIN Tail(q) = 1..(Len(q) - 1)
  BY <1>1
<1> QED BY <1>1, <1>2, <1>3, <1>4

LEMMA AppendedTo ==
    ASSUME NEW S, NEW q \in Seq(S), NEW x \in S
    PROVE  /\ Append(q, x) \in Seq(S) /\ Len(q) \in Nat
           /\ DOMAIN q = 1..Len(q) /\ DOMAIN Append(q, x) = 1..(Len(q) + 1)
           /\ Append(q, x)[Len(q) + 1] = x
           /\ \A i \in 1..Len(q) : Append(q, x)[i] = q[i]
BY AppendProperties

LEMMA TwoAppendedTo ==
    ASSUME NEW S, NEW q \in Seq(S), NEW x \in S, NEW y \in S
    PROVE  /\ q \o <<x, y>> \in Seq(S) /\ Len(q) \in Nat
           /\ DOMAIN q = 1..Len(q) /\ DOMAIN (q \o <<x, y>>) = 1..(Len(q) + 2)
           /\ (q \o <<x, y>>)[Len(q) + 1] = x /\ (q \o <<x, y>>)[Len(q) + 2] = y
           /\ \A i \in 1..Len(q) : (q \o <<x, y>>)[i] = q[i]
<1>1. <<x, y>> \in Seq(S) /\ Len(<<x, y>>) = 2
  OBVIOUS
<1>2. /\ q \o <<x, y>> \in Seq(S) /\ Len(q \o <<x, y>>) = Len(q) + 2
      /\ \A i \in 1..Len(q) + 2 :
            (q \o <<x, y>>)[i] = IF i <= Len(q) THEN q[i] ELSE <<x, y>>[i - Len(q)]
  BY <1>1, ConcatProperties
<1>3. Len(q) \in Nat /\ DOMAIN q = 1..Len(q)
  OBVIOUS
<1>4. <<x, y>>[1] = x /\ <<x, y>>[2] = y /\ Len(q) + 1 - Len(q) = 1 /\ Len(q) + 2 - Len(q) = 2
  BY <1>3
<1>5. /\ (q \o <<x, y>>)[Len(q) + 1] = <<x, y>>[Len(q) + 1 - Len(q)]
      /\ (q \o <<x, y>>)[Len(q) + 2] = <<x, y>>[Len(q) + 2 - Len(q)]
  BY <1>2, <1>3
<1>6. \A i \in 1..Len(q) : (q \o <<x, y>>)[i] = q[i]
  BY <1>2, <1>3
<1>7. DOMAIN (q \o <<x, y>>) = 1..(Len(q) + 2)
  BY <1>2
<1> QED BY <1>2, <1>3, <1>4, <1>5, <1>6, <1>7

LEMMA FrontOf ==
    ASSUME NEW S, NEW q \in Seq(S), q # <<>>
    PROVE  /\ Front(q) \in Seq(S) /\ Last(q) = q[Len(q)] /\ Last(q) \in S /\ Len(q) \in DOMAIN q
           /\ DOMAIN q = 1..Len(q) /\ DOMAIN Front(q) = 1..(Len(q) - 1) /\ Len(q) \in Nat \ {0}
           /\ \A i \in 1..(Len(q) - 1) : Front(q)[i] = q[i]
<1>1. Len(q) \in Nat /\ DOMAIN q = 1..Len(q)
  OBVIOUS
<1>2. Len(q) # 0
  BY EmptySeq, <1>1
<1>3. /\ SubSeq(q, 1, Len(q) - 1) \in Seq(S) /\ Len(SubSeq(q, 1, Len(q) - 1)) = Len(q) - 1
      /\ \A i \in 1..(Len(q) - 1) : SubSeq(q, 1, Len(q) - 1)[i] = q[i]
  <2>1. \A i \in 1..(Len(q) - 1) : q[i] \in S
    BY <1>1
  <2>2. /\ SubSeq(q, 1, Len(q) - 1) \in Seq(S)
        /\ Len(SubSeq(q, 1, Len(q) - 1)) = IF 1 <= Len(q) - 1 THEN Len(q) - 1 - 1 + 1 ELSE 0
        /\ \A i \in 1..(Len(q) - 1 - 1 + 1) : SubSeq(q, 1, Len(q) - 1)[i] = q[1 + i - 1]
    BY SubSeqProperties, <1>1, <1>2, <2>1
  <2> QED BY <2>2, <1>1, <1>2
<1>4. Front(q) = SubSeq(q, 1, Len(q) - 1) /\ Last(q) = q[Len(q)]
  BY DEF Front, Last
<1>5. DOMAIN SubSeq(q, 1, Len(q) - 1) = 1..(Len(q) - 1)
  BY <1>3
<1>6. q[Len(q)] \in S /\ Len(q) \in DOMAIN q
  BY <1>1, <1>2
<1> QED BY <1>1, <1>2, <1>3, <1>4, <1>5, <1>6

----------------------------------------------------------------------------
(* Where the one submission is, when a queue grows or shrinks.             *)

LEMMA SubmissionAppended ==
    ASSUME NEW S, NEW q \in Seq(S), NEW x \in S
    PROVE  /\ x.op # "submission" =>
                /\ Absent(q) => Absent(Append(q, x))
                /\ Lone(q) => Lone(Append(q, x))
           /\ x.op = "submission" /\ Absent(q) => Lone(Append(q, x))
<1> DEFINE a == Append(q, x)
<1>1. /\ DOMAIN q = 1..Len(q) /\ DOMAIN a = 1..(Len(q) + 1) /\ a[Len(q) + 1] = x
      /\ \A i \in 1..Len(q) : a[i] = q[i]
  BY AppendedTo
<1>2. Len(q) \in Nat
  OBVIOUS
<1> HIDE DEF a
<1>3. x.op # "submission" /\ Absent(q) => Absent(a)
  BY <1>1, <1>2 DEF Absent
<1>4. x.op # "submission" /\ Lone(q) => Lone(a)
  BY <1>1, <1>2 DEF Lone
<1>5. x.op = "submission" /\ Absent(q) => Lone(a)
  <2> SUFFICES ASSUME x.op = "submission", Absent(q) PROVE Lone(a)
    OBVIOUS
  <2>1. Len(q) + 1 \in DOMAIN a /\ a[Len(q) + 1].op = "submission"
    BY <1>1, <1>2
  <2>2. \A k \in DOMAIN a \ {Len(q) + 1} : a[k].op # "submission"
    BY <1>1, <1>2 DEF Absent
  <2> QED BY <2>1, <2>2 DEF Lone
<1> QED BY <1>3, <1>4, <1>5 DEF a

LEMMA SubmissionReported ==
    ASSUME NEW S, NEW q \in Seq(S), NEW x \in S, NEW y \in S, x.op = y.op
    PROVE  /\ x.op # "submission" =>
                /\ Absent(q) => Absent(q \o <<x, y>>)
                /\ EndTo(q) => EndTo(q \o <<x, y>>)
                /\ BothTo(q) => BothTo(q \o <<x, y>>)
           /\ x.op = "submission" /\ x.signal # "finished" /\ y.signal = "finished" /\ Absent(q) =>
                BothTo(q \o <<x, y>>)
<1> DEFINE a == q \o <<x, y>>
<1>1. /\ DOMAIN q = 1..Len(q) /\ DOMAIN a = 1..(Len(q) + 2)
      /\ a[Len(q) + 1] = x /\ a[Len(q) + 2] = y /\ \A i \in 1..Len(q) : a[i] = q[i]
  BY TwoAppendedTo
<1>2. Len(q) \in Nat
  OBVIOUS
<1>3. \A i \in DOMAIN a : i \in DOMAIN q \/ i = Len(q) + 1 \/ i = Len(q) + 2
  BY <1>1, <1>2
<1>4. \A i \in DOMAIN q : i \in DOMAIN a /\ a[i] = q[i] /\ i < Len(q) + 1
  BY <1>1, <1>2
<1> HIDE DEF a
<1>5. x.op # "submission" /\ Absent(q) => Absent(a)
  BY <1>1, <1>3, <1>4 DEF Absent
<1>6. x.op # "submission" /\ EndTo(q) => EndTo(a)
  <2> SUFFICES ASSUME x.op # "submission", EndTo(q) PROVE EndTo(a)
    OBVIOUS
  <2>1. PICK i \in DOMAIN q : /\ q[i].op = "submission" /\ q[i].signal = "finished"
                              /\ \A k \in DOMAIN q \ {i} : q[k].op # "submission"
    BY DEF EndTo
  <2>2. \A k \in DOMAIN a \ {i} : a[k].op # "submission"
    BY <2>1, <1>1, <1>3, <1>4
  <2> QED BY <2>1, <2>2, <1>4 DEF EndTo
<1>7. x.op # "submission" /\ BothTo(q) => BothTo(a)
  <2> SUFFICES ASSUME x.op # "submission", BothTo(q) PROVE BothTo(a)
    OBVIOUS
  <2>1. PICK i, j \in DOMAIN q :
          /\ i < j /\ q[i].op = "submission" /\ q[i].signal # "finished"
          /\ q[j].op = "submission" /\ q[j].signal = "finished"
          /\ \A k \in DOMAIN q \ {i, j} : q[k].op # "submission"
    BY DEF BothTo
  <2>2. \A k \in DOMAIN a \ {i, j} : a[k].op # "submission"
    BY <2>1, <1>1, <1>3, <1>4
  <2> QED BY <2>1, <2>2, <1>4 DEF BothTo
<1>8. ASSUME x.op = "submission", x.signal # "finished", y.signal = "finished", Absent(q)
      PROVE  BothTo(a)
  <2>1. /\ Len(q) + 1 \in DOMAIN a /\ Len(q) + 2 \in DOMAIN a /\ Len(q) + 1 < Len(q) + 2
    BY <1>1, <1>2
  <2>2. \A k \in DOMAIN a \ {Len(q) + 1, Len(q) + 2} : a[k].op # "submission"
    BY <1>3, <1>4, <1>8 DEF Absent
  <2>3. /\ a[Len(q) + 1].op = "submission" /\ a[Len(q) + 1].signal # "finished"
        /\ a[Len(q) + 2].op = "submission" /\ a[Len(q) + 2].signal = "finished"
    BY <1>1, <1>8
  <2> QED BY <2>1, <2>2, <2>3 DEF BothTo
<1> QED BY <1>5, <1>6, <1>7, <1>8 DEF a

LEMMA SubmissionDelivered ==
    ASSUME NEW S, NEW q \in Seq(S), q # <<>>
    PROVE  /\ Head(q).op # "submission" =>
                /\ Absent(q) => Absent(Tail(q))
                /\ Lone(q) => Lone(Tail(q))
                /\ EndTo(q) => EndTo(Tail(q))
                /\ BothTo(q) => BothTo(Tail(q))
           /\ Head(q).op = "submission" =>
                /\ ~Absent(q)
                /\ Lone(q) => Absent(Tail(q))
                /\ EndTo(q) => Absent(Tail(q)) /\ Head(q).signal = "finished"
                /\ BothTo(q) => EndTo(Tail(q)) /\ Head(q).signal # "finished"
<1> DEFINE a == Tail(q)
<1>1. /\ DOMAIN q = 1..Len(q) /\ DOMAIN a = 1..(Len(q) - 1) /\ Head(q) = q[1] /\ 1 \in DOMAIN q
      /\ \A i \in 1..(Len(q) - 1) : a[i] = q[i + 1]
  BY TailOf
<1>2. Len(q) \in Nat
  OBVIOUS
<1>3. \A i \in DOMAIN q : i = 1 \/ (i - 1 \in DOMAIN a /\ a[i - 1] = q[i])
  BY <1>1, <1>2
<1>4. \A i \in DOMAIN a : i + 1 \in DOMAIN q /\ a[i] = q[i + 1] /\ i + 1 # 1
  BY <1>1, <1>2
<1>5. \A i, j \in DOMAIN q : i \in Int /\ (i + 1) - 1 = i /\ (i - 1) + 1 = i
                             /\ (i < j => i - 1 < j - 1) /\ (i < j => j # 1)
  BY <1>1, <1>2
<1> DEFINE h == Head(q)
<1>6. h = q[1]
  BY <1>1
<1> HIDE DEF a, h
<1>7. h.op # "submission" /\ Absent(q) => Absent(a)
  BY <1>4 DEF Absent
<1>8. ASSUME h.op # "submission", Lone(q) PROVE Lone(a)
  <2>1. PICK i \in DOMAIN q : q[i].op = "submission" /\ \A k \in DOMAIN q \ {i} : q[k].op # "submission"
    BY <1>8 DEF Lone
  <2>2. i - 1 \in DOMAIN a /\ a[i - 1] = q[i]
    BY <2>1, <1>3, <1>6, <1>8
  <2>3. \A k \in DOMAIN a \ {i - 1} : a[k].op # "submission"
    BY <2>1, <1>4, <1>1, <1>2
  <2> QED BY <2>1, <2>2, <2>3 DEF Lone
<1>9. ASSUME h.op # "submission", EndTo(q) PROVE EndTo(a)
  <2>1. PICK i \in DOMAIN q : /\ q[i].op = "submission" /\ q[i].signal = "finished"
                              /\ \A k \in DOMAIN q \ {i} : q[k].op # "submission"
    BY <1>9 DEF EndTo
  <2>2. i - 1 \in DOMAIN a /\ a[i - 1] = q[i]
    BY <2>1, <1>3, <1>6, <1>9
  <2>3. \A k \in DOMAIN a \ {i - 1} : a[k].op # "submission"
    BY <2>1, <1>4, <1>1, <1>2
  <2> QED BY <2>1, <2>2, <2>3 DEF EndTo
<1>10. ASSUME h.op # "submission", BothTo(q) PROVE BothTo(a)
  <2>1. PICK i, j \in DOMAIN q :
          /\ i < j /\ q[i].op = "submission" /\ q[i].signal # "finished"
          /\ q[j].op = "submission" /\ q[j].signal = "finished"
          /\ \A k \in DOMAIN q \ {i, j} : q[k].op # "submission"
    BY <1>10 DEF BothTo
  <2>2. i - 1 \in DOMAIN a /\ a[i - 1] = q[i] /\ j - 1 \in DOMAIN a /\ a[j - 1] = q[j] /\ i - 1 < j - 1
    BY <2>1, <1>3, <1>5, <1>6, <1>10
  <2>3. \A k \in DOMAIN a \ {i - 1, j - 1} : a[k].op # "submission"
    <3>1. \A k \in DOMAIN a \ {i - 1, j - 1} : k \in Nat /\ k # i - 1 /\ k # j - 1 /\ i \in Nat /\ j \in Nat
      BY <1>1, <1>2
    <3>2. \A k \in DOMAIN a \ {i - 1, j - 1} : k + 1 # i /\ k + 1 # j
      BY <3>1
    <3> QED BY <2>1, <1>4, <3>2
  <2> QED BY <2>1, <2>2, <2>3 DEF BothTo
<1>11. h.op = "submission" => ~Absent(q)
  BY <1>1, <1>6 DEF Absent
<1>12. ASSUME h.op = "submission", Lone(q) PROVE Absent(a)
  <2>1. \A k \in DOMAIN q \ {1} : q[k].op # "submission"
    BY <1>12, <1>1, <1>6 DEF Lone
  <2> QED BY <2>1, <1>4 DEF Absent
<1>13. ASSUME h.op = "submission", EndTo(q) PROVE Absent(a) /\ h.signal = "finished"
  <2>1. h.signal = "finished" /\ \A k \in DOMAIN q \ {1} : q[k].op # "submission"
    BY <1>13, <1>1, <1>6 DEF EndTo
  <2> QED BY <2>1, <1>4 DEF Absent
<1>14. ASSUME h.op = "submission", BothTo(q) PROVE EndTo(a) /\ h.signal # "finished"
  <2>1. PICK i, j \in DOMAIN q :
          /\ i < j /\ q[i].op = "submission" /\ q[i].signal # "finished"
          /\ q[j].op = "submission" /\ q[j].signal = "finished"
          /\ \A k \in DOMAIN q \ {i, j} : q[k].op # "submission"
    BY <1>14 DEF BothTo
  <2>2. i = 1 /\ j # 1
    BY <2>1, <1>1, <1>5, <1>6, <1>14
  <2>3. j - 1 \in DOMAIN a /\ a[j - 1] = q[j]
    BY <2>2, <1>3
  <2>4. \A k \in DOMAIN a \ {j - 1} : a[k].op # "submission"
    BY <2>1, <2>2, <1>4, <1>1, <1>2
  <2> QED BY <2>1, <2>2, <2>3, <2>4, <1>6 DEF EndTo
<1> QED BY <1>7, <1>8, <1>9, <1>10, <1>11, <1>12, <1>13, <1>14 DEF a, h

LEMMA SubmissionAnswered ==
    ASSUME NEW S, NEW q \in Seq(S), q # <<>>
    PROVE  /\ Last(q).op # "submission" =>
                /\ Absent(q) => Absent(Front(q))
                /\ Lone(q) => Lone(Front(q))
           /\ Last(q).op = "submission" =>
                /\ ~Absent(q)
                /\ Lone(q) => Absent(Front(q))
<1> DEFINE a == Front(q)
<1>1. /\ DOMAIN q = 1..Len(q) /\ DOMAIN a = 1..(Len(q) - 1) /\ Last(q) = q[Len(q)] /\ Len(q) \in DOMAIN q
      /\ \A i \in 1..(Len(q) - 1) : a[i] = q[i]
  BY FrontOf
<1>2. Len(q) \in Nat
  OBVIOUS
<1>3. \A i \in DOMAIN q : i = Len(q) \/ (i \in DOMAIN a /\ a[i] = q[i])
  BY <1>1, <1>2
<1>4. \A i \in DOMAIN a : i \in DOMAIN q /\ a[i] = q[i] /\ i # Len(q)
  BY <1>1, <1>2
<1> HIDE DEF a
<1>5. Last(q).op # "submission" /\ Absent(q) => Absent(a)
  BY <1>4 DEF Absent
<1>6. Last(q).op # "submission" /\ Lone(q) => Lone(a)
  BY <1>1, <1>3, <1>4 DEF Lone
<1>7. Last(q).op = "submission" => ~Absent(q)
  BY <1>1 DEF Absent
<1>8. Last(q).op = "submission" /\ Lone(q) => Absent(a)
  BY <1>1, <1>4 DEF Lone, Absent
<1> QED BY <1>5, <1>6, <1>7, <1>8 DEF a

----------------------------------------------------------------------------
(* What binding, storing and showing a tab leaves alone.                   *)

SameTabs(u, v) ==
    /\ u.open = v.open /\ u.retired = v.retired /\ u.closed = v.closed
    /\ u.visible = v.visible

LEMMA BindType ==
    ASSUME NEW v \in Windows, NEW w \in Tabs
    PROVE  Bind(v, w) \in Windows /\ SameTabs(Bind(v, w), v) /\ Bind(v, w).tabs = v.tabs
           /\ Bind(v, w).bound = w /\ Bind(v, w).visible = v.visible
<1>1. v.tabs[w] \in Contents
  BY DEF Windows
<1>2. v.tabs[w].doc \in Docs
  BY <1>1 DEF Contents
<1> HIDE DEF Docs
<1> QED BY <1>2 DEF Windows, Bind, SameTabs, SomeTab

LEMMA StoreType ==
    ASSUME NEW v \in Windows
    PROVE  Store(v) \in Windows /\ SameTabs(Store(v), v) /\ Store(v).bound = v.bound
           /\ Store(v).visible = v.visible /\ Store(v).reg = v.reg
<1>1. CASE v.bound = None
  BY <1>1 DEF Store, SameTabs
<1>2. CASE v.bound # None
  <2>1. v.bound \in Tabs /\ v.reg \in Docs /\ v.tabs \in [Tabs -> Contents]
    BY <1>2 DEF Windows, SomeTab
  <2>2. [v.tabs[v.bound] EXCEPT !.doc = v.reg] \in Contents
    BY <2>1 DEF Contents
  <2>3. [v.tabs EXCEPT ![v.bound] = [v.tabs[v.bound] EXCEPT !.doc = v.reg]] \in [Tabs -> Contents]
    BY <2>1, <2>2
  <2>4. Store(v) = [v EXCEPT !.tabs = [v.tabs EXCEPT ![v.bound] = [v.tabs[v.bound] EXCEPT !.doc = v.reg]]]
    BY <1>2 DEF Store
  <2> QED BY <2>3, <2>4 DEF Windows, SameTabs
<1> QED BY <1>1, <1>2

LEMMA ShowType ==
    ASSUME NEW v \in Windows, NEW w \in SomeTab
    PROVE  /\ Show(v, w) \in Windows
           /\ Show(v, w).open = v.open /\ Show(v, w).retired = v.retired
           /\ Show(v, w).closed = v.closed /\ Show(v, w).visible = w
<1> DEFINE s == [Store(v) EXCEPT !.visible = w]
<1>1. /\ s \in Windows /\ s.open = v.open /\ s.retired = v.retired
      /\ s.closed = v.closed /\ s.visible = w
  BY StoreType DEF Windows, SameTabs
<1>2. CASE w = None
  <2>1. Show(v, w) = s
    BY <1>2 DEF Show
  <2> QED BY <2>1, <1>1
<1>3. CASE w # None
  <2>1. w \in Tabs /\ Show(v, w) = Bind(s, w)
    BY <1>3 DEF Show, SomeTab
  <2> HIDE DEF s
  <2> QED BY <2>1, <1>1, BindType DEF SameTabs
<1> QED BY <1>2, <1>3

LEMMA FoundType ==
    ASSUME NEW v \in Windows, NEW w
    PROVE  /\ Found(v, w) \in SomeTab
           /\ Found(v, w) # None => Found(v, w) = w /\ w \in Tabs
           /\ w \in v.open \cup v.retired => Found(v, w) = w
BY DEF Found, SomeTab, Windows

LEMMA EnterType ==
    ASSUME NEW v \in Windows, NEW origin
    PROVE  /\ Enter(v, origin) \in Windows /\ SameTabs(Enter(v, origin), v)
           /\ Enter(v, origin).visible = v.visible
           /\ Found(v, origin) # None => Enter(v, origin).bound = origin
<1>1. CASE Found(v, origin) \in {None, v.bound}
  BY <1>1, FoundType DEF Enter, SameTabs
<1>2. CASE Found(v, origin) \notin {None, v.bound}
  <2>1. origin \in Tabs
    BY <1>2, FoundType
  <2>2. Enter(v, origin) = Bind(Store(v), origin)
    BY <1>2 DEF Enter
  <2> QED BY <2>1, <2>2, BindType, StoreType DEF SameTabs
<1> QED BY <1>1, <1>2

LEMMA ContextType ==
    ASSUME NEW v \in Windows, NEW origin
    PROVE  Context(v, origin) \in Contexts /\ Context(v, origin).target = Found(v, origin)
BY FoundType DEF Context, Contexts, Windows

LEMMA LeaveType ==
    ASSUME NEW v \in Windows, NEW context \in Contexts
    PROVE  Leave(v, context) \in Windows /\ SameTabs(Leave(v, context), v)
<1> DEFINE saved == IF context.target = None THEN v ELSE Store(v)
           back == IF context.visible = None THEN context.previous ELSE context.visible
<1>1. saved \in Windows /\ SameTabs(saved, v)
  BY StoreType DEF SameTabs
<1>2. back \in SomeTab
  BY DEF Contexts
<1>3. Leave(v, context) = IF back \in {None, context.target} THEN saved ELSE Bind(saved, back)
  BY DEF Leave
<1> HIDE DEF saved, back
<1>4. CASE back \in {None, context.target}
  BY <1>4, <1>3, <1>1
<1>5. CASE back \notin {None, context.target}
  BY <1>5, <1>3, <1>2, <1>1, BindType DEF SomeTab, SameTabs
<1> QED BY <1>4, <1>5

LEMMA EmptyType == Empty \in Contents /\ Fresh \in Docs
<1>1. Fresh \in Docs
  BY DEF Fresh, Docs, Snaps
<1>2. QED BY <1>1 DEF Empty, Contents, Identities, Drafts

LEMMA ReleaseType ==
    ASSUME NEW v \in Windows, NEW w, NEW origins
    PROVE  /\ Release(v, w, origins) \in Windows
           /\ Release(v, w, origins).open = v.open /\ Release(v, w, origins).closed = v.closed
           /\ Release(v, w, origins).visible = v.visible
           /\ Release(v, w, origins).retired \in {v.retired, v.retired \ {w}}
           /\ w \in origins => Release(v, w, origins) = v
<1>1. CASE w \notin v.retired \ origins
  BY <1>1 DEF Release
<1>2. CASE w \in v.retired \ origins
  <2>1. w \in Tabs /\ v.tabs \in [Tabs -> Contents]
    BY <1>2 DEF Windows
  <2>2. [v.tabs EXCEPT ![w] = Empty] \in [Tabs -> Contents]
    BY <2>1, EmptyType
  <2>3. Release(v, w, origins) =
          [v EXCEPT !.retired = v.retired \ {w}, !.tabs = [v.tabs EXCEPT ![w] = Empty],
                    !.bound = IF v.bound = w THEN None ELSE v.bound]
    BY <1>2 DEF Release
  <2>4. (IF v.bound = w THEN None ELSE v.bound) \in SomeTab
    BY DEF Windows, SomeTab
  <2>5. v.retired \ {w} \in SUBSET Tabs
    BY DEF Windows
  <2> QED BY <2>2, <2>3, <2>4, <2>5, <1>2 DEF Windows
<1> QED BY <1>1, <1>2

----------------------------------------------------------------------------
(* Types.                                                                  *)

LEMMA TypesInit == Init => WindowTypes
<1> SUFFICES ASSUME Init PROVE WindowTypes
  OBVIOUS
<1>1. PICK first \in Tabs :
        win = [open |-> {first}, retired |-> {}, tabs |-> [w \in Tabs |-> Empty],
               bound |-> first, reg |-> Fresh, visible |-> first, closed |-> FALSE]
  BY DEF Init
<1>2. win \in Windows
  BY <1>1, EmptyType DEF Windows, SomeTab
<1>3. sub \in Lives
  BY DEF Init, Idle, Lives, SomeTab, Requests, Asked
<1>4. tra \in Lives4
  BY DEF Init, Lives4, SomeTab, SomeProject
<1>5. pool \in Seq(Jobs) /\ events \in Seq(Reports) /\ stack \in Seq(Frames)
  BY DEF Init
<1>6. home \in [{"submission", "transport"} -> SomeTab]
  BY DEF Init, SomeTab
<1>7. count \in [opens : Nat, starts : Nat, touches : Nat]
  BY DEF Init
<1> QED BY <1>2, <1>3, <1>4, <1>5, <1>6, <1>7 DEF WindowTypes

\* No tab that a submission was started from goes, and the window stays as it is.
OriginKept ==
    /\ sub.origin \in win.open \cup win.retired => sub.origin \in win'.open \cup win'.retired
    /\ win'.closed = win.closed
    /\ (win.visible # None => win.visible \in win.open) =>
         (win'.visible # None => win'.visible \in win'.open)

\* What the user does to the tabs.
LEMMA OpenType ==
    ASSUME WindowTypes, NEW identity, NEW loaded \in Contents, Open(identity, loaded)
    PROVE  WindowTypes' /\ OriginKept
<1>1. win' \in Windows /\ OriginKept
  <2>1. CASE \E w \in win.open : win' = Show(win, w)
    <3>1. PICK w \in win.open : win' = Show(win, w)
      BY <2>1
    <3>2. w \in SomeTab /\ win \in Windows
      BY DEF WindowTypes, Windows, SomeTab
    <3>3. /\ win' \in Windows /\ win'.open = win.open /\ win'.retired = win.retired
          /\ win'.closed = win.closed /\ win'.visible = w
      BY <3>1, <3>2, ShowType
    <3> QED BY <3>3 DEF OriginKept
  <2>2. ASSUME NEW w \in ForNewGeometry,
               win' = [Show([win EXCEPT !.open = @ \cup {w}], w)
                             EXCEPT !.tabs[w] = loaded, !.reg = loaded.doc]
        PROVE  win' \in Windows /\ OriginKept
    <3>1. w \in Tabs
      BY DEF ForNewGeometry, WindowTypes, Windows
    <3> DEFINE o == [win EXCEPT !.open = @ \cup {w}]
    <3>2. o \in Windows
      BY <3>1 DEF WindowTypes, Windows
    <3>20. o.open = win.open \cup {w} /\ o.retired = win.retired /\ o.closed = win.closed
      BY DEF WindowTypes, Windows
    <3> DEFINE s == Show(o, w)
    <3> HIDE DEF o
    <3>3. /\ s \in Windows /\ s.open = o.open /\ s.retired = o.retired
          /\ s.closed = o.closed /\ s.visible = w
      BY <3>1, <3>2, ShowType DEF SomeTab
    <3>4. loaded.doc \in Docs
      BY DEF Contents
    <3> HIDE DEF s
    <3>5. [s.tabs EXCEPT ![w] = loaded] \in [Tabs -> Contents]
      BY <3>1, <3>3 DEF Windows
    <3>6. win' = [s EXCEPT !.tabs = [s.tabs EXCEPT ![w] = loaded], !.reg = loaded.doc]
      BY <2>2 DEF s, o
    <3>7. win' \in Windows
      BY <3>3, <3>4, <3>5, <3>6 DEF Windows
    <3>8. win'.open = s.open /\ win'.retired = s.retired /\ win'.closed = s.closed
          /\ win'.visible = s.visible
      BY <3>3, <3>6 DEF Windows
    <3> QED BY <3>3, <3>7, <3>8, <3>20 DEF OriginKept
  <2> QED BY <2>1, <2>2 DEF Open
<1>2. count' = [count EXCEPT !.opens = @ + 1]
  BY DEF Open
<1>3. count' \in [opens : Nat, starts : Nat, touches : Nat]
  BY <1>2 DEF WindowTypes
<1> QED BY <1>1, <1>3 DEF WindowTypes, Open

Opens ==
    \/ OpenLocal \/ \E p \in Projects : OpenDraft(p) \/ OpenReadOnly(p)
    \/ \E p \in Projects, next \in Steps : OpenRecovered(p, next)

LEMMA OpensType ==
    ASSUME WindowTypes, Opens
    PROVE  WindowTypes' /\ OriginKept /\ ~win.closed /\ UNCHANGED <<sub, tra, pool, events, stack, home>>
<1>0. /\ OpenLocal => ~win.closed /\ UNCHANGED <<sub, tra, pool, events, stack, home>>
      /\ \A p \in Projects : OpenDraft(p) \/ OpenReadOnly(p) =>
            ~win.closed /\ UNCHANGED <<sub, tra, pool, events, stack, home>>
      /\ \A p \in Projects, next \in Steps : OpenRecovered(p, next) =>
            ~win.closed /\ UNCHANGED <<sub, tra, pool, events, stack, home>>
  BY DEF OpenLocal, OpenDraft, OpenReadOnly, OpenRecovered, Open, UserMayAct
<1>1. ASSUME OpenLocal PROVE WindowTypes' /\ OriginKept
  <2> DEFINE identity == [project |-> None, role |-> "local"]
  <2>1. [Empty EXCEPT !.identity = identity] \in Contents
    BY EmptyType DEF Contents, Identities, SomeProject
  <2> QED BY <1>1, <2>1, OpenType DEF OpenLocal
<1>2. ASSUME NEW p \in Projects, OpenDraft(p) PROVE WindowTypes' /\ OriginKept
  <2> DEFINE identity == [project |-> p, role |-> "draft"]
  <2>1. [Empty EXCEPT !.identity = identity, !.draft = [project |-> p, confirmed |-> FALSE]] \in Contents
    BY EmptyType DEF Contents, Identities, Drafts, SomeProject
  <2> QED BY <1>2, <2>1, OpenType DEF OpenDraft
<1>3. ASSUME NEW p \in Projects, OpenReadOnly(p) PROVE WindowTypes' /\ OriginKept
  <2> DEFINE identity == [project |-> p, role |-> "view"]
  <2>1. [Empty EXCEPT !.identity = identity, !.readOnly = TRUE] \in Contents
    BY EmptyType DEF Contents, Identities, SomeProject
  <2> QED BY <1>3, <2>1, OpenType DEF OpenReadOnly
<1>4. ASSUME NEW p \in Projects, NEW next \in Steps, OpenRecovered(p, next)
      PROVE  WindowTypes' /\ OriginKept
  <2> DEFINE identity == [project |-> p, role |-> "recovered"]
             snap == [project |-> p, next |-> next]
  <2>1. snap \in Snaps
    BY DEF Snaps, SomeProject
  <2>2. [Empty.doc EXCEPT !.snap = snap] \in Docs
    BY <2>1, EmptyType DEF Docs, Contents
  <2> HIDE DEF snap
  <2>3. [Empty EXCEPT !.identity = identity, !.doc.snap = snap] \in Contents
    BY <2>2, EmptyType DEF Contents, Identities, SomeProject
  <2> QED BY <1>4, <2>3, OpenType DEF OpenRecovered, snap
<1> QED BY <1>0, <1>1, <1>2, <1>3, <1>4 DEF Opens

LEMMA SwitchTabType == ASSUME WindowTypes, NEW w \in Tabs \cup {None}, SwitchTab(w)
    PROVE WindowTypes' /\ OriginKept
<1>1. w \in SomeTab /\ win \in Windows /\ win' = Show(win, w) /\ w \in win.open \cup {None}
  BY DEF SwitchTab, WindowTypes, SomeTab
<1>2. /\ win' \in Windows /\ win'.open = win.open /\ win'.retired = win.retired
      /\ win'.closed = win.closed /\ win'.visible = w
  BY <1>1, ShowType
<1>3. WindowTypes'
  BY <1>2 DEF SwitchTab, WindowTypes
<1> QED BY <1>1, <1>2, <1>3 DEF OriginKept

LEMMA CloseTabType == ASSUME WindowTypes, NEW w \in Tabs \cup {None}, CloseTab(w)
    PROVE WindowTypes' /\ OriginKept
<1>1. PICK next \in (win.open \ {w}) \cup {None} :
         LET saved == IF win.bound = w THEN Store(win) ELSE win
             retire == w \in {sub.origin, tra.origin}
             closed == [saved EXCEPT !.open = @ \ {w},
                                    !.retired = IF retire THEN @ \cup {w} ELSE @,
                                    !.tabs[w] = IF retire THEN @ ELSE Empty,
                                    !.bound = IF @ = w THEN None ELSE @] IN
         win' = Show(closed, next)
  BY DEF CloseTab
<1> DEFINE saved == IF win.bound = w THEN Store(win) ELSE win
           retire == w \in {sub.origin, tra.origin}
           closed == [saved EXCEPT !.open = @ \ {w},
                                  !.retired = IF retire THEN @ \cup {w} ELSE @,
                                  !.tabs[w] = IF retire THEN @ ELSE Empty,
                                  !.bound = IF @ = w THEN None ELSE @]
<1>2. win \in Windows /\ w \in win.open
  BY DEF WindowTypes, CloseTab
<1>3. w \in Tabs /\ next \in SomeTab
  BY <1>2 DEF Windows, SomeTab
<1>4. saved \in Windows /\ SameTabs(saved, win)
  BY <1>2, StoreType DEF SameTabs
<1>5. closed \in Windows
  <2> HIDE DEF saved, retire
  <2>1. (IF retire THEN saved.tabs[w] ELSE Empty) \in Contents
    BY <1>3, <1>4, EmptyType DEF Windows
  <2>2. [saved.tabs EXCEPT ![w] = IF retire THEN saved.tabs[w] ELSE Empty] \in [Tabs -> Contents]
    BY <1>4, <2>1 DEF Windows
  <2>3. (IF saved.bound = w THEN None ELSE saved.bound) \in SomeTab
    BY <1>4 DEF Windows, SomeTab
  <2>4. /\ saved.open \ {w} \in SUBSET Tabs
        /\ (IF retire THEN saved.retired \cup {w} ELSE saved.retired) \in SUBSET Tabs
    BY <1>3, <1>4 DEF Windows
  <2> QED BY <1>4, <2>2, <2>3, <2>4 DEF Windows
<1>50. closed.open = win.open \ {w} /\ (retire => closed.retired = win.retired \cup {w})
       /\ (~retire => closed.retired = win.retired) /\ closed.closed = win.closed
  <2>1. /\ closed.open = saved.open \ {w} /\ (retire => closed.retired = saved.retired \cup {w})
        /\ (~retire => closed.retired = saved.retired) /\ closed.closed = saved.closed
    <3> HIDE DEF saved, retire
    <3> QED BY <1>4 DEF Windows
  <2> HIDE DEF closed, retire, saved
  <2> QED BY <2>1, <1>4 DEF SameTabs
<1>51. retire \/ sub.origin # w
  OBVIOUS
<1>52. win' = Show(closed, next)
  BY <1>1
<1> HIDE DEF closed, retire
<1>6. /\ win' \in Windows /\ win'.open = closed.open /\ win'.retired = closed.retired
      /\ win'.closed = closed.closed /\ win'.visible = next
  BY <1>52, <1>3, <1>5, ShowType
<1>7. OriginKept
  BY <1>6, <1>50, <1>51 DEF OriginKept
<1> QED BY <1>6, <1>7 DEF WindowTypes, CloseTab

LEMMA TouchType == ASSUME WindowTypes, Touch PROVE WindowTypes' /\ OriginKept
<1>1. win \in Windows /\ win.reg \in Docs /\ count.touches + 1 \in Nat
  BY DEF WindowTypes, Windows
<1>2. [win.reg EXCEPT !.touched = count.touches + 1] \in Docs
  BY <1>1 DEF Docs
<1>3. win' \in Windows
  BY <1>1, <1>2 DEF Touch, Windows
<1>4. count' \in [opens : Nat, starts : Nat, touches : Nat]
  BY DEF WindowTypes, Touch
<1>5. OriginKept
  BY <1>1 DEF Windows, Touch, OriginKept
<1> QED BY <1>3, <1>4, <1>5 DEF WindowTypes, Touch

LEMMA SnapshotUpdatedType ==
    ASSUME WindowTypes, NEW p \in Projects, NEW next \in {0} \cup Steps, NEW terminal \in BOOLEAN,
           SnapshotUpdated(p, next, terminal)
    PROVE  WindowTypes' /\ OriginKept
<1> DEFINE snap == [project |-> p, next |-> next]
           ofProject(doc) == doc.snap # None /\ doc.snap.project = p
           updated(w) ==
             [win.tabs[w] EXCEPT
                !.doc.snap = IF ofProject(win.tabs[w].doc) THEN snap ELSE @,
                !.draft = IF @ # None /\ @.project = p THEN [@ EXCEPT !.confirmed = terminal] ELSE @]
<1>1. win' = [win EXCEPT
                !.tabs = [w \in Tabs |-> IF w \in win.open THEN updated(w) ELSE win.tabs[w]],
                !.reg.snap = IF win.bound \in win.open /\ ofProject(win.tabs[win.bound].doc)
                             THEN snap ELSE @]
  BY DEF SnapshotUpdated
<1>2. snap \in Snaps
  BY DEF Snaps, SomeProject
<1>3. win \in Windows /\ win.reg \in Docs
  BY DEF WindowTypes, Windows
<1>4. \A w \in Tabs : updated(w) \in Contents
  <2> SUFFICES ASSUME NEW w \in Tabs PROVE updated(w) \in Contents
    OBVIOUS
  <2>1. win.tabs[w] \in Contents /\ win.tabs[w].doc \in Docs /\ win.tabs[w].draft \in Drafts
    BY <1>3 DEF Windows, Contents
  <2>2. [win.tabs[w].doc EXCEPT !.snap = IF ofProject(win.tabs[w].doc) THEN snap ELSE @] \in Docs
    BY <2>1, <1>2 DEF Docs
  <2>3. (IF win.tabs[w].draft # None /\ win.tabs[w].draft.project = p
         THEN [win.tabs[w].draft EXCEPT !.confirmed = terminal] ELSE win.tabs[w].draft) \in Drafts
    BY <2>1 DEF Drafts
  <2> HIDE DEF snap, ofProject
  <2> QED BY <2>1, <2>2, <2>3 DEF Contents
<1>5. [win.reg EXCEPT !.snap = IF win.bound \in win.open /\ ofProject(win.tabs[win.bound].doc)
                               THEN snap ELSE @] \in Docs
  BY <1>2, <1>3 DEF Docs
<1> HIDE DEF snap, ofProject, updated
<1>6. [w \in Tabs |-> IF w \in win.open THEN updated(w) ELSE win.tabs[w]] \in [Tabs -> Contents]
  BY <1>3, <1>4 DEF Windows
<1>7. win' \in Windows
  BY <1>1, <1>3, <1>5, <1>6 DEF Windows
<1>8. OriginKept
  BY <1>1, <1>3 DEF OriginKept, Windows
<1> QED BY <1>7, <1>8 DEF WindowTypes, SnapshotUpdated

LEMMA CloseWindowType == ASSUME WindowTypes, CloseWindow PROVE WindowTypes'
<1>1. win' \in Windows
  BY DEF WindowTypes, CloseWindow, Windows
<1> QED BY <1>1 DEF WindowTypes, CloseWindow

\* Operations are started.
LEMMA StartedType == ASSUME WindowTypes, Started PROVE count' \in [opens : Nat, starts : Nat, touches : Nat]
BY DEF WindowTypes, Started

LEMMA StartSubmissionType ==
    ASSUME WindowTypes, NEW project \in SomeProject, NEW step \in 0..3, StartSubmission(project, step)
    PROVE  WindowTypes'
<1>1. win \in Windows /\ win.reg \in Docs /\ win.visible \in SomeTab
  BY DEF WindowTypes, Windows
<1>2. [win.reg EXCEPT !.needs = @ \ {2}] \in Docs
  BY <1>1 DEF Docs
<1>3. win' \in Windows
  BY <1>1, <1>2 DEF StartSubmission, Windows
<1>4. sub' \in Lives
  BY <1>1 DEF StartSubmission, Lives, Idle, Requests, Asked
<1>5. pool' \in Seq(Jobs)
  <2>1. Worker("submission", project) \in Jobs
    BY <1>1 DEF Worker, Jobs, Ops
  <2> QED BY <2>1, AppendedTo DEF StartSubmission, WindowTypes
<1>6. home' \in [{"submission", "transport"} -> SomeTab]
  BY <1>1 DEF WindowTypes, StartSubmission
<1>7. count' \in [opens : Nat, starts : Nat, touches : Nat]
  BY StartedType DEF StartSubmission
<1> QED BY <1>3, <1>4, <1>5, <1>6, <1>7 DEF WindowTypes, StartSubmission

LEMMA StartPreflightType ==
    ASSUME WindowTypes, NEW project \in SomeProject, StartPreflight(project)
    PROVE  WindowTypes'
<1>1. win.visible \in SomeTab /\ tra.workers \in Nat
  BY DEF WindowTypes, Windows, Lives4
<1>2. tra' \in Lives4
  BY <1>1 DEF StartPreflight, Lives4
<1>3. pool' \in Seq(Jobs)
  <2>1. Worker("preflight", project) \in Jobs
    BY <1>1 DEF Worker, Jobs, Ops
  <2> QED BY <2>1, AppendedTo DEF StartPreflight, WindowTypes
<1>4. home' \in [{"submission", "transport"} -> SomeTab]
  BY <1>1 DEF WindowTypes, StartPreflight
<1>5. count' \in [opens : Nat, starts : Nat, touches : Nat]
  BY StartedType DEF StartPreflight
<1> QED BY <1>2, <1>3, <1>4, <1>5 DEF WindowTypes, StartPreflight

\* The project of a snapshot or of a draft.
LEMMA SnapProject == ASSUME WindowTypes, win.reg.snap # None PROVE win.reg.snap.project \in SomeProject
<1>1. win.reg \in Docs
  BY DEF WindowTypes, Windows
<1> QED BY <1>1 DEF Docs, Snaps

LEMMA DraftProject ==
    ASSUME NEW v \in Windows, NEW w \in Tabs, v.tabs[w].draft # None
    PROVE  v.tabs[w].draft.project \in SomeProject
<1>1. v.tabs[w] \in Contents
  BY DEF Windows
<1> QED BY <1>1 DEF Contents, Drafts

\* The submissions there are.
Submissions ==
    \/ SubmitNew \/ SubmitImported2 \/ SubmitImported3 \/ SubmitRestart
    \/ ContinueStep2 \/ ContinueStep3
    \/ ResubmitOrca \/ \E p \in Projects : SubmitFrequency(p)

LEMMA SubmissionStarts ==
    ASSUME WindowTypes, Submissions
    PROVE  UserMayAct /\ \E project \in SomeProject, step \in 0..3 : StartSubmission(project, step)
<1>1. SubmitNew \/ SubmitImported2 \/ SubmitImported3 \/ SubmitRestart =>
        UserMayAct /\ \E step \in 0..3 : StartSubmission(None, step)
  BY DEF SubmitNew, SubmitImported2, SubmitImported3, SubmitRestart, Unmanaged, Writable, Active
<1>2. None \in SomeProject /\ Projects \subseteq SomeProject
  BY DEF SomeProject
<1>3. ContinueStep2 \/ ContinueStep3 =>
        UserMayAct /\ win.reg.snap # None /\ \E step \in 0..3 : StartSubmission(win.reg.snap.project, step)
  BY DEF ContinueStep2, ContinueStep3, Continues, Writable, Active
<1>4. ASSUME NEW p \in Projects, SubmitFrequency(p)
      PROVE  UserMayAct /\ StartSubmission(p, 0)
  BY <1>4 DEF SubmitFrequency
<1>5. ResubmitOrca => UserMayAct /\ StartSubmission(None, 0)
  BY DEF ResubmitOrca, Active
<1> QED BY <1>5, <1>1, <1>2, <1>3, <1>4, SnapProject DEF Submissions

Preflights == ContinueStep4 \/ RestartStep4

LEMMA PreflightStarts ==
    ASSUME WindowTypes, Preflights
    PROVE  UserMayAct /\ \E project \in SomeProject : StartPreflight(project)
<1>1. CASE ContinueStep4
  BY <1>1, SnapProject DEF ContinueStep4, Continues, Writable, Active
<1>2. CASE RestartStep4
  <2>1. UserMayAct /\ win.bound \in Tabs /\ win \in Windows
    BY <1>2 DEF RestartStep4, Writable, Active, WindowTypes, Windows, SomeTab
  <2>2. StartPreflight(win.tabs[win.bound].draft.project) /\ win.tabs[win.bound].draft # None
    BY <1>2 DEF RestartStep4, Tab
  <2> QED BY <2>1, <2>2, DraftProject
<1> QED BY <1>1, <1>2 DEF Preflights

LEMMA ExportInputsType == ASSUME WindowTypes, ExportInputs PROVE WindowTypes'
<1>1. Worker("export", None) \in Jobs
  BY DEF Worker, Jobs, Ops, SomeProject, WindowTypes, Windows
<1>2. pool' \in Seq(Jobs)
  BY <1>1, AppendedTo DEF ExportInputs, WindowTypes
<1>3. count' \in [opens : Nat, starts : Nat, touches : Nat]
  BY StartedType DEF ExportInputs
<1> QED BY <1>2, <1>3 DEF WindowTypes, ExportInputs

LEMMA WorkerEndsType ==
    ASSUME WindowTypes, NEW what \in {"ok", "failed", "unknownHost", "unavailable"}, WorkerEnds(what)
    PROVE  /\ WindowTypes' /\ pool # <<>> /\ pool' = Tail(pool)
           /\ \E x, y \in Reports :
                /\ events' = events \o <<x, y>> /\ x.op = Head(pool).op /\ y.op = Head(pool).op
                /\ x.signal = what /\ y.signal = "finished"
<1> DEFINE event(signal) == [op |-> Head(pool).op, project |-> Head(pool).project,
                             origin |-> Head(pool).origin, signal |-> signal]
<1>1. pool # <<>> /\ pool' = Tail(pool) /\ events' = events \o <<event(what), event("finished")>>
  BY DEF WorkerEnds
<1>2. Head(pool) \in Jobs /\ pool' \in Seq(Jobs)
  BY <1>1, TailOf DEF WindowTypes
<1>3. event(what) \in Reports /\ event("finished") \in Reports
  BY <1>2 DEF Jobs, Reports, Signals
<1>4. events' \in Seq(Reports)
  <2> HIDE DEF event
  <2> QED BY <1>1, <1>3, TwoAppendedTo DEF WindowTypes
<1>5. event(what).op = Head(pool).op /\ event("finished").op = Head(pool).op
      /\ event(what).signal = what /\ event("finished").signal = "finished"
  OBVIOUS
<1>6. WindowTypes'
  BY <1>2, <1>4 DEF WindowTypes, WorkerEnds
<1> HIDE DEF event
<1> QED BY <1>1, <1>3, <1>5, <1>6

\* Events are delivered and boxes answered.
LEMMA DeliveredType ==
    ASSUME WindowTypes, NEW ops, NEW signals, Delivered(ops, signals)
    PROVE  /\ events # <<>> /\ events' = Tail(events) /\ events' \in Seq(Reports)
           /\ Event \in Reports /\ Event.op \in ops /\ Event.signal \in signals /\ ~win.closed
BY TailOf DEF Delivered, Event, WindowTypes

LEMMA AnsweredType ==
    ASSUME WindowTypes, NEW waits, Answered(waits)
    PROVE  /\ stack # <<>> /\ stack' = Front(stack) /\ stack' \in Seq(Frames)
           /\ Last(stack) \in Frames /\ Last(stack).wait \in waits /\ ~win.closed
           /\ Last(stack).context \in Contexts
<1>1. stack # <<>> /\ stack' = Front(stack) /\ stack' \in Seq(Frames) /\ Last(stack) \in Frames
      /\ Last(stack).wait \in waits /\ ~win.closed
  BY FrontOf DEF Answered, WindowTypes
<1>2. Last(stack).context \in Contexts
  BY <1>1 DEF Frames
<1> QED BY <1>1, <1>2

LEMMA BoxType ==
    ASSUME WindowTypes, NEW v \in Windows, NEW wait, NEW data, Box(v, wait, data),
           \/ wait \in {"success", "failure", "trust"} /\ data = None /\ Event.op = "submission"
           \/ wait = "dialog" /\ data \in Decisions /\ Event.op = "preflight"
           \/ wait \in {"message", "step4"} /\ data = None /\ Event.op \in Ops \ {"submission"}
    PROVE  /\ win' \in Windows /\ stack' \in Seq(Frames) /\ win' = v
           /\ \E f \in Frames : /\ stack' = Append(stack, f) /\ f.op = Event.op
                                /\ f.context = Context(win, Origin(Event))
<1> DEFINE f == [wait |-> wait, op |-> Event.op, data |-> data,
                 context |-> Context(win, Origin(Event))]
<1>1. f.context \in Contexts
  BY ContextType DEF WindowTypes
<1>2. f \in Frames
  BY <1>1 DEF Frames
<1>3. stack' = Append(stack, f) /\ win' = v /\ f.op = Event.op /\ f.context = Context(win, Origin(Event))
  BY DEF Box
<1> HIDE DEF f
<1>4. stack' \in Seq(Frames)
  BY <1>2, <1>3, AppendedTo DEF WindowTypes
<1> QED BY <1>2, <1>3, <1>4

LEMMA RegType ==
    ASSUME NEW v \in Windows, NEW r \in Docs
    PROVE  [v EXCEPT !.reg = r] \in Windows /\ SameTabs([v EXCEPT !.reg = r], v)
BY DEF Windows, SameTabs

LEMMA AfterSubmissionType ==
    ASSUME NEW r \in Docs, NEW request \in Asked
    PROVE  AfterSubmission(r, request) \in Docs
<1>1. request.step \in 0..3 /\ request.project \in SomeProject
  BY DEF Requests, Asked
<1>2. [project |-> request.project, next |-> 0] \in Snaps
  BY <1>1 DEF Snaps
<1>3. /\ [r EXCEPT !.snap = [project |-> request.project, next |-> 0], !.needs = @ \ {request.step}] \in Docs
      /\ [r EXCEPT !.needs = @ \cup {request.step}] \in Docs
  BY <1>1, <1>2 DEF Docs
<1> QED BY <1>3 DEF AfterSubmission

\* The callbacks of a submission's outcome.
LEMMA OutcomeType ==
    ASSUME WindowTypes, sub.request \in Asked, SubmissionSucceeded \/ SubmissionFailed
    PROVE  /\ WindowTypes'
           /\ events # <<>> /\ events' = Tail(events) /\ Head(events).op = "submission"
           /\ Head(events).signal # "finished" /\ ~win.closed
           /\ \E r \in Docs : win' = [Enter(win, sub.origin) EXCEPT !.reg = r]
           /\ \E f \in Frames : /\ stack' = Append(stack, f) /\ f.op = "submission"
                                /\ f.context = Context(win, sub.origin)
           /\ sub' \in {[sub EXCEPT !.retry = FALSE, !.inCallback = TRUE], [sub EXCEPT !.inCallback = TRUE]}
           /\ UNCHANGED <<tra, pool, home, count>>
<1> DEFINE v == Enter(win, sub.origin)
<1>1. v \in Windows /\ v.reg \in Docs
  BY EnterType DEF WindowTypes, Windows
<1>2. /\ events # <<>> /\ events' = Tail(events) /\ events' \in Seq(Reports)
      /\ Event.op = "submission" /\ Event.signal \in {"ok", "failed", "unknownHost"} /\ ~win.closed
  BY DeliveredType DEF SubmissionSucceeded, SubmissionFailed
<1>3. Origin(Event) = sub.origin
  BY <1>2 DEF Origin
<1>4. \E r \in Docs : \E wait \in {"success", "failure", "trust"} : Box([v EXCEPT !.reg = r], wait, None)
  <2>1. CASE SubmissionSucceeded
    <3>1. Box([v EXCEPT !.reg = AfterSubmission(v.reg, sub.request)], "success", None)
      BY <2>1 DEF SubmissionSucceeded
    <3>2. AfterSubmission(v.reg, sub.request) \in Docs
      BY <1>1, AfterSubmissionType DEF WindowTypes, Lives
    <3> HIDE DEF v
    <3> QED BY <3>1, <3>2
  <2>2. CASE SubmissionFailed
    <3> DEFINE r == [v.reg EXCEPT !.needs = IF sub.request.step = 3 /\ Event.signal = "failed"
                                            THEN @ \cup {3} ELSE @]
    <3>1. Box([v EXCEPT !.reg = r], IF Event.signal = "unknownHost" /\ ~sub.trusted
                                    THEN "trust" ELSE "failure", None)
      BY <2>2 DEF SubmissionFailed
    <3>2. r \in Docs
      BY <1>1 DEF Docs
    <3> HIDE DEF v, r
    <3> QED BY <3>1, <3>2
  <2> QED BY <2>1, <2>2
<1>5. PICK r \in Docs, wait \in {"success", "failure", "trust"} : Box([v EXCEPT !.reg = r], wait, None)
  BY <1>4
<1>6. [v EXCEPT !.reg = r] \in Windows
  BY <1>1, RegType
<1>7. /\ win' \in Windows /\ stack' \in Seq(Frames) /\ win' = [v EXCEPT !.reg = r]
      /\ \E f \in Frames : /\ stack' = Append(stack, f) /\ f.op = "submission"
                           /\ f.context = Context(win, sub.origin)
  <2> HIDE DEF v
  <2> QED BY <1>5, <1>6, <1>2, <1>3, BoxType
<1>8. sub' \in {[sub EXCEPT !.retry = FALSE, !.inCallback = TRUE], [sub EXCEPT !.inCallback = TRUE]}
  BY DEF SubmissionSucceeded, SubmissionFailed
<1>9. sub' \in Lives
  BY <1>8 DEF WindowTypes, Lives
<1>10. UNCHANGED <<tra, pool, home, count>>
  BY DEF SubmissionSucceeded, SubmissionFailed
<1>11. WindowTypes'
  BY <1>2, <1>7, <1>9, <1>10 DEF WindowTypes
<1> HIDE DEF v
<1> QED BY <1>2, <1>7, <1>8, <1>10, <1>11 DEF v, Event

\* The end of a submission, at once or deferred.
LEMMA CompletedType ==
    ASSUME NEW s \in Lives
    PROVE  /\ Completed(s) \in Lives
           /\ s.retry => /\ Completed(s).running = s.running /\ Completed(s).workers = 1
                         /\ Completed(s).request = s.request
           /\ ~s.retry => /\ ~Completed(s).running /\ Completed(s).workers = s.workers
                          /\ Completed(s).shown # "none"
           /\ Completed(s).inCallback = s.inCallback /\ Completed(s).finishPending = s.finishPending
           /\ Completed(s).origin = s.origin
<1>1. CASE s.retry
  <2> DEFINE t == [s EXCEPT !.retry = FALSE, !.shown = "none", !.workers = 1]
  <2>1. Completed(s) = t
    BY <1>1 DEF Completed
  <2>2. t \in Lives
    BY DEF Lives
  <2>3. /\ Completed(s).running = s.running /\ Completed(s).workers = 1
        /\ Completed(s).request = s.request /\ Completed(s).inCallback = s.inCallback
        /\ Completed(s).finishPending = s.finishPending /\ Completed(s).origin = s.origin
    BY <2>1 DEF Lives
  <2> HIDE DEF t
  <2> QED BY <1>1, <2>1, <2>2, <2>3
<1>2. CASE ~s.retry
  <2>1. Completed(s) = [s EXCEPT !.running = FALSE, !.request = None,
                                 !.shown = IF s.shown = "none" THEN "fallback" ELSE s.shown]
    BY <1>2 DEF Completed
  <2>2. None \in Requests
    BY DEF Requests, Asked
  <2> QED BY <1>2, <2>1, <2>2 DEF Lives
<1> QED BY <1>1, <1>2

LEMMA RelaunchedType ==
    ASSUME WindowTypes, NEW s \in Lives, s.retry => s.request \in Asked
    PROVE  /\ Relaunched(s) \in Seq(Jobs)
           /\ ~s.retry => Relaunched(s) = pool
           /\ s.retry => \E x \in Jobs : Relaunched(s) = Append(pool, x) /\ x.op = "submission"
<1>1. CASE s.retry
  <2> DEFINE x == [op |-> "submission", project |-> s.request.project, origin |-> s.origin]
  <2>1. x \in Jobs /\ x.op = "submission"
    BY <1>1 DEF Jobs, Ops, Lives, Requests, Asked
  <2>2. Relaunched(s) = Append(pool, x)
    BY <1>1 DEF Relaunched
  <2> HIDE DEF x
  <2> QED BY <1>1, <2>1, <2>2, AppendedTo DEF WindowTypes
<1>2. CASE ~s.retry
  BY <1>2 DEF Relaunched, WindowTypes
<1> QED BY <1>1, <1>2

\* _routed_submission_worker_finished.
LEMMA FinishedType ==
    ASSUME WindowTypes, sub.request \in Asked, sub.workers = 1, SubmissionFinished
    PROVE  /\ WindowTypes'
           /\ events # <<>> /\ events' = Tail(events) /\ Head(events).op = "submission"
           /\ Head(events).signal = "finished" /\ ~win.closed
           /\ \E left \in Windows :
                /\ left = Leave(Enter(win, sub.origin), Context(win, sub.origin))
                /\ SameTabs(left, win)
                /\ win' \in {left, Release(left, sub.origin, {tra.origin})}
           /\ UNCHANGED <<tra, stack, home, count>>
           /\ sub.inCallback =>
                /\ sub'.running = sub.running /\ sub'.request = sub.request /\ sub'.workers = 0
                /\ sub'.inCallback /\ sub'.finishPending /\ sub'.shown = sub.shown
                /\ UNCHANGED pool
                /\ sub.running => sub'.origin = sub.origin /\ win'.retired = win.retired
           /\ ~sub.inCallback /\ sub.retry =>
                /\ sub'.running = sub.running /\ sub'.request = sub.request /\ sub'.workers = 1
                /\ ~sub'.inCallback /\ sub'.finishPending = sub.finishPending
                /\ sub'.origin = sub.origin /\ win'.retired = win.retired
                /\ \E x \in Jobs : pool' = Append(pool, x) /\ x.op = "submission"
           /\ ~sub.inCallback /\ ~sub.retry =>
                /\ ~sub'.running /\ sub'.workers = 0 /\ sub'.shown # "none" /\ sub'.origin = None
                /\ ~sub'.inCallback /\ sub'.finishPending = sub.finishPending
                /\ UNCHANGED pool
<1> DEFINE one == [sub EXCEPT !.workers = @ - 1]
           done == IF sub.inCallback THEN [one EXCEPT !.finishPending = TRUE] ELSE Completed(one)
           free == ~done.running /\ done.workers = 0
           left == Leave(Enter(win, sub.origin), Context(win, sub.origin))
<1>1. /\ events # <<>> /\ events' = Tail(events) /\ events' \in Seq(Reports)
      /\ Event.op = "submission" /\ Event.signal = "finished" /\ ~win.closed
  BY DeliveredType DEF SubmissionFinished
<1>2. /\ sub' = [done EXCEPT !.origin = IF free THEN None ELSE @]
      /\ win' = IF free THEN Release(left, sub.origin, {tra.origin}) ELSE left
      /\ pool' = IF sub.inCallback THEN pool ELSE Relaunched(one)
      /\ UNCHANGED <<tra, stack, home, count>>
  BY DEF SubmissionFinished
<1>3. left \in Windows /\ SameTabs(left, win)
  <2>1. Enter(win, sub.origin) \in Windows /\ SameTabs(Enter(win, sub.origin), win)
    BY EnterType DEF WindowTypes
  <2>2. Context(win, sub.origin) \in Contexts
    BY ContextType DEF WindowTypes
  <2> QED BY <2>1, <2>2, LeaveType DEF SameTabs
<1>4. win' \in Windows /\ win' \in {left, Release(left, sub.origin, {tra.origin})}
  <2> HIDE DEF left, free
  <2> QED BY <1>2, <1>3, ReleaseType
<1>5. one \in Lives /\ one.running = sub.running /\ one.request = sub.request /\ one.workers = 0
      /\ one.inCallback = sub.inCallback /\ one.finishPending = sub.finishPending
      /\ one.origin = sub.origin /\ one.shown = sub.shown /\ one.retry = sub.retry
  <2>1. sub \in Lives /\ sub.workers - 1 = 0
    BY DEF WindowTypes
  <2>2. one \in Lives
    BY <2>1 DEF Lives
  <2>3. one.running = sub.running /\ one.request = sub.request /\ one.workers = 0
    BY <2>1 DEF Lives
  <2>4. one.inCallback = sub.inCallback /\ one.finishPending = sub.finishPending
    BY <2>1 DEF Lives
  <2>5. one.origin = sub.origin /\ one.shown = sub.shown /\ one.retry = sub.retry
    BY <2>1 DEF Lives
  <2> QED BY <2>2, <2>3, <2>4, <2>5
<1> HIDE DEF one, left
<1>6. CASE sub.inCallback
  <2>1. done = [one EXCEPT !.finishPending = TRUE]
    BY <1>6
  <2>2. done \in Lives /\ done.running = one.running /\ done.request = one.request
        /\ done.workers = 0 /\ done.inCallback = one.inCallback /\ done.finishPending = TRUE
    BY <2>1, <1>5 DEF Lives
  <2>3. done.shown = one.shown /\ done.origin = one.origin
    BY <2>1, <1>5 DEF Lives
  <2> HIDE DEF done
  <2>4. sub' \in Lives /\ sub'.running = done.running /\ sub'.request = done.request
        /\ sub'.workers = 0 /\ sub'.inCallback = done.inCallback /\ sub'.finishPending = TRUE
    BY <2>2, <1>2 DEF Lives, SomeTab
  <2>5. sub'.shown = done.shown
    BY <2>2, <1>2 DEF Lives
  <2>6. sub.running => sub'.origin = done.origin /\ win' = left
    BY <2>2, <1>2, <1>5 DEF Lives
  <2>7. pool' = pool
    BY <1>6, <1>2
  <2>8. WindowTypes'
    BY <2>4, <2>7, <1>1, <1>2, <1>4 DEF WindowTypes
  <2>9. win'.retired = win.retired \/ ~sub.running
    BY <2>6, <1>3 DEF SameTabs
  <2>10. /\ sub'.running = sub.running /\ sub'.request = sub.request /\ sub'.workers = 0
         /\ sub'.inCallback /\ sub'.finishPending /\ sub'.shown = sub.shown
    BY <2>2, <2>3, <2>4, <2>5, <1>5, <1>6
  <2>11. sub.running => sub'.origin = sub.origin
    BY <2>3, <2>6, <1>5
  <2> QED BY <1>6, <1>1, <1>2, <1>3, <1>4, <2>7, <2>8, <2>9, <2>10, <2>11 DEF left, Event
<1>7. CASE ~sub.inCallback
  <2> DEFINE end == Completed(one)
             gone == ~end.running /\ end.workers = 0
  <2>1. done = end
    BY <1>7
  <2>4. /\ sub' = [end EXCEPT !.origin = IF gone THEN None ELSE @]
        /\ win' = IF gone THEN Release(left, sub.origin, {tra.origin}) ELSE left
        /\ pool' = Relaunched(one)
    BY <1>7, <1>2, <2>1
  <2>2. /\ end \in Lives
        /\ one.retry => end.running = one.running /\ end.workers = 1 /\ end.request = one.request
        /\ ~one.retry => ~end.running /\ end.workers = 0 /\ end.shown # "none"
        /\ end.inCallback = one.inCallback /\ end.finishPending = one.finishPending
        /\ end.origin = one.origin
    BY <1>5, CompletedType
  <2>20. gone <=> (~end.running /\ end.workers = 0)
    OBVIOUS
  <2> HIDE DEF end, gone
  <2>3. /\ pool' \in Seq(Jobs)
        /\ ~one.retry => pool' = pool
        /\ one.retry => \E x \in Jobs : pool' = Append(pool, x) /\ x.op = "submission"
    BY <2>4, <1>5, RelaunchedType
  <2>5. sub' \in Lives /\ sub'.running = end.running /\ sub'.request = end.request
        /\ sub'.workers = end.workers
    BY <2>2, <2>4 DEF Lives, SomeTab
  <2>6. sub'.inCallback = end.inCallback /\ sub'.finishPending = end.finishPending
        /\ sub'.shown = end.shown
    BY <2>2, <2>4 DEF Lives, SomeTab
  <2>7. sub'.origin = IF gone THEN None ELSE end.origin
    BY <2>2, <2>4 DEF Lives, SomeTab
  <2>8. WindowTypes'
    BY <2>3, <2>5, <1>1, <1>2, <1>4 DEF WindowTypes
  <2>9. one.retry => win' = left
    <3>1. one.retry => end.workers # 0
      BY <2>2
    <3>2. one.retry => ~gone
      BY <3>1, <2>20
    <3> QED BY <3>2, <2>4
  <2>90. one.retry => sub'.origin = end.origin
    <3>1. one.retry => end.workers # 0
      BY <2>2
    <3> QED BY <3>1, <2>20, <2>7
  <2>10. ~one.retry => gone
    BY <2>2, <2>20
  <2>11. sub.retry =>
                /\ sub'.running = sub.running /\ sub'.request = sub.request /\ sub'.workers = 1
                /\ ~sub'.inCallback /\ sub'.finishPending = sub.finishPending
                /\ sub'.origin = sub.origin /\ win'.retired = win.retired
                /\ \E x \in Jobs : pool' = Append(pool, x) /\ x.op = "submission"
    BY <1>3, <1>5, <1>7, <2>2, <2>3, <2>5, <2>6, <2>7, <2>9, <2>90 DEF SameTabs
  <2>12. ~sub.retry =>
                /\ ~sub'.running /\ sub'.workers = 0 /\ sub'.shown # "none" /\ sub'.origin = None
                /\ ~sub'.inCallback /\ sub'.finishPending = sub.finishPending
                /\ UNCHANGED pool
    BY <1>5, <1>7, <2>2, <2>3, <2>5, <2>6, <2>7, <2>10
  <2> QED BY <1>7, <1>1, <1>2, <1>3, <1>4, <2>8, <2>11, <2>12 DEF left, Event
<1> QED BY <1>6, <1>7

\* The box of a submission.
LEMMA AnswerSubmissionType ==
    ASSUME WindowTypes, sub.request \in Asked, NEW yes \in BOOLEAN, AnswerSubmission(yes)
    PROVE  /\ WindowTypes'
           /\ stack # <<>> /\ stack' = Front(stack) /\ Last(stack).op = "submission" /\ ~win.closed
           /\ win' = Leave(win, Last(stack).context) /\ Last(stack).context \in Contexts
           /\ UNCHANGED <<tra, events, home, count>>
           /\ sub'.origin = sub.origin /\ ~sub'.inCallback /\ ~sub'.finishPending
           /\ ~sub.finishPending =>
                /\ UNCHANGED pool
                /\ sub'.running = sub.running /\ sub'.workers = sub.workers /\ sub'.request = sub.request
           /\ sub.finishPending =>
                \/ /\ sub'.running = sub.running /\ sub'.workers = 1 /\ sub'.request = sub.request
                   /\ \E x \in Jobs : pool' = Append(pool, x) /\ x.op = "submission"
                \/ /\ UNCHANGED pool
                   /\ ~sub'.running /\ sub'.workers = sub.workers /\ sub'.shown # "none"
<1>1. /\ stack # <<>> /\ stack' = Front(stack) /\ stack' \in Seq(Frames) /\ Last(stack) \in Frames
      /\ Last(stack).wait \in {"success", "failure", "trust"} /\ ~win.closed
      /\ Last(stack).context \in Contexts
  BY AnsweredType DEF AnswerSubmission
<1>2. Last(stack).op = "submission"
  BY <1>1 DEF Frames
<1>3. win' = Leave(win, Last(stack).context) /\ UNCHANGED <<tra, events, home, count>>
  BY DEF AnswerSubmission
<1>4. win' \in Windows
  BY <1>1, <1>3, LeaveType DEF WindowTypes
<1>5. PICK told \in BOOLEAN :
        LET wait == Last(stack).wait
            retries == wait = "trust" /\ yes
            after == [sub EXCEPT !.inCallback = FALSE, !.retry = retries,
                                 !.trusted = @ \/ retries,
                                 !.shown = IF told /\ ~retries THEN wait ELSE @] IN
        /\ ~told => wait # "trust"
        /\ sub' = Deferred(after)
        /\ pool' = IF after.finishPending THEN Relaunched(after) ELSE pool
  BY DEF AnswerSubmission
<1> DEFINE wait == Last(stack).wait
           retries == wait = "trust" /\ yes
           after == [sub EXCEPT !.inCallback = FALSE, !.retry = retries,
                                !.trusted = @ \/ retries,
                                !.shown = IF told /\ ~retries THEN wait ELSE @]
<1>6. retries \in BOOLEAN /\ (IF told /\ ~retries THEN wait ELSE sub.shown)
                               \in {"none", "success", "failure", "trust", "fallback"}
      /\ (sub.trusted \/ retries) \in BOOLEAN
  BY <1>1 DEF WindowTypes, Lives
<1>7. after \in Lives
  <2> HIDE DEF retries, wait
  <2> QED BY <1>6 DEF WindowTypes, Lives
<1>8. after.running = sub.running /\ after.request = sub.request /\ after.workers = sub.workers
      /\ after.origin = sub.origin
  BY DEF WindowTypes, Lives
<1>9. after.finishPending = sub.finishPending /\ after.inCallback = FALSE
  BY DEF WindowTypes, Lives
<1>10. sub' = Deferred(after) /\ pool' = IF after.finishPending THEN Relaunched(after) ELSE pool
  BY <1>5
<1> HIDE DEF after
<1>11. CASE ~sub.finishPending
  <2>1. sub' = after /\ pool' = pool
    BY <1>9, <1>10, <1>11 DEF Deferred
  <2>2. WindowTypes'
    BY <2>1, <1>1, <1>3, <1>4, <1>7 DEF WindowTypes
  <2> QED BY <2>1, <2>2, <1>1, <1>2, <1>3, <1>8, <1>9, <1>11
<1>12. CASE sub.finishPending
  <2> DEFINE cleared == [after EXCEPT !.finishPending = FALSE]
  <2>1. sub' = Completed(cleared) /\ pool' = Relaunched(after)
    BY <1>9, <1>10, <1>12 DEF Deferred
  <2>2. cleared \in Lives /\ cleared.running = after.running /\ cleared.request = after.request
        /\ cleared.workers = after.workers /\ cleared.origin = after.origin
    BY <1>7 DEF Lives
  <2>3. cleared.retry = after.retry /\ cleared.inCallback = after.inCallback /\ cleared.finishPending = FALSE
    BY <1>7 DEF Lives
  <2> HIDE DEF cleared
  <2>4. /\ Completed(cleared) \in Lives
        /\ cleared.retry => Completed(cleared).running = cleared.running /\ Completed(cleared).workers = 1
                            /\ Completed(cleared).request = cleared.request
        /\ ~cleared.retry => ~Completed(cleared).running /\ Completed(cleared).workers = cleared.workers
                             /\ Completed(cleared).shown # "none"
        /\ Completed(cleared).inCallback = cleared.inCallback
        /\ Completed(cleared).finishPending = cleared.finishPending
        /\ Completed(cleared).origin = cleared.origin
    BY <2>2, CompletedType
  <2>5. /\ pool' \in Seq(Jobs)
        /\ ~after.retry => pool' = pool
        /\ after.retry => \E x \in Jobs : pool' = Append(pool, x) /\ x.op = "submission"
    BY <2>1, <1>7, <1>8, RelaunchedType
  <2>6. WindowTypes'
    BY <2>1, <2>4, <2>5, <1>1, <1>3, <1>4 DEF WindowTypes
  <2>7. sub'.origin = sub.origin /\ ~sub'.inCallback /\ ~sub'.finishPending
    BY <2>1, <2>2, <2>3, <2>4, <1>8, <1>9
  <2>8. \/ /\ sub'.running = sub.running /\ sub'.workers = 1 /\ sub'.request = sub.request
           /\ \E x \in Jobs : pool' = Append(pool, x) /\ x.op = "submission"
        \/ /\ UNCHANGED pool
           /\ ~sub'.running /\ sub'.workers = sub.workers /\ sub'.shown # "none"
    BY <2>1, <2>2, <2>3, <2>4, <2>5, <1>8
  <2> QED BY <2>6, <2>7, <2>8, <1>1, <1>2, <1>3, <1>12
<1> QED BY <1>11, <1>12

\* The callbacks of the other operations show a box.
OtherOutcomes == PreflightEnds \/ Step4Ends \/ ExportEnds

LEMMA OtherOutcomeType ==
    ASSUME WindowTypes, OtherOutcomes
    PROVE  /\ WindowTypes'
           /\ events # <<>> /\ events' = Tail(events) /\ Head(events).op # "submission"
           /\ Head(events).signal # "finished" /\ ~win.closed
           /\ SameTabs(win', win)
           /\ \E f \in Frames : stack' = Append(stack, f) /\ f.op # "submission"
           /\ UNCHANGED <<sub, tra, pool, home, count>>
<1> DEFINE v == Enter(win, tra.origin)
<1>1. v \in Windows /\ SameTabs(v, win) /\ v.reg \in Docs /\ v.visible \in SomeTab
  BY EnterType DEF WindowTypes, Windows
<1>2. CASE PreflightEnds
  <2> DEFINE draft == IF v.visible = None THEN None ELSE v.tabs[v.visible].draft
             opens == Event.signal # "failed" /\ tra.running /\ (draft # None \/ v.reg.snap # None)
             data == [op |-> IF draft # None THEN "restart4" ELSE "step4",
                      project |-> IF draft # None THEN draft.project ELSE v.reg.snap.project,
                      maySubmit |-> Event.signal = "ok"]
  <2>1. /\ events # <<>> /\ events' = Tail(events) /\ events' \in Seq(Reports)
        /\ Event.op = "preflight" /\ Event.signal \in {"ok", "unavailable", "failed"} /\ ~win.closed
    BY <1>2, DeliveredType DEF PreflightEnds
  <2>2. IF opens THEN Box(v, "dialog", data) ELSE Box(v, "message", None)
    BY <1>2 DEF PreflightEnds
  <2>3. UNCHANGED <<sub, tra, pool, home, count>>
    BY <1>2 DEF PreflightEnds
  <2>4. opens => data \in Decisions
    <3> SUFFICES ASSUME opens PROVE data \in Decisions
      OBVIOUS
    <3>1. CASE draft # None
      <4>1. v.visible \in Tabs /\ draft = v.tabs[v.visible].draft
        BY <3>1, <1>1 DEF SomeTab
      <4>2. draft.project \in SomeProject
        BY <3>1, <4>1, <1>1, DraftProject
      <4> HIDE DEF draft
      <4> QED BY <3>1, <4>2 DEF Decisions
    <3>2. CASE draft = None
      <4>1. v.reg.snap.project \in SomeProject
        BY <3>2, <1>1 DEF Docs, Snaps
      <4> HIDE DEF draft
      <4> QED BY <3>2, <4>1 DEF Decisions
    <3> QED BY <3>1, <3>2
  <2> HIDE DEF opens, data, v
  <2>5. /\ win' \in Windows /\ stack' \in Seq(Frames) /\ win' = v
        /\ \E f \in Frames : stack' = Append(stack, f) /\ f.op = Event.op
    <3>1. CASE opens
      BY <3>1, <2>1, <2>2, <2>4, <1>1, BoxType
    <3>2. CASE ~opens
      BY <3>2, <2>1, <2>2, <1>1, BoxType DEF Ops
    <3> QED BY <3>1, <3>2
  <2>6. WindowTypes'
    BY <2>1, <2>3, <2>5 DEF WindowTypes
  <2> QED BY <2>1, <2>3, <2>5, <2>6, <1>1 DEF SameTabs, Event
<1>3. CASE Step4Ends
  <2> DEFINE submitted == Event.op = "step4" /\ Event.signal = "ok" /\ v.reg.snap # None
             restarted == /\ Event.op = "restart4" /\ Event.signal = "ok"
                          /\ v.visible # None /\ v.tabs[v.visible].draft # None
             snap == [project |-> Event.project, next |-> 0]
             draft == [project |-> Event.project, confirmed |-> FALSE]
             after == IF submitted THEN [v EXCEPT !.reg.snap = snap]
                      ELSE IF restarted THEN [v EXCEPT !.tabs[v.visible].draft = draft] ELSE v
  <2>1. /\ events # <<>> /\ events' = Tail(events) /\ events' \in Seq(Reports) /\ Event \in Reports
        /\ Event.op \in {"step4", "restart4"} /\ Event.signal \in {"ok", "failed"} /\ ~win.closed
    BY <1>3, DeliveredType DEF Step4Ends
  <2>2. Box(after, IF submitted THEN "step4" ELSE "message", None)
    BY <1>3 DEF Step4Ends
  <2>3. UNCHANGED <<sub, tra, pool, home, count>>
    BY <1>3 DEF Step4Ends
  <2>4. snap \in Snaps /\ draft \in Drafts
    BY <2>1 DEF Snaps, Drafts, Reports
  <2>5. after \in Windows /\ SameTabs(after, win)
    <3> HIDE DEF v, snap, draft
    <3>1. CASE submitted
      <4>1. [v.reg EXCEPT !.snap = snap] \in Docs
        BY <1>1, <2>4 DEF Docs
      <4>2. after = [v EXCEPT !.reg = [v.reg EXCEPT !.snap = snap]]
        BY <3>1
      <4> HIDE DEF after
      <4> QED BY <1>1, <4>1, <4>2, RegType DEF SameTabs
    <3>2. CASE ~submitted /\ restarted
      <4>1. v.visible \in Tabs
        BY <3>2, <1>1 DEF SomeTab
      <4>2. v.tabs \in [Tabs -> Contents] /\ v.tabs[v.visible] \in Contents
        BY <4>1, <1>1 DEF Windows
      <4>3. [v.tabs[v.visible] EXCEPT !.draft = draft] \in Contents
        BY <4>2, <2>4 DEF Contents
      <4>4. [v.tabs EXCEPT ![v.visible] = [v.tabs[v.visible] EXCEPT !.draft = draft]] \in [Tabs -> Contents]
        BY <4>1, <4>2, <4>3
      <4>5. after = [v EXCEPT !.tabs = [v.tabs EXCEPT ![v.visible] = [v.tabs[v.visible] EXCEPT !.draft = draft]]]
        BY <3>2
      <4> HIDE DEF after
      <4> QED BY <1>1, <4>4, <4>5 DEF Windows, SameTabs
    <3>3. CASE ~submitted /\ ~restarted
      BY <3>3, <1>1
    <3> QED BY <3>1, <3>2, <3>3
  <2>6. (IF submitted THEN "step4" ELSE "message") \in {"message", "step4"} /\ Event.op \in Ops \ {"submission"}
    BY <2>1 DEF Ops
  <2> HIDE DEF after, submitted
  <2>7. /\ win' \in Windows /\ stack' \in Seq(Frames) /\ win' = after
        /\ \E f \in Frames : stack' = Append(stack, f) /\ f.op = Event.op
    BY <2>2, <2>5, <2>6, BoxType
  <2>8. WindowTypes'
    BY <2>1, <2>3, <2>7 DEF WindowTypes
  <2> QED BY <2>1, <2>3, <2>5, <2>7, <2>8 DEF SameTabs, Event
<1>4. CASE ExportEnds
  <2>1. /\ events # <<>> /\ events' = Tail(events) /\ events' \in Seq(Reports)
        /\ Event.op = "export" /\ Event.signal \in {"ok", "failed"} /\ ~win.closed
    BY <1>4, DeliveredType DEF ExportEnds
  <2>2. Box(Enter(win, Event.origin), "message", None) /\ UNCHANGED <<sub, tra, pool, home, count>>
    BY <1>4 DEF ExportEnds
  <2>3. Enter(win, Event.origin) \in Windows /\ SameTabs(Enter(win, Event.origin), win)
    BY EnterType DEF WindowTypes
  <2>4. /\ win' \in Windows /\ stack' \in Seq(Frames) /\ win' = Enter(win, Event.origin)
        /\ \E f \in Frames : stack' = Append(stack, f) /\ f.op = Event.op
    BY <2>1, <2>2, <2>3, BoxType DEF Ops
  <2>5. WindowTypes'
    BY <2>1, <2>2, <2>4 DEF WindowTypes
  <2> QED BY <2>1, <2>2, <2>3, <2>4, <2>5 DEF SameTabs, Event
<1> QED BY <1>2, <1>3, <1>4 DEF OtherOutcomes

\* Their boxes are answered.
OtherAnswers == AnswerMessage \/ AnswerStep4Dialog(TRUE) \/ AnswerStep4Dialog(FALSE)

LEMMA OtherAnswerType ==
    ASSUME WindowTypes, OtherAnswers
    PROVE  /\ WindowTypes'
           /\ stack # <<>> /\ stack' = Front(stack) /\ Last(stack).op # "submission" /\ ~win.closed
           /\ SameTabs(win', win)
           /\ UNCHANGED <<sub, events, home, count>> /\ tra'.origin = tra.origin
           /\ \/ UNCHANGED <<pool, tra>>
              \/ /\ tra'.workers = tra.workers + 1
                 /\ \E x \in Jobs : pool' = Append(pool, x) /\ x.op \in Ops4
<1>1. CASE AnswerMessage
  <2>1. /\ stack # <<>> /\ stack' = Front(stack) /\ stack' \in Seq(Frames) /\ Last(stack) \in Frames
        /\ Last(stack).wait \in {"message", "step4"} /\ ~win.closed /\ Last(stack).context \in Contexts
    BY <1>1, AnsweredType DEF AnswerMessage
  <2>2. Last(stack).op # "submission"
    BY <2>1 DEF Frames
  <2>3. win' \in Windows /\ SameTabs(win', win)
    BY <1>1, <2>1, LeaveType DEF AnswerMessage, WindowTypes
  <2>4. WindowTypes' /\ UNCHANGED <<sub, tra, pool, events, home, count>>
    BY <1>1, <2>1, <2>3 DEF WindowTypes, AnswerMessage
  <2> QED BY <2>1, <2>2, <2>3, <2>4 DEF SameTabs
<1>2. ASSUME NEW accept \in BOOLEAN, AnswerStep4Dialog(accept)
      PROVE  /\ WindowTypes'
             /\ stack # <<>> /\ stack' = Front(stack) /\ Last(stack).op # "submission" /\ ~win.closed
             /\ SameTabs(win', win)
             /\ UNCHANGED <<sub, events, home, count>> /\ tra'.origin = tra.origin
             /\ \/ UNCHANGED <<pool, tra>>
                \/ /\ tra'.workers = tra.workers + 1
                   /\ \E x \in Jobs : pool' = Append(pool, x) /\ x.op \in Ops4
  <2>1. /\ stack # <<>> /\ stack' = Front(stack) /\ stack' \in Seq(Frames) /\ Last(stack) \in Frames
        /\ Last(stack).wait = "dialog" /\ ~win.closed /\ Last(stack).context \in Contexts
    BY <1>2, AnsweredType DEF AnswerStep4Dialog
  <2>2. Last(stack).op # "submission" /\ Last(stack).data \in Decisions
    BY <2>1 DEF Frames
  <2>3. win' \in Windows /\ SameTabs(win', win)
    BY <1>2, <2>1, LeaveType DEF AnswerStep4Dialog, WindowTypes
  <2>4. UNCHANGED <<sub, events, home, count>>
    BY <1>2 DEF AnswerStep4Dialog
  <2>5. CASE accept
    <3> DEFINE x == [op |-> Last(stack).data.op, project |-> Last(stack).data.project, origin |-> None]
    <3>1. pool' = Append(pool, x) /\ tra' = [tra EXCEPT !.workers = @ + 1]
      BY <1>2, <2>5 DEF AnswerStep4Dialog
    <3>2. x \in Jobs /\ x.op \in Ops4
      BY <2>2 DEF Decisions, Jobs, Ops, Ops4, SomeTab
    <3> HIDE DEF x
    <3>3. pool' \in Seq(Jobs)
      BY <3>1, <3>2, AppendedTo DEF WindowTypes
    <3>4. tra' \in Lives4 /\ tra'.workers = tra.workers + 1 /\ tra'.origin = tra.origin
      BY <3>1 DEF WindowTypes, Lives4
    <3>5. WindowTypes'
      BY <2>1, <2>3, <2>4, <3>3, <3>4 DEF WindowTypes
    <3> QED BY <2>1, <2>2, <2>3, <2>4, <3>1, <3>2, <3>4, <3>5 DEF SameTabs
  <2>6. CASE ~accept
    <3>1. UNCHANGED <<pool, tra>>
      BY <1>2, <2>6 DEF AnswerStep4Dialog
    <3>2. WindowTypes'
      BY <2>1, <2>3, <2>4, <3>1 DEF WindowTypes
    <3> QED BY <2>1, <2>2, <2>3, <2>4, <3>1, <3>2 DEF SameTabs
  <2> QED BY <2>5, <2>6
<1> QED BY <1>1, <1>2 DEF OtherAnswers

\* _routed_transport_worker_finished.
LEMMA TransportFinishedType ==
    ASSUME WindowTypes, tra.workers # 0, TransportFinished
    PROVE  /\ WindowTypes'
           /\ events # <<>> /\ events' = Tail(events) /\ Head(events).op \in Ops4
           /\ Head(events).signal = "finished" /\ ~win.closed
           /\ win'.open = win.open /\ win'.closed = win.closed /\ win'.visible = win.visible
           /\ (win'.retired = win.retired
               \/ (tra.origin # sub.origin /\ win'.retired = win.retired \ {tra.origin}))
           /\ UNCHANGED <<sub, pool, stack, home, count>>
           /\ tra'.workers = tra.workers - 1
<1> DEFINE last == tra.workers = 1
           left == Leave(Enter(win, tra.origin), Context(win, tra.origin))
<1>1. /\ events # <<>> /\ events' = Tail(events) /\ events' \in Seq(Reports)
      /\ Event.op \in Ops4 /\ Event.signal = "finished" /\ ~win.closed
  BY DeliveredType DEF TransportFinished, Ops4
<1>2. /\ tra' = IF last THEN [running |-> FALSE, origin |-> None, project |-> None, workers |-> 0]
                ELSE [tra EXCEPT !.workers = @ - 1]
      /\ win' = IF last THEN Release(left, tra.origin, {sub.origin}) ELSE left
      /\ UNCHANGED <<sub, pool, stack, home, count>>
  BY DEF TransportFinished
<1>3. left \in Windows /\ SameTabs(left, win)
  <2>1. Enter(win, tra.origin) \in Windows /\ SameTabs(Enter(win, tra.origin), win)
    BY EnterType DEF WindowTypes
  <2>2. Context(win, tra.origin) \in Contexts
    BY ContextType DEF WindowTypes
  <2> QED BY <2>1, <2>2, LeaveType DEF SameTabs
<1> HIDE DEF left
<1>40. left.open = win.open /\ left.retired = win.retired
  BY <1>3 DEF SameTabs
<1>41. left.closed = win.closed /\ left.visible = win.visible
  BY <1>3 DEF SameTabs
<1>42. ASSUME last
      PROVE  /\ win' \in Windows /\ win'.open = win.open /\ win'.closed = win.closed /\ win'.visible = win.visible
             /\ (win'.retired = win.retired
                 \/ (tra.origin # sub.origin /\ win'.retired = win.retired \ {tra.origin}))
  <2> DEFINE r == Release(left, tra.origin, {sub.origin})
  <2>1. r \in Windows /\ r.open = left.open
    BY <1>3, ReleaseType
  <2>2. r.closed = left.closed /\ r.visible = left.visible
    BY <1>3, ReleaseType
  <2>3. r.retired \in {left.retired, left.retired \ {tra.origin}}
    BY <1>3, ReleaseType
  <2>4. tra.origin \in {sub.origin} => r = left
    BY <1>3, ReleaseType
  <2>5. win' = r
    BY <1>42, <1>2
  <2> HIDE DEF r
  <2>6. win'.closed = win.closed /\ win'.visible = win.visible
    BY <2>2, <2>5, <1>41
  <2>7. (win'.retired = win.retired
         \/ (tra.origin # sub.origin /\ win'.retired = win.retired \ {tra.origin}))
    <3>1. CASE tra.origin = sub.origin
      <4>1. r = left
        BY <3>1, <2>4
      <4> QED BY <4>1, <2>5, <1>40
    <3>2. CASE tra.origin # sub.origin
      BY <3>2, <2>3, <2>5, <1>40
    <3> QED BY <3>1, <3>2
  <2>8. win' \in Windows /\ win'.open = win.open
    BY <2>1, <2>5, <1>40
  <2> QED BY <2>6, <2>7, <2>8
<1>43. ASSUME ~last
      PROVE  /\ win' \in Windows /\ win'.open = win.open /\ win'.closed = win.closed /\ win'.visible = win.visible
             /\ (win'.retired = win.retired
                 \/ (tra.origin # sub.origin /\ win'.retired = win.retired \ {tra.origin}))
  <2>1. win' = left
    BY <1>43, <1>2
  <2>2. win'.closed = win.closed /\ win'.visible = win.visible
    BY <2>1, <1>41
  <2>3. win' \in Windows /\ win'.open = win.open /\ win'.retired = win.retired
    BY <2>1, <1>3, <1>40
  <2> QED BY <2>2, <2>3
<1>4. /\ win' \in Windows /\ win'.open = win.open /\ win'.closed = win.closed /\ win'.visible = win.visible
      /\ (win'.retired = win.retired
          \/ (tra.origin # sub.origin /\ win'.retired = win.retired \ {tra.origin}))
  BY <1>42, <1>43
<1>5. tra' \in Lives4 /\ tra'.workers = tra.workers - 1
  <2>1. tra \in Lives4 /\ tra.workers \in Nat \ {0} /\ tra.workers - 1 \in Nat
    BY DEF WindowTypes, Lives4
  <2> QED BY <2>1, <1>2 DEF Lives4, SomeTab, SomeProject
<1>6. WindowTypes'
  BY <1>1, <1>2, <1>4, <1>5 DEF WindowTypes
<1> QED BY <1>1, <1>2, <1>4, <1>5, <1>6 DEF Event

LEMMA ExportFinishedType ==
    ASSUME WindowTypes, ExportFinished
    PROVE  /\ WindowTypes'
           /\ events # <<>> /\ events' = Tail(events) /\ Head(events).op = "export"
           /\ UNCHANGED <<win, sub, tra, pool, stack, home, count>>
<1>1. /\ events # <<>> /\ events' = Tail(events) /\ events' \in Seq(Reports) /\ Event.op = "export"
  BY DeliveredType DEF ExportFinished
<1> QED BY <1>1 DEF ExportFinished, WindowTypes, Event

----------------------------------------------------------------------------
(* Counting the workers of Step 4.                                         *)

LEMMA IndexSet ==
    ASSUME NEW n \in Nat, NEW A \in SUBSET (1..n)
    PROVE  /\ IsFiniteSet(A) /\ Cardinality(A) \in Nat
           /\ IsFiniteSet(A \cup {n + 1}) /\ Cardinality(A \cup {n + 1}) = Cardinality(A) + 1
           /\ Cardinality(A) = 0 <=> A = {}
<1>1. IsFiniteSet(1..n)
  BY FS_Interval
<1>2. IsFiniteSet(A)
  BY <1>1, FS_Subset
<1>3. n + 1 \notin A
  OBVIOUS
<1> QED BY <1>2, <1>3, FS_AddElement, FS_CardinalityType, FS_EmptySet

\* The indices of a queue move down by one when its head is taken.
LEMMA Shifted ==
    ASSUME NEW n \in Nat \ {0}, NEW A \in SUBSET (1..n), NEW B \in SUBSET (1..(n - 1)),
           \A i \in 1..(n - 1) : i \in B <=> i + 1 \in A
    PROVE  /\ Cardinality(A) \in Nat /\ Cardinality(B) \in Nat
           /\ Cardinality(A) = IF 1 \in A THEN Cardinality(B) + 1 ELSE Cardinality(B)
<1> DEFINE C == A \ {1}
           f == [i \in B |-> i + 1]
<1>1. /\ IsFiniteSet(A) /\ Cardinality(A) \in Nat /\ n - 1 \in Nat
      /\ IsFiniteSet(B) /\ Cardinality(B) \in Nat
  <2>1. n - 1 \in Nat /\ n \in Nat
    OBVIOUS
  <2>2. IsFiniteSet(A) /\ Cardinality(A) \in Nat
    BY <2>1, IndexSet
  <2> DEFINE m == n - 1
  <2>3. m \in Nat /\ B \in SUBSET (1..m)
    BY <2>1
  <2> HIDE DEF m
  <2>4. IsFiniteSet(B) /\ Cardinality(B) \in Nat
    BY <2>3, IndexSet
  <2> QED BY <2>1, <2>2, <2>4
<1>2. f \in Bijection(B, C)
  <2>1. f \in [B -> C]
    <3>1. \A i \in B : i + 1 \in C
      OBVIOUS
    <3> HIDE DEF C
    <3> QED BY <3>1
  <2>2. \A i, k \in B : f[i] = f[k] => i = k
    OBVIOUS
  <2>3. \A c \in C : \E i \in B : f[i] = c
    <3>1. ASSUME NEW c \in C PROVE \E i \in B : f[i] = c
      <4>1. c \in 1..n /\ c # 1 /\ c - 1 \in 1..(n - 1) /\ c - 1 + 1 = c /\ c \in A
        OBVIOUS
      <4>2. c - 1 \in B
        BY <4>1
      <4> QED BY <4>1, <4>2
    <3> QED BY <3>1
  <2> HIDE DEF f, C
  <2> QED BY <2>1, <2>2, <2>3 DEF Bijection, Injection, Surjection, IsInjective
<1>3. Cardinality(C) = Cardinality(B)
  <2>1. ExistsBijection(B, C)
    BY <1>2 DEF ExistsBijection
  <2> QED BY <2>1, <1>1, FS_Bijection
<1>4. Cardinality(C) = IF 1 \in A THEN Cardinality(A) - 1 ELSE Cardinality(A)
  BY <1>1, FS_RemoveElement
<1> HIDE DEF C
<1> QED BY <1>1, <1>3, <1>4

LEMMA Of4Appended ==
    ASSUME NEW S, NEW q \in Seq(S), NEW x \in S
    PROVE  /\ Cardinality(Of4(q)) \in Nat
           /\ Cardinality(Of4(Append(q, x))) =
                IF x.op \in Ops4 THEN Cardinality(Of4(q)) + 1 ELSE Cardinality(Of4(q))
<1> DEFINE a == Append(q, x)
           n == Len(q)
<1>1. /\ DOMAIN q = 1..n /\ DOMAIN a = 1..(n + 1) /\ a[n + 1] = x /\ n \in Nat
      /\ \A i \in 1..n : a[i] = q[i]
  BY AppendedTo
<1> HIDE DEF a, n
<1>2. Of4(q) \in SUBSET (1..n)
  BY <1>1 DEF Of4
<1>3. Cardinality(Of4(q)) \in Nat /\ Cardinality(Of4(q) \cup {n + 1}) = Cardinality(Of4(q)) + 1
  BY <1>1, <1>2, IndexSet
<1>4. \A i \in DOMAIN a : i \in DOMAIN q \/ i = n + 1
  BY <1>1
<1>5. x.op \in Ops4 => Of4(a) = Of4(q) \cup {n + 1}
  BY <1>1, <1>4 DEF Of4
<1>6. x.op \notin Ops4 => Of4(a) = Of4(q)
  BY <1>1, <1>4 DEF Of4
<1> QED BY <1>3, <1>5, <1>6 DEF a

LEMMA Of4Taken ==
    ASSUME NEW S, NEW q \in Seq(S), q # <<>>
    PROVE  /\ Cardinality(Of4(Tail(q))) \in Nat
           /\ Cardinality(Of4(q)) = IF Head(q).op \in Ops4 THEN Cardinality(Of4(Tail(q))) + 1
                                    ELSE Cardinality(Of4(Tail(q)))
<1> DEFINE a == Tail(q)
           n == Len(q)
<1>1. /\ DOMAIN q = 1..n /\ DOMAIN a = 1..(n - 1) /\ Head(q) = q[1] /\ n \in Nat \ {0}
      /\ \A i \in 1..(n - 1) : a[i] = q[i + 1]
  BY TailOf
<1> HIDE DEF a, n
<1>2. Of4(q) \in SUBSET (1..n) /\ Of4(a) \in SUBSET (1..(n - 1))
  BY <1>1 DEF Of4
<1>3. \A i \in 1..(n - 1) : i \in Of4(a) <=> i + 1 \in Of4(q)
  BY <1>1 DEF Of4
<1>4. 1 \in Of4(q) <=> Head(q).op \in Ops4
  BY <1>1 DEF Of4
<1>5. /\ Cardinality(Of4(a)) \in Nat
      /\ Cardinality(Of4(q)) = IF 1 \in Of4(q) THEN Cardinality(Of4(a)) + 1 ELSE Cardinality(Of4(a))
  BY <1>1, <1>2, <1>3, Shifted
<1> QED BY <1>4, <1>5 DEF a

LEMMA Ends4Reported ==
    ASSUME NEW S, NEW q \in Seq(S), NEW x \in S, NEW y \in S, x.op = y.op,
           x.signal # "finished", y.signal = "finished"
    PROVE  /\ Cardinality(Ends4(q)) \in Nat
           /\ Cardinality(Ends4(q \o <<x, y>>)) =
                IF x.op \in Ops4 THEN Cardinality(Ends4(q)) + 1 ELSE Cardinality(Ends4(q))
<1> DEFINE a == q \o <<x, y>>
           n == Len(q)
<1>1. /\ DOMAIN q = 1..n /\ DOMAIN a = 1..(n + 2) /\ a[n + 1] = x /\ a[n + 2] = y /\ n \in Nat
      /\ \A i \in 1..n : a[i] = q[i]
  BY TwoAppendedTo
<1> HIDE DEF a, n
<1>2. Ends4(q) \in SUBSET (1..n) /\ Ends4(q) \in SUBSET (1..(n + 1)) /\ n + 1 \in Nat /\ (n + 1) + 1 = n + 2
  BY <1>1 DEF Ends4
<1>3. Cardinality(Ends4(q)) \in Nat /\ Cardinality(Ends4(q) \cup {n + 2}) = Cardinality(Ends4(q)) + 1
  <2>1. Cardinality(Ends4(q) \cup {(n + 1) + 1}) = Cardinality(Ends4(q)) + 1
    BY <1>2, IndexSet
  <2> QED BY <2>1, <1>1, <1>2, IndexSet
<1>4. \A i \in DOMAIN a : i \in DOMAIN q \/ i = n + 1 \/ i = n + 2
  BY <1>1
<1>5. x.op \in Ops4 => Ends4(a) = Ends4(q) \cup {n + 2}
  BY <1>1, <1>4 DEF Ends4
<1>6. x.op \notin Ops4 => Ends4(a) = Ends4(q)
  BY <1>1, <1>4 DEF Ends4
<1> QED BY <1>3, <1>5, <1>6 DEF a

LEMMA Ends4Delivered ==
    ASSUME NEW S, NEW q \in Seq(S), q # <<>>
    PROVE  /\ Cardinality(Ends4(Tail(q))) \in Nat
           /\ Cardinality(Ends4(q)) =
                IF Head(q).op \in Ops4 /\ Head(q).signal = "finished"
                THEN Cardinality(Ends4(Tail(q))) + 1 ELSE Cardinality(Ends4(Tail(q)))
<1> DEFINE a == Tail(q)
           n == Len(q)
<1>1. /\ DOMAIN q = 1..n /\ DOMAIN a = 1..(n - 1) /\ Head(q) = q[1] /\ n \in Nat \ {0}
      /\ \A i \in 1..(n - 1) : a[i] = q[i + 1]
  BY TailOf
<1> HIDE DEF a, n
<1>2. Ends4(q) \in SUBSET (1..n) /\ Ends4(a) \in SUBSET (1..(n - 1))
  BY <1>1 DEF Ends4
<1>3. \A i \in 1..(n - 1) : i \in Ends4(a) <=> i + 1 \in Ends4(q)
  BY <1>1 DEF Ends4
<1>4. 1 \in Ends4(q) <=> Head(q).op \in Ops4 /\ Head(q).signal = "finished"
  BY <1>1 DEF Ends4
<1>5. /\ Cardinality(Ends4(a)) \in Nat
      /\ Cardinality(Ends4(q)) = IF 1 \in Ends4(q) THEN Cardinality(Ends4(a)) + 1 ELSE Cardinality(Ends4(a))
  BY <1>1, <1>2, <1>3, Shifted
<1> QED BY <1>4, <1>5 DEF a

LEMMA EndsCounted == ASSUME NEW S, NEW q \in Seq(S) PROVE Cardinality(Ends4(q)) \in Nat
<1>1. Len(q) \in Nat /\ Ends4(q) \in SUBSET (1..Len(q))
  BY DEF Ends4
<1> QED BY <1>1, IndexSet

LEMMA Of4Counted ==
    ASSUME NEW S, NEW q \in Seq(S)
    PROVE  Cardinality(Of4(q)) \in Nat /\ (Cardinality(Of4(q)) = 0 <=> Of4(q) = {})
<1>1. Len(q) \in Nat /\ Of4(q) \in SUBSET (1..Len(q))
  BY DEF Of4
<1> QED BY <1>1, IndexSet

----------------------------------------------------------------------------
(* Every action keeps the invariant.                                       *)

\* A step that leaves the submission alone and neither adds nor takes anything of it.
LEMMA SubmissionUndisturbed ==
    ASSUME Lifecycle, UNCHANGED <<sub, home>>,
           Absent(pool) => Absent(pool'), Lone(pool) => Lone(pool'),
           Absent(events) => Absent(events'), EndTo(events) => EndTo(events'),
           BothTo(events) => BothTo(events'),
           Absent(stack) => Absent(stack'), Lone(stack) => Lone(stack')
    PROVE  Lifecycle'
BY DEF Lifecycle, Resting, AtWork, HasEnded, InBox, BoxAnswered, EndDeferred

\* What the user does to the tabs.
TabSteps ==
    \/ Opens \/ \E w \in Tabs \cup {None} : SwitchTab(w) \/ CloseTab(w)
    \/ Touch
    \/ \E p \in Projects, next \in {0} \cup Steps, terminal \in BOOLEAN : SnapshotUpdated(p, next, terminal)

LEMMA TabStepType ==
    ASSUME WindowTypes, TabSteps
    PROVE  WindowTypes' /\ OriginKept /\ ~win.closed /\ UNCHANGED <<sub, tra, pool, events, stack, home>>
<1>1. CASE Opens
  BY <1>1, OpensType
<1>4. ASSUME NEW w \in Tabs \cup {None}, SwitchTab(w) \/ CloseTab(w)
      PROVE  WindowTypes' /\ OriginKept /\ ~win.closed /\ UNCHANGED <<sub, tra, pool, events, stack, home>>
  <2>1. WindowTypes' /\ OriginKept
    BY <1>4, SwitchTabType, CloseTabType
  <2> QED BY <2>1, <1>4 DEF SwitchTab, CloseTab, UserMayAct
<1>5. CASE Touch
  BY <1>5, TouchType DEF Touch, UserMayAct
<1>6. ASSUME NEW p \in Projects, NEW next \in {0} \cup Steps, NEW terminal \in BOOLEAN,
             SnapshotUpdated(p, next, terminal)
      PROVE  WindowTypes' /\ OriginKept /\ ~win.closed /\ UNCHANGED <<sub, tra, pool, events, stack, home>>
  <2>1. WindowTypes' /\ OriginKept
    BY <1>6, SnapshotUpdatedType
  <2> QED BY <2>1, <1>6 DEF SnapshotUpdated
<1> QED BY <1>1, <1>4, <1>5, <1>6 DEF TabSteps

LEMMA TabStepKeeps == ASSUME MainInv, TabSteps PROVE MainInv'
<1>1. WindowTypes' /\ OriginKept /\ ~win.closed /\ UNCHANGED <<sub, tra, pool, events, stack, home>>
  BY TabStepType DEF MainInv
<1>2. Lifecycle'
  BY <1>1, SubmissionUndisturbed DEF MainInv
<1>3. Counted4' /\ ClosedIdle'
  BY <1>1 DEF MainInv, Counted4, ClosedIdle, OriginKept
<1>4. AtHome'
  BY <1>1 DEF MainInv, AtHome, OriginKept
<1> QED BY <1>1, <1>2, <1>3, <1>4 DEF MainInv

\* Operations are started.
LEMMA SubmissionKeeps == ASSUME MainInv, Submissions PROVE MainInv'
<1>1. UserMayAct
  BY SubmissionStarts DEF MainInv
<1>2. PICK project \in SomeProject, step \in 0..3 : StartSubmission(project, step)
  BY SubmissionStarts DEF MainInv
<1>3. WindowTypes'
  BY <1>2, StartSubmissionType DEF MainInv
<1>4. win \in Windows /\ sub \in Lives /\ pool \in Seq(Jobs) /\ win.visible \in SomeTab
      /\ home \in [{"submission", "transport"} -> SomeTab]
  BY DEF MainInv, WindowTypes, Windows
<1>5. /\ win'.open = win.open /\ win'.retired = win.retired /\ win'.closed = win.closed
      /\ win'.visible = win.visible
  BY <1>2, <1>4 DEF StartSubmission, Windows
<1>6. UNCHANGED <<tra, events, stack>> /\ ~sub.running /\ home' = [home EXCEPT !["submission"] = win.visible]
      /\ sub'.running /\ sub'.workers = 1 /\ ~sub'.inCallback /\ ~sub'.finishPending
      /\ sub'.origin = win.visible /\ sub'.request \in Asked
  <2>1. [project |-> project, step |-> step] \in Asked
    BY DEF Asked
  <2> QED BY <1>2, <2>1 DEF StartSubmission, Idle
<1>7. Resting
  BY <1>6 DEF MainInv, Lifecycle, AtWork, HasEnded, InBox, BoxAnswered, EndDeferred
<1>8. PICK x \in Jobs : pool' = Append(pool, x) /\ x.op = "submission"
  <2>1. Worker("submission", project) \in Jobs /\ Worker("submission", project).op = "submission"
    BY <1>4 DEF Worker, Jobs, Ops
  <2> QED BY <1>2, <2>1 DEF StartSubmission
<1>9. Lifecycle'
  <2>1. Lone(pool')
    BY <1>4, <1>7, <1>8, SubmissionAppended DEF Resting
  <2>2. AtWork'
    BY <2>1, <1>6, <1>7 DEF AtWork, Resting
  <2> QED BY <2>2, <1>6 DEF Lifecycle
<1>10. Counted4'
  <2>1. x.op \notin Ops4
    BY <1>8 DEF Ops4
  <2>2. Cardinality(Of4(pool')) = Cardinality(Of4(pool))
    BY <2>1, <1>4, <1>8, Of4Appended
  <2> QED BY <2>2, <1>6 DEF MainInv, Counted4
<1>11. ClosedIdle'
  BY <1>1, <1>5 DEF ClosedIdle, UserMayAct
<1>12. AtHome'
  <2>1. home'["submission"] = win.visible
    BY <1>4, <1>6
  <2>2. stack' = <<>>
    BY <1>1, <1>6 DEF UserMayAct
  <2> QED BY <2>1, <2>2, <1>5, <1>6 DEF MainInv, AtHome
<1> QED BY <1>3, <1>9, <1>10, <1>11, <1>12 DEF MainInv

LEMMA PreflightKeeps == ASSUME MainInv, Preflights PROVE MainInv'
<1>1. UserMayAct
  BY PreflightStarts DEF MainInv
<1>2. PICK project \in SomeProject : StartPreflight(project)
  BY PreflightStarts DEF MainInv
<1>3. WindowTypes'
  BY <1>2, StartPreflightType DEF MainInv
<1>4. win \in Windows /\ tra \in Lives4 /\ pool \in Seq(Jobs) /\ events \in Seq(Reports)
      /\ win.visible \in SomeTab /\ home \in [{"submission", "transport"} -> SomeTab]
  BY DEF MainInv, WindowTypes, Windows
<1>5. /\ UNCHANGED <<win, sub, events, stack>> /\ tra'.workers = tra.workers + 1
      /\ home' = [home EXCEPT !["transport"] = win.visible] /\ ~sub.running
  BY <1>2 DEF StartPreflight
<1>6. PICK x \in Jobs : pool' = Append(pool, x) /\ x.op = "preflight"
  <2>1. Worker("preflight", project) \in Jobs /\ Worker("preflight", project).op = "preflight"
    BY <1>4 DEF Worker, Jobs, Ops
  <2> QED BY <1>2, <2>1 DEF StartPreflight
<1>7. home'["submission"] = home["submission"]
  BY <1>4, <1>5
<1>8. Lifecycle'
  <2>1. Resting
    BY <1>5 DEF MainInv, Lifecycle, AtWork, HasEnded, InBox, BoxAnswered, EndDeferred
  <2>2. Absent(pool')
    BY <2>1, <1>4, <1>6, SubmissionAppended DEF Resting
  <2>3. Resting'
    BY <2>1, <2>2, <1>5 DEF Resting
  <2> QED BY <2>3, <1>5, <1>7 DEF MainInv, Lifecycle
<1>9. Counted4'
  <2>1. x.op \in Ops4
    BY <1>6 DEF Ops4
  <2>2. Cardinality(Of4(pool')) = Cardinality(Of4(pool)) + 1 /\ Cardinality(Of4(pool)) \in Nat
    BY <2>1, <1>4, <1>6, Of4Appended
  <2>3. Cardinality(Ends4(events)) \in Nat
    BY <1>4, EndsCounted
  <2> QED BY <2>2, <2>3, <1>5 DEF MainInv, Counted4
<1>10. ClosedIdle'
  BY <1>1, <1>5 DEF ClosedIdle, UserMayAct
<1>11. AtHome'
  BY <1>5, <1>7 DEF MainInv, AtHome
<1> QED BY <1>3, <1>8, <1>9, <1>10, <1>11 DEF MainInv

LEMMA ExportInputsKeeps == ASSUME MainInv, ExportInputs PROVE MainInv'
<1>1. WindowTypes'
  BY ExportInputsType DEF MainInv
<1>2. UserMayAct /\ UNCHANGED <<win, sub, tra, events, stack, home>>
  BY DEF ExportInputs, Writable, Active
<1>3. pool \in Seq(Jobs) /\ Worker("export", None) \in Jobs /\ Worker("export", None).op = "export"
      /\ pool' = Append(pool, Worker("export", None))
  BY DEF MainInv, WindowTypes, Windows, ExportInputs, Worker, Jobs, Ops, SomeProject
<1>4. Lifecycle'
  <2>1. (Absent(pool) => Absent(pool')) /\ (Lone(pool) => Lone(pool'))
    BY <1>3, SubmissionAppended
  <2> QED BY <2>1, <1>2, SubmissionUndisturbed DEF MainInv
<1>5. Counted4'
  <2>1. Worker("export", None).op \notin Ops4
    BY <1>3 DEF Ops4
  <2>2. Cardinality(Of4(pool')) = Cardinality(Of4(pool))
    BY <2>1, <1>3, Of4Appended
  <2> QED BY <2>2, <1>2 DEF MainInv, Counted4
<1>6. ClosedIdle' /\ AtHome'
  BY <1>2 DEF MainInv, ClosedIdle, AtHome, UserMayAct
<1> QED BY <1>1, <1>4, <1>5, <1>6 DEF MainInv

\* A worker ends.
LEMMA WorkerEndsKeeps ==
    ASSUME MainInv, NEW what \in {"ok", "failed", "unknownHost", "unavailable"}, WorkerEnds(what)
    PROVE  MainInv'
<1>1. WindowTypes' /\ pool # <<>> /\ pool' = Tail(pool)
  BY WorkerEndsType DEF MainInv
<1>2. PICK x, y \in Reports :
        /\ events' = events \o <<x, y>> /\ x.op = Head(pool).op /\ y.op = Head(pool).op
        /\ x.signal = what /\ y.signal = "finished"
  BY WorkerEndsType DEF MainInv
<1>3. UNCHANGED <<win, sub, tra, stack, home>> /\ ~win.closed
  BY DEF WorkerEnds
<1>4. pool \in Seq(Jobs) /\ events \in Seq(Reports) /\ x.signal # "finished"
  BY <1>2 DEF MainInv, WindowTypes
<1>5. /\ x.op # "submission" =>
           /\ Absent(events) => Absent(events')
           /\ EndTo(events) => EndTo(events')
           /\ BothTo(events) => BothTo(events')
      /\ x.op = "submission" /\ Absent(events) => BothTo(events')
  BY <1>2, <1>4, SubmissionReported
<1>6. /\ x.op # "submission" =>
           /\ Absent(pool) => Absent(pool')
           /\ Lone(pool) => Lone(pool')
      /\ x.op = "submission" =>
           /\ ~Absent(pool)
           /\ Lone(pool) => Absent(pool')
  BY <1>1, <1>2, <1>4, SubmissionDelivered
<1>7. Lifecycle'
  <2>1. CASE x.op # "submission"
    BY <2>1, <1>3, <1>5, <1>6, SubmissionUndisturbed DEF MainInv
  <2>2. CASE x.op = "submission"
    <3>1. AtWork
      BY <2>2, <1>6 DEF MainInv, Lifecycle, Resting, HasEnded, InBox, BoxAnswered, EndDeferred
    <3>2. HasEnded'
      BY <3>1, <2>2, <1>3, <1>5, <1>6 DEF AtWork, HasEnded
    <3> QED BY <3>2, <1>3 DEF MainInv, Lifecycle
  <2> QED BY <2>1, <2>2
<1>8. Counted4'
  <2>1. /\ Cardinality(Of4(pool')) \in Nat
        /\ Cardinality(Of4(pool)) = IF x.op \in Ops4 THEN Cardinality(Of4(pool')) + 1
                                    ELSE Cardinality(Of4(pool'))
    BY <1>1, <1>2, <1>4, Of4Taken
  <2>2. /\ Cardinality(Ends4(events)) \in Nat
        /\ Cardinality(Ends4(events')) = IF x.op \in Ops4 THEN Cardinality(Ends4(events)) + 1
                                         ELSE Cardinality(Ends4(events))
    <3>1. x.op = y.op /\ x.signal # "finished" /\ y.signal = "finished"
      BY <1>2, <1>4
    <3>2. /\ Cardinality(Ends4(events)) \in Nat
          /\ Cardinality(Ends4(events \o <<x, y>>)) =
               IF x.op \in Ops4 THEN Cardinality(Ends4(events)) + 1 ELSE Cardinality(Ends4(events))
      BY <3>1, <1>4, Ends4Reported
    <3> QED BY <3>2, <1>2
  <2>3. tra.workers = Cardinality(Of4(pool)) + Cardinality(Ends4(events))
    BY DEF MainInv, Counted4
  <2>4. tra.workers = Cardinality(Of4(pool')) + Cardinality(Ends4(events'))
    BY <2>1, <2>2, <2>3
  <2> QED BY <2>4, <1>3 DEF Counted4
<1>9. ClosedIdle' /\ AtHome'
  BY <1>3 DEF MainInv, ClosedIdle, AtHome
<1> QED BY <1>1, <1>7, <1>8, <1>9 DEF MainInv

\* The window is closed: nothing is left to run.
LEMMA CloseWindowKeeps == ASSUME MainInv, CloseWindow PROVE MainInv'
<1>1. WindowTypes'
  BY CloseWindowType DEF MainInv
<1>2. UNCHANGED <<sub, tra, pool, events, stack, home>> /\ MayClose
  BY DEF CloseWindow
<1>3. /\ win'.open = win.open /\ win'.retired = win.retired /\ win'.visible = win.visible
  BY DEF CloseWindow, MainInv, WindowTypes, Windows
<1>4. pool = <<>>
  <2>1. ~sub.running /\ ~(tra.workers > 0) /\ \A i \in DOMAIN pool : pool[i].op # "export"
    BY <1>2 DEF MayClose, RemoteOperation
  <2>2. Absent(pool)
    BY <2>1 DEF MainInv, Lifecycle, Resting, AtWork, HasEnded, InBox, BoxAnswered, EndDeferred
  <2>3. pool \in Seq(Jobs) /\ events \in Seq(Reports) /\ tra.workers = 0
    BY <2>1 DEF MainInv, WindowTypes, Lives4
  <2>4. Cardinality(Of4(pool)) \in Nat /\ Cardinality(Ends4(events)) \in Nat
        /\ (Cardinality(Of4(pool)) = 0 <=> Of4(pool) = {})
    BY <2>3, EndsCounted, Of4Counted
  <2>5. Of4(pool) = {}
    BY <2>3, <2>4 DEF MainInv, Counted4
  <2>6. \A i \in DOMAIN pool : pool[i].op \in Ops
    <3>1. \A i \in DOMAIN pool : pool[i] \in Jobs
      BY <2>3
    <3> QED BY <3>1 DEF Jobs
  <2>7. DOMAIN pool = {}
    BY <2>1, <2>2, <2>5, <2>6 DEF Absent, Of4, Ops, Ops4
  <2> QED BY <2>3, <2>7
<1>5. Lifecycle'
  BY <1>2, SubmissionUndisturbed DEF MainInv
<1>6. Counted4' /\ ClosedIdle' /\ AtHome'
  BY <1>2, <1>3, <1>4 DEF MainInv, Counted4, ClosedIdle, AtHome
<1> QED BY <1>1, <1>5, <1>6 DEF MainInv

\* The outcome of a submission is delivered, and then its end.
LEMMA OutcomeKeeps == ASSUME MainInv, SubmissionSucceeded \/ SubmissionFailed PROVE MainInv'
<1>1. events # <<>> /\ Head(events).op = "submission"
  <2>1. Delivered({"submission"}, {"ok"}) \/ Delivered({"submission"}, {"failed", "unknownHost"})
    BY DEF SubmissionSucceeded, SubmissionFailed
  <2> QED BY <2>1 DEF Delivered, Event
<1>2. pool \in Seq(Jobs) /\ events \in Seq(Reports) /\ stack \in Seq(Frames) /\ sub \in Lives /\ win \in Windows
  BY DEF MainInv, WindowTypes
<1>3. /\ ~Absent(events)
      /\ EndTo(events) => Head(events).signal = "finished"
      /\ BothTo(events) => EndTo(Tail(events)) /\ Head(events).signal # "finished"
  BY <1>1, <1>2, SubmissionDelivered
<1>4. HasEnded \/ InBox \/ BoxAnswered
  BY <1>3 DEF MainInv, Lifecycle, Resting, AtWork, EndDeferred
<1>5. sub.request \in Asked /\ sub.running
  BY <1>4 DEF MainInv, Lifecycle, HasEnded, InBox, BoxAnswered
<1>6. /\ WindowTypes'
      /\ events # <<>> /\ events' = Tail(events) /\ Head(events).op = "submission"
      /\ Head(events).signal # "finished" /\ ~win.closed
      /\ \E r \in Docs : win' = [Enter(win, sub.origin) EXCEPT !.reg = r]
      /\ \E f \in Frames : /\ stack' = Append(stack, f) /\ f.op = "submission"
                           /\ f.context = Context(win, sub.origin)
      /\ sub' \in {[sub EXCEPT !.retry = FALSE, !.inCallback = TRUE], [sub EXCEPT !.inCallback = TRUE]}
      /\ UNCHANGED <<tra, pool, home, count>>
  BY <1>5, OutcomeType DEF MainInv
<1>7. HasEnded
  BY <1>3, <1>4, <1>6 DEF InBox, BoxAnswered
<1>8. PICK f \in Frames : stack' = Append(stack, f) /\ f.op = "submission" /\ f.context = Context(win, sub.origin)
  BY <1>6
<1>9. SameTabs(win', win)
  <2>1. PICK r \in Docs : win' = [Enter(win, sub.origin) EXCEPT !.reg = r]
    BY <1>6
  <2>2. Enter(win, sub.origin) \in Windows /\ SameTabs(Enter(win, sub.origin), win)
    BY <1>2, EnterType
  <2> QED BY <2>1, <2>2, RegType DEF SameTabs
<1>10. /\ sub'.running = sub.running /\ sub'.workers = sub.workers /\ sub'.inCallback
       /\ sub'.finishPending = sub.finishPending /\ sub'.origin = sub.origin /\ sub'.request = sub.request
  BY <1>2, <1>6 DEF Lives
<1>11. Lifecycle'
  <2>1. Lone(stack')
    BY <1>2, <1>7, <1>8, SubmissionAppended DEF HasEnded
  <2>2. EndTo(events')
    BY <1>3, <1>6, <1>7 DEF HasEnded
  <2>3. InBox'
    BY <2>1, <2>2, <1>6, <1>7, <1>10 DEF HasEnded, InBox
  <2> QED BY <2>3, <1>5, <1>10 DEF Lifecycle
<1>12. Counted4'
  <2>1. Head(events).op \notin Ops4
    BY <1>1 DEF Ops4
  <2>2. Cardinality(Ends4(events)) = Cardinality(Ends4(events'))
    BY <2>1, <1>1, <1>2, <1>6, Ends4Delivered
  <2> QED BY <2>2, <1>6 DEF MainInv, Counted4
<1>13. ClosedIdle'
  BY <1>6, <1>9 DEF ClosedIdle, SameTabs
<1>14. AtHome'
  <2>1. sub.origin # None => Found(win, sub.origin) = sub.origin
    BY <1>2, FoundType DEF MainInv, AtHome
  <2>2. sub.origin = None => Found(win, sub.origin) = sub.origin
    BY <1>2 DEF Found
  <2>3. f.context.target = sub.origin
    BY <2>1, <2>2, <1>8 DEF Context
  <2>4. \A i \in DOMAIN stack' : (i \in DOMAIN stack /\ stack'[i] = stack[i]) \/ stack'[i] = f
    <3>1. /\ DOMAIN stack = 1..Len(stack) /\ DOMAIN stack' = 1..(Len(stack) + 1) /\ Len(stack) \in Nat
          /\ stack'[Len(stack) + 1] = f /\ \A i \in 1..Len(stack) : stack'[i] = stack[i]
      BY <1>2, <1>8, AppendedTo
    <3> QED BY <3>1
  <2>5. \A i \in DOMAIN stack' : stack'[i].op = "submission" => stack'[i].context.target = sub.origin
    BY <2>3, <2>4 DEF MainInv, AtHome
  <2> QED BY <2>5, <1>6, <1>9, <1>10 DEF MainInv, AtHome, SameTabs
<1> QED BY <1>6, <1>11, <1>12, <1>13, <1>14 DEF MainInv

LEMMA FinishedKeeps == ASSUME MainInv, SubmissionFinished PROVE MainInv'
<1>1. events # <<>> /\ Head(events).op = "submission" /\ Head(events).signal = "finished"
  BY DEF SubmissionFinished, Delivered, Event
<1>2. pool \in Seq(Jobs) /\ events \in Seq(Reports) /\ stack \in Seq(Frames) /\ sub \in Lives /\ win \in Windows
  BY DEF MainInv, WindowTypes
<1>3. /\ ~Absent(events)
      /\ EndTo(events) => Absent(Tail(events))
      /\ BothTo(events) => Head(events).signal # "finished"
  BY <1>1, <1>2, SubmissionDelivered
<1>4. InBox \/ BoxAnswered
  BY <1>1, <1>3 DEF MainInv, Lifecycle, Resting, AtWork, EndDeferred, HasEnded
<1>5. sub.request \in Asked /\ sub.running /\ sub.workers = 1 /\ ~sub.finishPending /\ Absent(pool)
      /\ Absent(Tail(events))
  BY <1>3, <1>4 DEF MainInv, Lifecycle, InBox, BoxAnswered
<1>6. /\ WindowTypes'
      /\ events # <<>> /\ events' = Tail(events) /\ Head(events).op = "submission"
      /\ Head(events).signal = "finished" /\ ~win.closed
      /\ \E left \in Windows :
           /\ left = Leave(Enter(win, sub.origin), Context(win, sub.origin))
           /\ SameTabs(left, win)
           /\ win' \in {left, Release(left, sub.origin, {tra.origin})}
      /\ UNCHANGED <<tra, stack, home, count>>
      /\ sub.inCallback =>
           /\ sub'.running = sub.running /\ sub'.request = sub.request /\ sub'.workers = 0
           /\ sub'.inCallback /\ sub'.finishPending /\ sub'.shown = sub.shown
           /\ UNCHANGED pool
           /\ sub.running => sub'.origin = sub.origin /\ win'.retired = win.retired
      /\ ~sub.inCallback /\ sub.retry =>
           /\ sub'.running = sub.running /\ sub'.request = sub.request /\ sub'.workers = 1
           /\ ~sub'.inCallback /\ sub'.finishPending = sub.finishPending
           /\ sub'.origin = sub.origin /\ win'.retired = win.retired
           /\ \E x \in Jobs : pool' = Append(pool, x) /\ x.op = "submission"
      /\ ~sub.inCallback /\ ~sub.retry =>
           /\ ~sub'.running /\ sub'.workers = 0 /\ sub'.shown # "none" /\ sub'.origin = None
           /\ ~sub'.inCallback /\ sub'.finishPending = sub.finishPending
           /\ UNCHANGED pool
  BY <1>5, FinishedType DEF MainInv
<1>7. win'.open = win.open /\ win'.closed = win.closed /\ win'.visible = win.visible
  <2>1. PICK left \in Windows : /\ SameTabs(left, win)
                                /\ win' \in {left, Release(left, sub.origin, {tra.origin})}
    BY <1>6
  <2> QED BY <2>1, ReleaseType DEF SameTabs
<1>8. Counted4'
  <2>1. Head(events).op \notin Ops4
    BY <1>1 DEF Ops4
  <2>2. Cardinality(Ends4(events)) = Cardinality(Ends4(events'))
    BY <2>1, <1>1, <1>2, <1>6, Ends4Delivered
  <2>3. Cardinality(Of4(pool')) = Cardinality(Of4(pool))
    <3>1. ASSUME NEW x \in Jobs, x.op = "submission", pool' = Append(pool, x)
          PROVE  Cardinality(Of4(pool')) = Cardinality(Of4(pool))
      <4>1. x.op \notin Ops4
        BY <3>1 DEF Ops4
      <4> QED BY <4>1, <3>1, <1>2, Of4Appended
    <3> QED BY <3>1, <1>6
  <2> QED BY <2>2, <2>3, <1>6 DEF MainInv, Counted4
<1>9. ClosedIdle'
  BY <1>6, <1>7 DEF ClosedIdle
<1>10. CASE sub.inCallback
  <2>1. InBox
    BY <1>4, <1>10 DEF BoxAnswered
  <2>2. EndDeferred'
    BY <2>1, <1>5, <1>6, <1>10 DEF InBox, EndDeferred
  <2>3. Lifecycle'
    BY <2>2, <1>5, <1>6, <1>10 DEF Lifecycle
  <2>4. AtHome'
    BY <1>5, <1>6, <1>7, <1>10 DEF MainInv, AtHome
  <2> QED BY <2>3, <2>4, <1>6, <1>8, <1>9 DEF MainInv
<1>11. CASE ~sub.inCallback
  <2>1. BoxAnswered
    BY <1>4, <1>11 DEF InBox
  <2>2. CASE sub.retry
    <3>1. PICK x \in Jobs : pool' = Append(pool, x) /\ x.op = "submission"
      BY <2>2, <1>6, <1>11
    <3>2. Lone(pool')
      BY <3>1, <1>2, <1>5, SubmissionAppended
    <3>3. AtWork'
      BY <3>2, <2>1, <2>2, <1>5, <1>6, <1>11 DEF AtWork, BoxAnswered
    <3>4. Lifecycle'
      BY <3>3, <2>2, <1>5, <1>6, <1>11 DEF Lifecycle
    <3>5. AtHome'
      BY <2>2, <1>5, <1>6, <1>7, <1>11 DEF MainInv, AtHome
    <3> QED BY <3>4, <3>5, <1>6, <1>8, <1>9 DEF MainInv
  <2>3. CASE ~sub.retry
    <3>1. Resting'
      BY <2>1, <2>3, <1>5, <1>6, <1>11 DEF Resting, BoxAnswered
    <3>2. Lifecycle'
      BY <3>1, <2>3, <1>6, <1>11 DEF Lifecycle
    <3>3. AtHome'
      BY <2>1, <2>3, <1>6, <1>7, <1>11 DEF MainInv, AtHome, BoxAnswered, Absent
    <3> QED BY <3>2, <3>3, <1>6, <1>8, <1>9 DEF MainInv
  <2> QED BY <2>2, <2>3
<1> QED BY <1>10, <1>11

LEMMA AnswerSubmissionKeeps ==
    ASSUME MainInv, NEW yes \in BOOLEAN, AnswerSubmission(yes)
    PROVE  MainInv'
<1>1. pool \in Seq(Jobs) /\ events \in Seq(Reports) /\ stack \in Seq(Frames) /\ sub \in Lives /\ win \in Windows
  BY DEF MainInv, WindowTypes
<1>2. stack # <<>> /\ Last(stack).op = "submission"
  <2>1. Last(stack) \in Frames /\ Last(stack).wait \in {"success", "failure", "trust"} /\ stack # <<>>
    BY AnsweredType DEF MainInv, AnswerSubmission
  <2> QED BY <2>1 DEF Frames
<1>3. ~Absent(stack) /\ (Lone(stack) => Absent(Front(stack)))
  BY <1>1, <1>2, SubmissionAnswered
<1>4. InBox \/ EndDeferred
  BY <1>3 DEF MainInv, Lifecycle, Resting, AtWork, HasEnded, BoxAnswered
<1>5. sub.request \in Asked /\ sub.running /\ Absent(pool) /\ Absent(Front(stack))
  BY <1>3, <1>4 DEF MainInv, Lifecycle, InBox, EndDeferred
<1>6. /\ WindowTypes'
      /\ stack # <<>> /\ stack' = Front(stack) /\ Last(stack).op = "submission" /\ ~win.closed
      /\ win' = Leave(win, Last(stack).context) /\ Last(stack).context \in Contexts
      /\ UNCHANGED <<tra, events, home, count>>
      /\ sub'.origin = sub.origin /\ ~sub'.inCallback /\ ~sub'.finishPending
      /\ ~sub.finishPending =>
           /\ UNCHANGED pool
           /\ sub'.running = sub.running /\ sub'.workers = sub.workers /\ sub'.request = sub.request
      /\ sub.finishPending =>
           \/ /\ sub'.running = sub.running /\ sub'.workers = 1 /\ sub'.request = sub.request
              /\ \E x \in Jobs : pool' = Append(pool, x) /\ x.op = "submission"
           \/ /\ UNCHANGED pool
              /\ ~sub'.running /\ sub'.workers = sub.workers /\ sub'.shown # "none"
  BY <1>5, AnswerSubmissionType DEF MainInv
<1>7. SameTabs(win', win)
  BY <1>1, <1>6, LeaveType
<1>8. ClosedIdle'
  BY <1>6, <1>7 DEF ClosedIdle, SameTabs
<1>9. AtHome'
  <2>1. Absent(stack')
    BY <1>5, <1>6
  <2>2. sub'.running => sub.running
    BY <1>5
  <2> QED BY <2>1, <2>2, <1>6, <1>7 DEF MainInv, AtHome, SameTabs, Absent
<1>10. Counted4'
  <2>1. Cardinality(Of4(pool')) = Cardinality(Of4(pool))
    <3>1. ASSUME NEW x \in Jobs, x.op = "submission", pool' = Append(pool, x)
          PROVE  Cardinality(Of4(pool')) = Cardinality(Of4(pool))
      <4>1. x.op \notin Ops4
        BY <3>1 DEF Ops4
      <4> QED BY <4>1, <3>1, <1>1, Of4Appended
    <3> QED BY <3>1, <1>6
  <2> QED BY <2>1, <1>6 DEF MainInv, Counted4
<1>11. CASE ~sub.finishPending
  <2>1. InBox
    BY <1>4, <1>11 DEF EndDeferred
  <2>2. BoxAnswered'
    BY <2>1, <1>5, <1>6, <1>11 DEF InBox, BoxAnswered
  <2>3. Lifecycle'
    BY <2>2, <1>5, <1>6, <1>11 DEF Lifecycle
  <2> QED BY <2>3, <1>6, <1>8, <1>9, <1>10 DEF MainInv
<1>12. CASE sub.finishPending
  <2>1. EndDeferred
    BY <1>4, <1>12 DEF InBox
  <2>2. ASSUME NEW x \in Jobs, pool' = Append(pool, x), x.op = "submission",
               sub'.running = sub.running, sub'.workers = 1, sub'.request = sub.request
        PROVE  Lifecycle'
    <3>1. Lone(pool')
      BY <2>2, <1>1, <1>5, SubmissionAppended
    <3>2. AtWork'
      BY <3>1, <2>1, <2>2, <1>5, <1>6 DEF AtWork, EndDeferred
    <3> QED BY <3>2, <2>2, <1>5 DEF Lifecycle
  <2>3. ASSUME UNCHANGED pool, ~sub'.running, sub'.workers = sub.workers, sub'.shown # "none"
        PROVE  Lifecycle'
    <3>1. Resting'
      BY <2>1, <2>3, <1>5, <1>6 DEF Resting, EndDeferred
    <3> QED BY <3>1, <2>3 DEF Lifecycle
  <2>4. Lifecycle'
    BY <2>2, <2>3, <1>6, <1>12
  <2> QED BY <2>4, <1>6, <1>8, <1>9, <1>10 DEF MainInv
<1> QED BY <1>11, <1>12

\* The other operations.
LEMMA OtherOutcomeKeeps == ASSUME MainInv, OtherOutcomes PROVE MainInv'
<1>1. /\ WindowTypes'
      /\ events # <<>> /\ events' = Tail(events) /\ Head(events).op # "submission"
      /\ Head(events).signal # "finished" /\ ~win.closed /\ SameTabs(win', win)
      /\ UNCHANGED <<sub, tra, pool, home, count>>
  BY OtherOutcomeType DEF MainInv
<1>2. PICK f \in Frames : stack' = Append(stack, f) /\ f.op # "submission"
  BY OtherOutcomeType DEF MainInv
<1>3. events \in Seq(Reports) /\ stack \in Seq(Frames)
  BY DEF MainInv, WindowTypes
<1>4. Lifecycle'
  <2>1. /\ Absent(events) => Absent(events')
        /\ EndTo(events) => EndTo(events')
        /\ BothTo(events) => BothTo(events')
    BY <1>1, <1>3, SubmissionDelivered
  <2>2. (Absent(stack) => Absent(stack')) /\ (Lone(stack) => Lone(stack'))
    BY <1>2, <1>3, SubmissionAppended
  <2> QED BY <2>1, <2>2, <1>1, SubmissionUndisturbed DEF MainInv
<1>5. Counted4'
  <2>1. Cardinality(Ends4(events)) = Cardinality(Ends4(events'))
    BY <1>1, <1>3, Ends4Delivered
  <2> QED BY <2>1, <1>1 DEF MainInv, Counted4
<1>6. ClosedIdle'
  BY <1>1 DEF ClosedIdle, SameTabs
<1>7. AtHome'
  <2>1. \A i \in DOMAIN stack' : (i \in DOMAIN stack /\ stack'[i] = stack[i]) \/ stack'[i] = f
    <3>1. /\ DOMAIN stack = 1..Len(stack) /\ DOMAIN stack' = 1..(Len(stack) + 1) /\ Len(stack) \in Nat
          /\ stack'[Len(stack) + 1] = f /\ \A i \in 1..Len(stack) : stack'[i] = stack[i]
      BY <1>2, <1>3, AppendedTo
    <3> QED BY <3>1
  <2> QED BY <2>1, <1>1, <1>2 DEF MainInv, AtHome, SameTabs
<1> QED BY <1>1, <1>4, <1>5, <1>6, <1>7 DEF MainInv

LEMMA OtherAnswerKeeps == ASSUME MainInv, OtherAnswers PROVE MainInv'
<1>1. /\ WindowTypes'
      /\ stack # <<>> /\ stack' = Front(stack) /\ Last(stack).op # "submission" /\ ~win.closed
      /\ SameTabs(win', win)
      /\ UNCHANGED <<sub, events, home, count>> /\ tra'.origin = tra.origin
      /\ \/ UNCHANGED <<pool, tra>>
         \/ /\ tra'.workers = tra.workers + 1
            /\ \E x \in Jobs : pool' = Append(pool, x) /\ x.op \in Ops4
  BY OtherAnswerType DEF MainInv
<1>2. pool \in Seq(Jobs) /\ events \in Seq(Reports) /\ stack \in Seq(Frames)
  BY DEF MainInv, WindowTypes
<1>3. (Absent(stack) => Absent(stack')) /\ (Lone(stack) => Lone(stack'))
  BY <1>1, <1>2, SubmissionAnswered
<1>4. ASSUME UNCHANGED <<pool, tra>> PROVE Lifecycle' /\ Counted4'
  <2>1. Lifecycle'
    BY <1>1, <1>3, <1>4, SubmissionUndisturbed DEF MainInv
  <2> QED BY <2>1, <1>1, <1>4 DEF Counted4, MainInv
<1>5. ASSUME NEW x \in Jobs, tra'.workers = tra.workers + 1, pool' = Append(pool, x), x.op \in Ops4
      PROVE  Lifecycle' /\ Counted4'
  <2>1. x.op # "submission"
    BY <1>5 DEF Ops4
  <2>2. (Absent(pool) => Absent(pool')) /\ (Lone(pool) => Lone(pool'))
    BY <2>1, <1>2, <1>5, SubmissionAppended
  <2>3. Lifecycle'
    BY <2>2, <1>1, <1>3, SubmissionUndisturbed DEF MainInv
  <2>4. Cardinality(Of4(pool')) = Cardinality(Of4(pool)) + 1 /\ Cardinality(Of4(pool)) \in Nat
    BY <1>2, <1>5, Of4Appended
  <2>5. Cardinality(Ends4(events)) \in Nat
    BY <1>2, EndsCounted
  <2> QED BY <2>3, <2>4, <2>5, <1>1, <1>5 DEF MainInv, Counted4
<1>6. ClosedIdle'
  BY <1>1 DEF ClosedIdle, SameTabs
<1>7. AtHome'
  <2>1. \A i \in DOMAIN stack' : i \in DOMAIN stack /\ stack'[i] = stack[i]
    <3>1. /\ DOMAIN stack = 1..Len(stack) /\ DOMAIN stack' = 1..(Len(stack) - 1)
          /\ Len(stack) \in Nat \ {0} /\ \A i \in 1..(Len(stack) - 1) : stack'[i] = stack[i]
      BY <1>1, <1>2, FrontOf
    <3> QED BY <3>1
  <2> QED BY <2>1, <1>1 DEF MainInv, AtHome, SameTabs
<1> QED BY <1>1, <1>4, <1>5, <1>6, <1>7 DEF MainInv

LEMMA TransportFinishedKeeps == ASSUME MainInv, TransportFinished PROVE MainInv'
<1>1. pool \in Seq(Jobs) /\ events \in Seq(Reports) /\ tra \in Lives4
  BY DEF MainInv, WindowTypes
<1>2. events # <<>> /\ Head(events).op \in Ops4 /\ Head(events).signal = "finished"
  BY DEF TransportFinished, Delivered, Event, Ops4
<1>3. /\ Cardinality(Ends4(Tail(events))) \in Nat
      /\ Cardinality(Ends4(events)) = Cardinality(Ends4(Tail(events))) + 1
  BY <1>1, <1>2, Ends4Delivered
<1>4. Cardinality(Of4(pool)) \in Nat
  BY <1>1, Of4Counted
<1>5. tra.workers = Cardinality(Of4(pool)) + Cardinality(Ends4(events)) /\ tra.workers # 0
  BY <1>3, <1>4 DEF MainInv, Counted4
<1>6. /\ WindowTypes'
      /\ events # <<>> /\ events' = Tail(events) /\ Head(events).op \in Ops4
      /\ Head(events).signal = "finished" /\ ~win.closed
      /\ win'.open = win.open /\ win'.closed = win.closed /\ win'.visible = win.visible
      /\ (win'.retired = win.retired
           \/ (tra.origin # sub.origin /\ win'.retired = win.retired \ {tra.origin}))
      /\ UNCHANGED <<sub, pool, stack, home, count>>
      /\ tra'.workers = tra.workers - 1
  BY <1>5, TransportFinishedType DEF MainInv
<1>7. Lifecycle'
  <2>1. Head(events).op # "submission"
    BY <1>2 DEF Ops4
  <2>2. /\ Absent(events) => Absent(events')
        /\ EndTo(events) => EndTo(events')
        /\ BothTo(events) => BothTo(events')
    BY <2>1, <1>1, <1>6, SubmissionDelivered
  <2> QED BY <2>2, <1>6, SubmissionUndisturbed DEF MainInv
<1>8. Counted4'
  BY <1>3, <1>4, <1>5, <1>6 DEF Counted4
<1>9. ClosedIdle' /\ AtHome'
  BY <1>6 DEF MainInv, ClosedIdle, AtHome
<1> QED BY <1>6, <1>7, <1>8, <1>9 DEF MainInv

LEMMA ExportFinishedKeeps == ASSUME MainInv, ExportFinished PROVE MainInv'
<1>1. /\ WindowTypes'
      /\ events # <<>> /\ events' = Tail(events) /\ Head(events).op = "export"
      /\ UNCHANGED <<win, sub, tra, pool, stack, home, count>>
  BY ExportFinishedType DEF MainInv
<1>2. events \in Seq(Reports) /\ Head(events).op \notin Ops4
  BY <1>1 DEF MainInv, WindowTypes, Ops4
<1>3. Lifecycle'
  <2>1. /\ Absent(events) => Absent(events')
        /\ EndTo(events) => EndTo(events')
        /\ BothTo(events) => BothTo(events')
    BY <1>1, <1>2, SubmissionDelivered
  <2> QED BY <2>1, <1>1, SubmissionUndisturbed DEF MainInv
<1>4. Counted4'
  <2>1. Cardinality(Ends4(events)) = Cardinality(Ends4(events'))
    BY <1>1, <1>2, Ends4Delivered
  <2> QED BY <2>1, <1>1 DEF MainInv, Counted4
<1>5. ClosedIdle' /\ AtHome'
  BY <1>1 DEF MainInv, ClosedIdle, AtHome
<1> QED BY <1>1, <1>3, <1>4, <1>5 DEF MainInv

----------------------------------------------------------------------------
(* The invariant of the main window, and what follows from it.             *)

LEMMA MainInit == Init => MainInv
<1> SUFFICES ASSUME Init PROVE MainInv
  OBVIOUS
<1>1. WindowTypes
  BY TypesInit
<1>2. PICK first \in Tabs :
        win = [open |-> {first}, retired |-> {}, tabs |-> [w \in Tabs |-> Empty],
               bound |-> first, reg |-> Fresh, visible |-> first, closed |-> FALSE]
  BY DEF Init
<1>3. pool = <<>> /\ events = <<>> /\ stack = <<>> /\ sub = Idle /\ tra.workers = 0
      /\ home = [op \in {"submission", "transport"} |-> None]
  BY DEF Init
<1>4. Lifecycle
  BY <1>3 DEF Lifecycle, Resting, Absent, Idle
<1>5. Counted4
  <2>1. Of4(pool) = {} /\ Ends4(events) = {}
    BY <1>3 DEF Of4, Ends4
  <2> QED BY <2>1, <1>3, FS_EmptySet DEF Counted4
<1>6. ClosedIdle /\ AtHome
  BY <1>2, <1>3 DEF ClosedIdle, AtHome, Idle
<1> QED BY <1>1, <1>4, <1>5, <1>6 DEF MainInv

LEMMA MainKeeps == ASSUME MainInv, Next PROVE MainInv'
<1>1. ASSUME TabSteps PROVE MainInv'
  BY <1>1, TabStepKeeps
<1>2. ASSUME Submissions PROVE MainInv'
  BY <1>2, SubmissionKeeps
<1>3. ASSUME Preflights PROVE MainInv'
  BY <1>3, PreflightKeeps
<1>4. ASSUME \/ ExportInputs \/ CloseWindow
             \/ \E what \in {"ok", "failed", "unknownHost", "unavailable"} : WorkerEnds(what)
      PROVE  MainInv'
  BY <1>4, ExportInputsKeeps, CloseWindowKeeps, WorkerEndsKeeps
<1>5. ASSUME SubmissionSucceeded \/ SubmissionFailed \/ SubmissionFinished
             \/ \E yes \in BOOLEAN : AnswerSubmission(yes)
      PROVE  MainInv'
  BY <1>5, OutcomeKeeps, FinishedKeeps, AnswerSubmissionKeeps
<1>6. ASSUME OtherOutcomes \/ OtherAnswers \/ TransportFinished \/ ExportFinished
      PROVE  MainInv'
  BY <1>6, OtherOutcomeKeeps, OtherAnswerKeeps, TransportFinishedKeeps, ExportFinishedKeeps
<1>7. \/ TabSteps \/ Submissions \/ Preflights \/ ExportInputs \/ CloseWindow
      \/ \E what \in {"ok", "failed", "unknownHost", "unavailable"} : WorkerEnds(what)
      \/ SubmissionSucceeded \/ SubmissionFailed \/ SubmissionFinished
      \/ \E yes \in BOOLEAN : AnswerSubmission(yes)
      \/ OtherOutcomes \/ OtherAnswers \/ TransportFinished \/ ExportFinished
  BY DEF Next, TabSteps, Opens, Submissions, Preflights, OtherOutcomes, OtherAnswers
<1> QED BY <1>1, <1>2, <1>3, <1>4, <1>5, <1>6, <1>7

LEMMA MainStutters == ASSUME MainInv, UNCHANGED vars PROVE MainInv'
BY DEF MainInv, WindowTypes, Lifecycle, Resting, AtWork, HasEnded, InBox, BoxAnswered, EndDeferred,
       Counted4, ClosedIdle, AtHome, vars

LEMMA Accounted == MainInv => SubmissionIsAccounted
<1> SUFFICES ASSUME MainInv PROVE SubmissionIsAccounted
  OBVIOUS
<1>1. Absent(stack) => ~\E i \in DOMAIN stack : stack[i].op = "submission"
  BY DEF Absent
<1>2. Lone(stack) => \E i \in DOMAIN stack : stack[i].op = "submission"
  BY DEF Lone
<1>3. Lone(pool) => \E i \in DOMAIN pool : pool[i].op = "submission"
  BY DEF Lone
<1>4. EndTo(events) \/ BothTo(events) =>
        \E i \in DOMAIN events : events[i].op = "submission" /\ events[i].signal = "finished"
  BY DEF EndTo, BothTo
<1>5. sub.running <=> (sub.workers > 0 \/ \E i \in DOMAIN stack : stack[i].op = "submission")
  BY <1>1, <1>2 DEF MainInv, Lifecycle, Resting, AtWork, HasEnded, InBox, BoxAnswered, EndDeferred
<1>6. sub.workers > 0 =>
          \/ \E i \in DOMAIN pool : pool[i].op = "submission"
          \/ \E i \in DOMAIN events : events[i].op = "submission" /\ events[i].signal = "finished"
  BY <1>3, <1>4 DEF MainInv, Lifecycle, Resting, AtWork, HasEnded, InBox, BoxAnswered, EndDeferred
<1>7. sub.running /\ sub.request.project # None => ExternalOperation(sub.request.project)
  BY DEF ExternalOperation
<1>8. home["submission"] # None /\ ~sub.running => sub.shown # "none"
  BY DEF MainInv, Lifecycle
<1>9. win.closed => pool = <<>>
  BY DEF MainInv, ClosedIdle
<1> QED BY <1>5, <1>6, <1>7, <1>8, <1>9 DEF SubmissionIsAccounted

LEMMA MainWindowInit == WorkbenchInit => MainWindowInv
BY MainInit DEF WorkbenchInit, MainWindowInv

LEMMA MainWindowKeeps == MainWindowInv /\ [WorkbenchNext]_workbench => MainWindowInv'
<1> SUFFICES ASSUME MainWindowInv, [WorkbenchNext]_workbench, area' = "window" PROVE MainInv'
  BY DEF MainWindowInv
<1>1. CASE WorkbenchNext
  <2>1. area = "window" /\ Next
    BY <1>1 DEF WorkbenchNext
  <2> QED BY <2>1, MainKeeps DEF MainWindowInv
<1>2. CASE UNCHANGED workbench
  <2>1. area' = area /\ UNCHANGED vars
    BY <1>2 DEF workbench
  <2> QED BY <2>1, MainStutters DEF MainWindowInv
<1> QED BY <1>1, <1>2

\* Whatever is opened, closed, started and reported in the main window, in any order and
\* with any box left open over any callback: its state keeps its types, a submission is in
\* one phase of its life, the workers of Step 4 are counted, and the tab a submission was
\* started from stays until it has ended.
THEOREM MainWindowInvariant == WorkbenchSpec => []MainWindowInv
<1>1. WorkbenchInit => MainWindowInv
  BY MainWindowInit
<1>2. MainWindowInv /\ [WorkbenchNext]_workbench => MainWindowInv'
  BY MainWindowKeeps
<1> QED BY <1>1, <1>2, PTL DEF WorkbenchSpec

\* _routed_submission_worker_finished, _complete_submission_worker_finish and closeEvent: a
\* submission counts as running exactly as long as a worker or a callback will end it, the
\* window closes only after that, and a submission that has ended has told the user how.
THEOREM SubmissionIsAlwaysAccounted == WorkbenchSpec => []SubmissionAccounted
<1>1. MainWindowInv => SubmissionAccounted
  BY Accounted DEF MainWindowInv, SubmissionAccounted
<1> QED BY <1>1, MainWindowInvariant, PTL

----------------------------------------------------------------------------
(* What a tab holds while the registers move from tab to tab.              *)

LEMMA NoneIsNoTab == None \notin Tabs
BY WindowAssumption DEF WindowAssumption

\* The registers are stored, and another tab is bound: every tab still holds what it held.
LEMMA StoredContent ==
    ASSUME NEW v \in Windows
    PROVE  /\ \A w \in Tabs : Content(Store(v), w) = Content(v, w)
           /\ \A b, w \in Tabs : Content(Bind(Store(v), b), w) = Content(v, w)
<1>1. CASE v.bound = None
  <2>1. Store(v) = v /\ \A w \in Tabs : Content(v, w) = v.tabs[w].doc
    BY <1>1, NoneIsNoTab DEF Store, Content
  <2>2. \A b \in Tabs : Bind(v, b).bound = b /\ Bind(v, b).reg = v.tabs[b].doc /\ Bind(v, b).tabs = v.tabs
    BY DEF Bind, Windows
  <2> QED BY <2>1, <2>2 DEF Content
<1>2. CASE v.bound # None
  <2> DEFINE s == Store(v)
  <2>1. v.bound \in Tabs /\ v.tabs \in [Tabs -> Contents] /\ v.tabs[v.bound] \in Contents
    BY <1>2 DEF Windows, SomeTab
  <2>2. s = [v EXCEPT !.tabs = [v.tabs EXCEPT ![v.bound] = [v.tabs[v.bound] EXCEPT !.doc = v.reg]]]
    BY <1>2 DEF Store
  <2>3. s \in Windows /\ s.bound = v.bound /\ s.reg = v.reg
    BY StoreType
  <2>4. s.tabs = [v.tabs EXCEPT ![v.bound] = [v.tabs[v.bound] EXCEPT !.doc = v.reg]]
    BY <2>2 DEF Windows
  <2>5. [v.tabs[v.bound] EXCEPT !.doc = v.reg].doc = v.reg
    BY <2>1 DEF Contents
  <2>6. \A w \in Tabs : s.tabs[w].doc = Content(v, w)
    BY <2>1, <2>4, <2>5 DEF Content
  <2> HIDE DEF s
  <2>7. \A b \in Tabs : Bind(s, b).bound = b /\ Bind(s, b).reg = s.tabs[b].doc /\ Bind(s, b).tabs = s.tabs
    BY <2>3 DEF Bind, Windows
  <2>8. \A b, w \in Tabs : Content(Bind(s, b), w) = s.tabs[w].doc
    BY <2>7 DEF Content
  <2>9. \A w \in Tabs : Content(s, w) = Content(v, w)
    BY <2>3, <2>6 DEF Content
  <2> QED BY <2>6, <2>8, <2>9 DEF s
<1> QED BY <1>1, <1>2

LEMMA EnteredContent ==
    ASSUME NEW v \in Windows, NEW origin
    PROVE  \A w \in Tabs : Content(Enter(v, origin), w) = Content(v, w)
<1>1. CASE Found(v, origin) \in {None, v.bound}
  BY <1>1 DEF Enter
<1>2. CASE Found(v, origin) \notin {None, v.bound}
  <2>1. origin \in Tabs
    BY <1>2, FoundType
  <2> QED BY <2>1, <1>2, StoredContent DEF Enter
<1> QED BY <1>1, <1>2

LEMMA LeftContent ==
    ASSUME NEW v \in Windows, NEW context \in Contexts, context.target # None
    PROVE  \A w \in Tabs : Content(Leave(v, context), w) = Content(v, w)
<1> DEFINE back == IF context.visible = None THEN context.previous ELSE context.visible
<1>1. back \in SomeTab
  BY DEF Contexts
<1>2. Leave(v, context) = IF back \in {None, context.target} THEN Store(v) ELSE Bind(Store(v), back)
  BY DEF Leave
<1> HIDE DEF back
<1>3. CASE back \in {None, context.target}
  BY <1>2, <1>3, StoredContent
<1>4. CASE back \notin {None, context.target}
  <2>1. back \in Tabs
    BY <1>1, <1>4 DEF SomeTab
  <2> QED BY <2>1, <1>2, <1>4, StoredContent
<1> QED BY <1>3, <1>4

LEMMA ReleasedContent ==
    ASSUME NEW v \in Windows, NEW origin, NEW origins
    PROVE  \A w \in Tabs \ {origin} : Content(Release(v, origin, origins), w) = Content(v, w)
<1>1. CASE origin \notin v.retired \ origins
  BY <1>1 DEF Release
<1>2. CASE origin \in v.retired \ origins
  <2> DEFINE r == Release(v, origin, origins)
  <2>1. r = [v EXCEPT !.retired = v.retired \ {origin}, !.tabs = [v.tabs EXCEPT ![origin] = Empty],
                      !.bound = IF v.bound = origin THEN None ELSE v.bound]
    BY <1>2 DEF Release
  <2>2. /\ r.tabs = [v.tabs EXCEPT ![origin] = Empty] /\ r.reg = v.reg
        /\ r.bound = IF v.bound = origin THEN None ELSE v.bound
    BY <2>1 DEF Windows
  <2>3. v.tabs \in [Tabs -> Contents]
    BY DEF Windows
  <2> HIDE DEF r
  <2>4. \A w \in Tabs \ {origin} : r.tabs[w] = v.tabs[w] /\ (r.bound = w <=> v.bound = w)
    BY <2>2, <2>3, NoneIsNoTab
  <2>5. \A w \in Tabs \ {origin} : Content(r, w) = Content(v, w)
    BY <2>2, <2>4 DEF Content
  <2> QED BY <2>5 DEF r
<1> QED BY <1>1, <1>2

\* Other than home's tab.
Elsewhere == \A w \in Tabs \ {sub.origin} : Content(win', w) = Content(win, w)

LEMMA OutcomeStaysHome ==
    ASSUME MainInv, sub.request \in Asked, sub.origin # None, SubmissionSucceeded \/ SubmissionFailed
    PROVE  Elsewhere
<1>1. win \in Windows /\ Found(win, sub.origin) = sub.origin
  BY FoundType DEF MainInv, WindowTypes, AtHome
<1> DEFINE e == Enter(win, sub.origin)
<1>2. PICK r \in Docs : win' = [e EXCEPT !.reg = r]
  BY OutcomeType DEF MainInv
<1>3. e \in Windows /\ e.bound = sub.origin
  BY <1>1, EnterType
<1>4. \A w \in Tabs : Content(e, w) = Content(win, w)
  BY <1>1, EnteredContent
<1> HIDE DEF e
<1>5. win'.bound = sub.origin /\ win'.tabs = e.tabs
  BY <1>2, <1>3 DEF Windows
<1>6. \A w \in Tabs \ {sub.origin} : Content(win', w) = Content(e, w)
  BY <1>3, <1>5 DEF Content
<1> QED BY <1>4, <1>6 DEF Elsewhere

LEMMA FinishedStaysHome ==
    ASSUME MainInv, sub.request \in Asked, sub.workers = 1, sub.origin # None, SubmissionFinished
    PROVE  Elsewhere
<1>1. win \in Windows /\ Found(win, sub.origin) = sub.origin
  BY FoundType DEF MainInv, WindowTypes, AtHome
<1> DEFINE e == Enter(win, sub.origin)
           c == Context(win, sub.origin)
<1>2. PICK left \in Windows : /\ left = Leave(e, c)
                              /\ win' \in {left, Release(left, sub.origin, {tra.origin})}
  BY FinishedType DEF MainInv
<1>3. e \in Windows /\ c \in Contexts /\ c.target # None
  BY <1>1, EnterType, ContextType
<1>4. \A w \in Tabs : Content(e, w) = Content(win, w)
  BY <1>1, EnteredContent
<1> HIDE DEF e, c
<1>5. \A w \in Tabs : Content(left, w) = Content(e, w)
  BY <1>2, <1>3, LeftContent
<1>6. \A w \in Tabs \ {sub.origin} : Content(win', w) = Content(left, w)
  BY <1>2, ReleasedContent
<1> QED BY <1>4, <1>5, <1>6 DEF Elsewhere

LEMMA AnswerStaysHome ==
    ASSUME MainInv, sub.origin # None, NEW yes \in BOOLEAN, AnswerSubmission(yes)
    PROVE  Elsewhere
<1>1. /\ stack # <<>> /\ Last(stack) \in Frames /\ Last(stack).wait \in {"success", "failure", "trust"}
      /\ Last(stack).context \in Contexts
  BY AnsweredType DEF MainInv, AnswerSubmission
<1>2. Last(stack).op = "submission"
  BY <1>1 DEF Frames
<1>3. Last(stack).context.target = sub.origin
  <2>1. Last(stack) = stack[Len(stack)] /\ Len(stack) \in DOMAIN stack
    BY <1>1, FrontOf DEF MainInv, WindowTypes
  <2> QED BY <2>1, <1>2 DEF MainInv, AtHome
<1>4. win' = Leave(win, Last(stack).context) /\ win \in Windows
  BY DEF AnswerSubmission, MainInv, WindowTypes
<1> QED BY <1>1, <1>3, <1>4, LeftContent DEF Elsewhere

\* What handles an event or an answer of a submission is one of its callbacks.
LEMMA HandledByCallback ==
    ASSUME MainInv, Next, Handles({"submission"})
    PROVE  /\ \/ SubmissionSucceeded \/ SubmissionFailed \/ SubmissionFinished
              \/ \E yes \in BOOLEAN : AnswerSubmission(yes)
           /\ sub.running /\ sub.request \in Asked
           /\ SubmissionFinished => sub.workers = 1
<1>1. WindowTypes /\ pool \in Seq(Jobs) /\ events \in Seq(Reports) /\ stack \in Seq(Frames)
  BY DEF MainInv, WindowTypes
<1>2. events # <<>> => Tail(events) # events
  <2>1. events # <<>> => Len(Tail(events)) = Len(events) - 1 /\ Len(events) \in Nat
    BY <1>1, HeadTailProperties
  <2> QED BY <2>1
<1>3. stack # <<>> => Front(stack) # stack
  <2>1. stack # <<>> => DOMAIN Front(stack) = 1..(Len(stack) - 1) /\ DOMAIN stack = 1..Len(stack)
                        /\ Len(stack) \in Nat \ {0}
    BY <1>1, FrontOf
  <2>2. stack # <<>> => Len(stack) \in DOMAIN stack /\ Len(stack) \notin DOMAIN Front(stack)
    BY <2>1
  <2> QED BY <2>2
<1>4. ~(UNCHANGED <<events, stack>>)
  BY <1>2, <1>3 DEF Handles
<1>5. ~TabSteps /\ ~CloseWindow /\ ~ExportInputs
  BY <1>1, <1>4, TabStepType DEF CloseWindow, ExportInputs
<1>6. ~Submissions /\ ~Preflights
  BY <1>1, <1>4, SubmissionStarts, PreflightStarts DEF StartSubmission, StartPreflight
<1>7. ASSUME NEW what \in {"ok", "failed", "unknownHost", "unavailable"}, WorkerEnds(what) PROVE FALSE
  <2>1. PICK x, y \in Reports : events' = events \o <<x, y>>
    BY <1>1, <1>7, WorkerEndsType
  <2>2. DOMAIN events = 1..Len(events) /\ Len(events) \in Nat /\ DOMAIN events' = 1..(Len(events) + 2)
    BY <1>1, <2>1, TwoAppendedTo
  <2>3. events # <<>> => DOMAIN Tail(events) = 1..(Len(events) - 1)
    BY <1>1, TailOf
  <2>4. events # <<>> => Tail(events) # events'
    <3>1. Len(events) + 2 \in DOMAIN events' /\ Len(events) + 2 \notin 1..(Len(events) - 1)
      BY <2>2
    <3> QED BY <3>1, <2>3
  <2>5. stack' = stack
    BY <1>7 DEF WorkerEnds
  <2> QED BY <2>4, <2>5, <1>3 DEF Handles
<1>8. ~OtherOutcomes
  <2> SUFFICES ASSUME OtherOutcomes PROVE FALSE
    OBVIOUS
  <2>1. Head(events).op # "submission"
    BY <1>1, OtherOutcomeType
  <2>2. PICK f \in Frames : stack' = Append(stack, f)
    BY <1>1, OtherOutcomeType
  <2>3. stack # <<>> => Front(stack) # stack'
    <3>1. DOMAIN stack' = 1..(Len(stack) + 1) /\ Len(stack) \in Nat
      BY <1>1, <2>2, AppendedTo
    <3>2. stack # <<>> => DOMAIN Front(stack) = 1..(Len(stack) - 1)
      BY <1>1, FrontOf
    <3>3. Len(stack) + 1 \in DOMAIN stack' /\ Len(stack) + 1 \notin 1..(Len(stack) - 1)
      BY <3>1
    <3> QED BY <3>2, <3>3
  <2> QED BY <2>1, <2>3 DEF Handles, Event
<1>9. ~OtherAnswers
  <2> SUFFICES ASSUME OtherAnswers PROVE FALSE
    OBVIOUS
  <2>1. Last(stack).op # "submission" /\ events' = events
    BY <1>1, OtherAnswerType
  <2> QED BY <2>1, <1>2 DEF Handles
<1>10. ~TransportFinished
  <2> SUFFICES ASSUME TransportFinished PROVE FALSE
    OBVIOUS
  <2>1. Event.op # "submission" /\ stack' = stack
    BY DEF TransportFinished, Delivered
  <2> QED BY <2>1, <1>3 DEF Handles
<1>11. ~ExportFinished
  <2> SUFFICES ASSUME ExportFinished PROVE FALSE
    OBVIOUS
  <2>1. Event.op # "submission" /\ stack' = stack
    BY DEF ExportFinished, Delivered
  <2> QED BY <2>1, <1>3 DEF Handles
<1>12. \/ SubmissionSucceeded \/ SubmissionFailed \/ SubmissionFinished
       \/ \E yes \in BOOLEAN : AnswerSubmission(yes)
  BY <1>5, <1>6, <1>7, <1>8, <1>9, <1>10, <1>11
     DEF Next, TabSteps, Opens, Submissions, Preflights, OtherOutcomes, OtherAnswers
<1>13. sub.running /\ (SubmissionFinished => sub.workers = 1)
  <2>1. events # <<>> /\ Head(events).op = "submission" => ~Absent(events)
    BY <1>1, SubmissionDelivered
  <2>2. stack # <<>> /\ Last(stack).op = "submission" => ~Absent(stack)
    BY <1>1, SubmissionAnswered
  <2>3. ~Absent(events) \/ ~Absent(stack)
    BY <2>1, <2>2 DEF Handles, Event
  <2>4. SubmissionFinished => ~Absent(events)
    BY <2>1 DEF SubmissionFinished, Delivered, Event
  <2> QED BY <2>3, <2>4 DEF MainInv, Lifecycle, Resting, AtWork, HasEnded, InBox, BoxAnswered, EndDeferred
<1>14. sub.request \in Asked
  BY <1>13 DEF MainInv, Lifecycle
<1> QED BY <1>12, <1>13, <1>14

LEMMA MainStaysHome == ASSUME MainInv, Next PROVE StaysHome
<1> SUFFICES ASSUME Handles({"submission"}), home["submission"] # None,
                    NEW w \in win.open, w # home["submission"]
             PROVE  Content(win', w) = Content(win, w)
  BY DEF StaysHome
<1>1. w \in Tabs
  BY DEF MainInv, WindowTypes, Windows
<1>2. sub.origin = home["submission"] /\ sub.request \in Asked
  BY HandledByCallback DEF MainInv, AtHome
<1>3. Elsewhere
  BY <1>2, HandledByCallback, OutcomeStaysHome, FinishedStaysHome, AnswerStaysHome
<1> QED BY <1>1, <1>2, <1>3 DEF Elsewhere

\* _geometry_callback_context: whatever tab is shown, closed or bound when a submission
\* reports or its box is answered, nothing changes in any tab but its own, and the
\* registers of the tab the user works in are stored before and bound again after.
THEOREM SubmissionAlwaysStaysHome == WorkbenchSpec => SubmissionStaysHome
<1>1. MainWindowInv /\ [WorkbenchNext]_workbench => [area = "window" => StaysHome]_workbench
  <2> SUFFICES ASSUME MainWindowInv, WorkbenchNext, area = "window" PROVE StaysHome
    OBVIOUS
  <2>1. Next /\ MainInv
    BY DEF WorkbenchNext, MainWindowInv
  <2> QED BY <2>1, MainStaysHome
<1> QED BY <1>1, MainWindowInvariant, PTL DEF WorkbenchSpec, SubmissionStaysHome

----------------------------------------------------------------------------
(* The tab of a density result.                                            *)

Controls == [fraction : Fractions, difference : BOOLEAN, resolution : Resolutions, isovalue : Isovalues]
Surfaces == [revision : Nat, timer : BOOLEAN, worker : {None} \cup Result!SurfaceWork, computed : BOOLEAN,
             pending : BOOLEAN]

Fields == {None} \cup [grid : Resolutions, weight : Fractions, reference : BOOLEAN]
Displays == [field : Fields, resolution : {None} \cup Resolutions, isovalue : {None} \cup Isovalues,
             missed : BOOLEAN]

SurfaceTypes ==
    /\ control \in Controls /\ dialog \in {None} \cup Controls
    /\ surface \in Surfaces /\ displayed \in Displays

\* What a worker or a cache has is of the resolution it was computed for.
BasesFit ==
    /\ kept \in [Resolutions -> {None} \cup [grid : Resolutions]]
    /\ \A r \in Resolutions : kept[r] \in {None, Result!DisplayBasis(r)}
    /\ surface.worker # None =>
          surface.worker.basis \in {None, Result!DisplayBasis(surface.worker.resolution)}
    /\ displayed.field # None => displayed.field.grid = displayed.resolution

\* The signals of the worker that are still to come.
SignalsFit ==
    /\ posted # <<>> => surface.worker # None /\ surface.computed
    /\ posted = <<>> => ~surface.computed
    /\ \/ posted = <<>> \/ posted = <<Result!Finished>>
       \/ posted = <<Result!Failed, Result!Finished>>
       \/ posted = <<Result!Prepared(surface.worker), Result!Finished>>

\* A worker of the revision asked for works on what the controls show, and behind the
\* dialog only what it previews has changed.
RevisionFits ==
    /\ surface.worker # None /\ surface.worker.revision = surface.revision =>
          /\ surface.worker.fraction = control.fraction
          /\ surface.worker.difference = control.difference
          /\ surface.worker.resolution = control.resolution
    /\ surface.worker # None => surface.worker.revision <= surface.revision
    /\ dialog # None => dialog.fraction = control.fraction /\ dialog.difference = control.difference

DisplayedFits ==
    /\ displayed.field = Result!Shown(control)
    /\ displayed.field # None => displayed.isovalue = control.isovalue

\* Either the right surface is shown, or one will come.
SurfaceComes ==
    \/ surface.timer \/ displayed.missed \/ DisplayedFits
    \/ /\ surface.worker # None
       /\ \/ surface.pending
          \/ surface.worker.revision = surface.revision /\ posted # <<Result!Finished>>

ResultInv == SurfaceTypes /\ BasesFit /\ SignalsFit /\ RevisionFits /\ SurfaceComes
ResultAreaInv == area = "result" => ResultInv

LEMMA SurfaceSource ==
    Source \in Resolutions /\ {0, 100} \subseteq Fractions /\ None \notin Result!SurfaceWork
BY PartsAssumption DEF PartsAssumption, Result!ViewAssumption

LEMMA ResultInit == Result!Init => ResultInv
<1> SUFFICES ASSUME Result!Init PROVE ResultInv
  OBVIOUS
<1>1. /\ control \in [fraction : {100}, difference : {TRUE}, resolution : Resolutions, isovalue : Isovalues]
      /\ dialog = None /\ posted = <<>>
      /\ surface = [revision |-> 1, timer |-> TRUE, worker |-> None, computed |-> FALSE, pending |-> FALSE]
      /\ kept = [r \in Resolutions |-> IF r = Source THEN Result!DisplayBasis(r) ELSE None]
      /\ displayed = [field |-> None, resolution |-> None, isovalue |-> None, missed |-> FALSE]
  BY DEF Result!Init
<1>2. SurfaceTypes
  BY <1>1, SurfaceSource DEF SurfaceTypes, Controls, Surfaces, Displays, Fields
<1>3. BasesFit
  BY <1>1 DEF BasesFit, Result!DisplayBasis
<1>4. SignalsFit /\ RevisionFits /\ SurfaceComes
  BY <1>1 DEF SignalsFit, RevisionFits, SurfaceComes
<1> QED BY <1>2, <1>3, <1>4 DEF ResultInv

\* A gesture asks for another surface.
LEMMA SurfaceAskedFor ==
    ASSUME ResultInv, control' \in Controls, surface' = Result!Requested(surface),
           dialog' \in {None, dialog}, UNCHANGED <<kept, displayed, posted>>,
           dialog' # None => dialog'.fraction = control'.fraction /\ dialog'.difference = control'.difference
    PROVE  ResultInv'
<1>1. /\ surface' \in Surfaces /\ surface'.revision = surface.revision + 1 /\ surface'.timer
      /\ surface'.worker = surface.worker /\ surface'.computed = surface.computed
      /\ surface.revision \in Nat /\ (surface.worker # None => surface.worker.revision \in Nat)
  <2>1. surface \in Surfaces /\ surface.revision + 1 \in Nat
    BY DEF ResultInv, SurfaceTypes, Surfaces
  <2>2. surface' = [surface EXCEPT !.revision = surface.revision + 1, !.timer = TRUE]
    BY DEF Result!Requested
  <2>3. surface.worker # None => surface.worker.revision \in Nat
    BY <2>1 DEF Surfaces, Result!SurfaceWork
  <2>4. surface' \in Surfaces
    <3>1. surface.worker \in {None} \cup Result!SurfaceWork
      BY <2>1 DEF Surfaces
    <3> HIDE DEF Result!SurfaceWork
    <3> QED BY <2>1, <2>2, <3>1 DEF Surfaces
  <2>5. surface'.revision = surface.revision + 1 /\ surface'.worker = surface.worker
    BY <2>1, <2>2 DEF Surfaces
  <2>6. surface'.timer /\ surface'.computed = surface.computed
    BY <2>1, <2>2 DEF Surfaces
  <2> QED BY <2>1, <2>3, <2>4, <2>5, <2>6 DEF Surfaces
<1>2. SurfaceTypes'
  BY <1>1 DEF ResultInv, SurfaceTypes
<1>3. BasesFit' /\ SignalsFit'
  BY <1>1 DEF ResultInv, BasesFit, SignalsFit
<1>4. RevisionFits'
  BY <1>1 DEF ResultInv, RevisionFits
<1>5. SurfaceComes'
  BY <1>1 DEF SurfaceComes
<1> QED BY <1>2, <1>3, <1>4, <1>5 DEF ResultInv

\* What field the controls ask for, and on which grid.
LEMMA ShownGrid ==
    ASSUME NEW c \in Controls
    PROVE  Result!Shown(c) # None => Result!Shown(c).grid = c.resolution
BY DEF Controls, Result!Shown, Result!Interpolated, Result!DisplayBasis

\* An isovalue alone is given to the field on screen.
LEMMA IsovalueChanged ==
    ASSUME ResultInv, NEW isovalue \in Isovalues, control' = [control EXCEPT !.isovalue = isovalue],
           \/ Result!Redraw(isovalue)
           \/ displayed.resolution # control.resolution /\ UNCHANGED displayed,
           UNCHANGED <<surface, kept, posted>>, dialog' \in {None, dialog}
    PROVE  ResultInv'
<1>1. /\ control' \in Controls /\ control'.fraction = control.fraction
      /\ control'.difference = control.difference /\ control'.resolution = control.resolution
      /\ control'.isovalue = isovalue
  BY DEF ResultInv, SurfaceTypes, Controls
<1>2. /\ displayed' \in Displays /\ displayed'.field = displayed.field
      /\ displayed'.resolution = displayed.resolution /\ displayed'.missed = displayed.missed
      /\ displayed'.field # None => \/ displayed'.isovalue = isovalue
                                    \/ displayed.resolution # control.resolution
  BY DEF ResultInv, SurfaceTypes, Displays, Result!Redraw
<1>3. SurfaceTypes'
  BY <1>1, <1>2 DEF ResultInv, SurfaceTypes
<1>4. BasesFit' /\ SignalsFit' /\ RevisionFits'
  BY <1>1, <1>2 DEF ResultInv, BasesFit, SignalsFit, RevisionFits
<1>5. Result!Shown(control)' = Result!Shown(control)
  BY <1>1 DEF Result!Shown
<1>6. DisplayedFits => DisplayedFits'
  <2> SUFFICES ASSUME DisplayedFits PROVE DisplayedFits'
    OBVIOUS
  <2>1. displayed.field # None => displayed.resolution = control.resolution
    BY ShownGrid DEF DisplayedFits, ResultInv, SurfaceTypes, BasesFit
  <2> QED BY <2>1, <1>1, <1>2, <1>5 DEF DisplayedFits
<1>7. SurfaceComes'
  BY <1>2, <1>6 DEF ResultInv, SurfaceComes
<1> QED BY <1>3, <1>4, <1>7 DEF ResultInv

LEMMA GestureKeeps == ASSUME ResultInv, Result!Gestures PROVE ResultInv'
<1>1. ASSUME NEW fraction \in Fractions, Result!MoveSlider(fraction) PROVE ResultInv'
  <2>1. control' = [control EXCEPT !.fraction = fraction] /\ dialog = None
    BY <1>1 DEF Result!MoveSlider, Result!Enabled
  <2>2. control' \in Controls
    BY <2>1 DEF ResultInv, SurfaceTypes, Controls
  <2> QED BY <1>1, <2>1, <2>2, SurfaceAskedFor DEF Result!MoveSlider
<1>2. ASSUME NEW difference \in BOOLEAN, Result!SelectMode(difference) PROVE ResultInv'
  <2>1. control' = [control EXCEPT !.difference = difference] /\ dialog = None
    BY <1>2 DEF Result!SelectMode, Result!Enabled
  <2>2. control' \in Controls
    BY <2>1 DEF ResultInv, SurfaceTypes, Controls
  <2> QED BY <1>2, <2>1, <2>2, SurfaceAskedFor DEF Result!SelectMode
<1>3. ASSUME NEW resolution \in Resolutions, Result!SelectResolution(resolution) PROVE ResultInv'
  <2>1. control' = [control EXCEPT !.resolution = resolution] /\ dialog = None
    BY <1>3 DEF Result!SelectResolution, Result!Enabled
  <2>2. control' \in Controls
    BY <2>1 DEF ResultInv, SurfaceTypes, Controls
  <2> QED BY <1>3, <2>1, <2>2, SurfaceAskedFor DEF Result!SelectResolution
<1>4. ASSUME Result!OpenViewSettings PROVE ResultInv'
  BY <1>4 DEF Result!OpenViewSettings, ResultInv, SurfaceTypes, BasesFit, SignalsFit, RevisionFits,
              SurfaceComes, DisplayedFits, Result!Shown
<1>5. ASSUME Result!AcceptViewSettings PROVE ResultInv'
  BY <1>5 DEF Result!AcceptViewSettings, ResultInv, SurfaceTypes, BasesFit, SignalsFit, RevisionFits,
              SurfaceComes, DisplayedFits, Result!Shown
<1>6. ASSUME Result!CancelViewSettings PROVE ResultInv'
  <2>1. /\ dialog # None /\ dialog' = None /\ control' = dialog /\ UNCHANGED <<kept, posted>>
        /\ dialog \in Controls /\ control \in Controls
        /\ dialog.fraction = control.fraction /\ dialog.difference = control.difference
    BY <1>6 DEF Result!CancelViewSettings, ResultInv, SurfaceTypes, RevisionFits
  <2>2. CASE control.resolution # dialog.resolution
    <3>1. surface' = Result!Requested(surface) /\ UNCHANGED displayed
      BY <1>6, <2>2 DEF Result!CancelViewSettings
    <3> QED BY <2>1, <3>1, SurfaceAskedFor
  <2>3. CASE control.resolution = dialog.resolution
    <3>1. Result!Redraw(dialog.isovalue) /\ UNCHANGED surface
      BY <1>6, <2>3 DEF Result!CancelViewSettings
    <3>2. dialog = [control EXCEPT !.isovalue = dialog.isovalue] /\ dialog.isovalue \in Isovalues
      BY <2>1, <2>3 DEF Controls
    <3> QED BY <2>1, <3>1, <3>2, IsovalueChanged
  <2> QED BY <2>2, <2>3
<1>7. ASSUME NEW resolution \in Resolutions, NEW isovalue \in Isovalues,
             Result!PreviewOrbital(resolution, isovalue)
      PROVE  ResultInv'
  <2>1. /\ dialog # None /\ UNCHANGED <<dialog, kept, posted>>
        /\ control' = [control EXCEPT !.resolution = resolution, !.isovalue = isovalue]
        /\ dialog.fraction = control.fraction /\ dialog.difference = control.difference
    BY <1>7 DEF Result!PreviewOrbital, ResultInv, RevisionFits
  <2>2. control' \in Controls /\ control'.fraction = control.fraction
        /\ control'.difference = control.difference
    BY <2>1 DEF ResultInv, SurfaceTypes, Controls
  <2>3. CASE resolution # control.resolution
    <3>1. surface' = Result!Requested(surface) /\ UNCHANGED displayed
      BY <1>7, <2>3 DEF Result!PreviewOrbital
    <3> QED BY <2>1, <2>2, <3>1, SurfaceAskedFor
  <2>4. CASE resolution = control.resolution
    <3>1. /\ UNCHANGED surface
          /\ IF displayed.resolution = resolution THEN Result!Redraw(isovalue) ELSE UNCHANGED displayed
      BY <1>7, <2>4 DEF Result!PreviewOrbital
    <3>2. control' = [control EXCEPT !.isovalue = isovalue]
      BY <2>1, <2>4 DEF ResultInv, SurfaceTypes, Controls
    <3>3. CASE displayed.resolution = resolution
      BY <2>1, <3>1, <3>2, <3>3, IsovalueChanged
    <3>4. CASE displayed.resolution # resolution
      BY <2>1, <2>4, <3>1, <3>2, <3>4, IsovalueChanged
    <3> QED BY <3>3, <3>4
  <2> QED BY <2>3, <2>4
<1>8. ASSUME Result!Export PROVE ResultInv'
  BY <1>8 DEF Result!Export, ResultInv, SurfaceTypes, BasesFit, SignalsFit, RevisionFits,
              SurfaceComes, DisplayedFits, Result!Shown
<1> QED BY <1>1, <1>2, <1>3, <1>4, <1>5, <1>6, <1>7, <1>8 DEF Result!Gestures

\* A worker is started with what the controls show.
LEMMA StartSurfaceKeeps == ASSUME ResultInv, Result!StartSurface PROVE ResultInv'
<1>1. surface.timer /\ UNCHANGED <<control, dialog, kept, displayed, posted>>
  BY DEF Result!StartSurface
<1>2. surface \in Surfaces /\ control \in Controls
  BY DEF ResultInv, SurfaceTypes
<1>3. CASE surface.worker # None
  <2>1. surface' = [surface EXCEPT !.timer = FALSE, !.pending = TRUE]
    BY <1>3 DEF Result!StartSurface
  <2>2. surface' \in Surfaces /\ surface'.revision = surface.revision
    BY <2>1, <1>2 DEF Surfaces
  <2>3. surface'.worker = surface.worker
    BY <2>1, <1>2 DEF Surfaces
  <2>4. surface'.computed = surface.computed /\ surface'.pending
    BY <2>1, <1>2 DEF Surfaces
  <2>5. SurfaceTypes'
    BY <1>1, <2>2 DEF ResultInv, SurfaceTypes
  <2>6. BasesFit' /\ SignalsFit'
    BY <1>1, <2>3, <2>4 DEF ResultInv, BasesFit, SignalsFit
  <2>7. RevisionFits'
    BY <1>1, <2>2, <2>3 DEF ResultInv, RevisionFits
  <2>8. SurfaceComes'
    BY <1>3, <2>3, <2>4 DEF SurfaceComes
  <2> QED BY <2>5, <2>6, <2>7, <2>8 DEF ResultInv
<1>4. CASE surface.worker = None
  <2> DEFINE w == [revision |-> surface.revision, fraction |-> control.fraction,
                   difference |-> control.difference, resolution |-> control.resolution,
                   basis |-> kept[control.resolution]]
  <2>1. surface' = [surface EXCEPT !.timer = FALSE, !.worker = w]
    BY <1>4 DEF Result!StartSurface
  <2>2. w \in Result!SurfaceWork /\ w.basis \in {None, Result!DisplayBasis(w.resolution)}
    BY <1>2 DEF ResultInv, BasesFit, Result!SurfaceWork, Controls, Surfaces
  <2>3. /\ w.revision = surface.revision /\ w.fraction = control.fraction
        /\ w.difference = control.difference /\ w.resolution = control.resolution
    OBVIOUS
  <2> HIDE DEF w
  <2>4. posted = <<>>
    BY <1>4 DEF ResultInv, SignalsFit
  <2>5. surface' \in Surfaces /\ surface'.worker = w /\ surface'.revision = surface.revision
    BY <2>1, <2>2, <1>2 DEF Surfaces
  <2>6. SurfaceTypes'
    BY <1>1, <2>5 DEF ResultInv, SurfaceTypes
  <2>7. BasesFit'
    BY <1>1, <2>2, <2>5 DEF ResultInv, BasesFit
  <2>8. RevisionFits'
    BY <1>1, <2>3, <2>5, <1>2 DEF ResultInv, RevisionFits, Surfaces
  <2>9. w # None
    BY <2>2, SurfaceSource
  <2>10. surface'.computed = surface.computed
    BY <2>1, <1>2 DEF Surfaces
  <2>11. SignalsFit'
    BY <1>1, <2>4, <2>10 DEF ResultInv, SignalsFit
  <2>12. SurfaceComes'
    BY <1>1, <2>3, <2>4, <2>5, <2>9 DEF SurfaceComes
  <2> QED BY <2>6, <2>7, <2>8, <2>11, <2>12 DEF ResultInv
<1> QED BY <1>3, <1>4

\* The worker has a field for what it was started with, or has failed.
LEMMA PrepareSurfaceKeeps == ASSUME ResultInv, Result!PrepareSurface PROVE ResultInv'
<1>1. /\ surface.worker # None /\ posted = <<>> /\ UNCHANGED <<control, dialog, kept, displayed>>
      /\ surface' = [surface EXCEPT !.computed = TRUE]
  BY DEF Result!PrepareSurface
<1>2. \/ posted' = <<Result!Prepared(surface.worker), Result!Finished>>
      \/ posted' = <<Result!Failed, Result!Finished>>
  BY DEF Result!PrepareSurface
<1>3. surface \in Surfaces
  BY DEF ResultInv, SurfaceTypes
<1>4. surface' \in Surfaces /\ surface'.revision = surface.revision
  BY <1>1, <1>3 DEF Surfaces
<1>5. surface'.worker = surface.worker
  BY <1>1, <1>3 DEF Surfaces
<1>6. surface'.computed
  BY <1>1, <1>3 DEF Surfaces
<1>7. surface'.timer = surface.timer
  BY <1>1, <1>3 DEF Surfaces
<1>8. surface'.pending = surface.pending
  BY <1>1, <1>3 DEF Surfaces
<1>9. posted' # <<>> /\ posted' # <<Result!Finished>>
  BY <1>2
<1>10. SurfaceTypes'
  BY <1>1, <1>4 DEF ResultInv, SurfaceTypes
<1>11. BasesFit' /\ RevisionFits'
  BY <1>1, <1>4, <1>5 DEF ResultInv, BasesFit, RevisionFits
<1>12. SignalsFit'
  <2>1. Result!Prepared(surface.worker)' = Result!Prepared(surface.worker)
    BY <1>5 DEF Result!Prepared
  <2> QED BY <1>1, <1>2, <1>5, <1>6, <1>9, <2>1 DEF SignalsFit
<1>13. DisplayedFits' = DisplayedFits
  BY <1>1 DEF DisplayedFits, Result!Shown
<1>14. SurfaceComes'
  <2>1. CASE surface.timer \/ displayed.missed \/ DisplayedFits
    BY <1>1, <1>7, <1>13, <2>1 DEF SurfaceComes
  <2>2. CASE ~(surface.timer \/ displayed.missed \/ DisplayedFits)
    <3>1. surface.pending \/ surface.worker.revision = surface.revision
      BY <2>2 DEF ResultInv, SurfaceComes
    <3>2. surface'.pending \/ surface'.worker.revision = surface'.revision
      BY <3>1, <1>4, <1>5, <1>8
    <3> QED BY <1>1, <1>5, <1>9, <3>2 DEF SurfaceComes
  <2> QED BY <2>1, <2>2
<1> QED BY <1>10, <1>11, <1>12, <1>14 DEF ResultInv

\* What a worker of the controls' own settings has made is what they show.
LEMMA PreparedIsShown ==
    ASSUME ResultInv, NEW w, w = surface.worker, w # None, w.revision = surface.revision
    PROVE  /\ Result!Prepared(w).field = Result!Shown(control)
           /\ w.resolution = control.resolution
<1>1. /\ w.fraction = control.fraction /\ w.difference = control.difference
      /\ w.resolution = control.resolution
      /\ w.basis \in {None, Result!DisplayBasis(w.resolution)}
  BY DEF ResultInv, RevisionFits, BasesFit
<1> QED BY <1>1 DEF Result!Prepared, Result!Shown

LEMMA PreparedTypes ==
    ASSUME NEW w \in Result!SurfaceWork, w.basis \in {None, Result!DisplayBasis(w.resolution)}
    PROVE  /\ Result!Prepared(w).field \in Fields
           /\ Result!Prepared(w).field # None => Result!Prepared(w).field.grid = w.resolution
           /\ Result!Prepared(w).basis \in {None, Result!DisplayBasis(w.resolution)}
           /\ Result!Prepared(w).kind = "ready"
BY DEF Result!SurfaceWork, Result!Prepared, Result!Interpolated, Result!DisplayBasis, Fields

\* A field is shown when it is still the one asked for, and its basis is kept anyway.
LEMMA SurfaceReadyKeeps == ASSUME ResultInv, Result!SurfaceReady PROVE ResultInv'
<1> DEFINE w == surface.worker
<1>1. /\ posted # <<>> /\ Head(posted).kind = "ready" /\ posted' = Tail(posted)
      /\ UNCHANGED <<control, dialog, surface>>
  BY DEF Result!SurfaceReady
<1>2. /\ w # None /\ surface.computed
      /\ posted = <<Result!Prepared(w), Result!Finished>>
  BY <1>1 DEF ResultInv, SignalsFit, Result!Finished, Result!Failed
<1>3. Head(posted) = Result!Prepared(w) /\ posted' = <<Result!Finished>>
  BY <1>1, <1>2
<1>4. w \in Result!SurfaceWork /\ w.basis \in {None, Result!DisplayBasis(w.resolution)}
  BY <1>2 DEF ResultInv, SurfaceTypes, Surfaces, BasesFit
<1>5. w.resolution \in Resolutions
  BY <1>4 DEF Result!SurfaceWork
<1>6. /\ kept' \in [Resolutions -> {None} \cup [grid : Resolutions]]
      /\ \A r \in Resolutions : kept'[r] \in {None, Result!DisplayBasis(r)}
  <2>1. \/ kept' = kept
        \/ kept' = [kept EXCEPT ![w.resolution] = Result!Prepared(w).basis]
    BY <1>3 DEF Result!SurfaceReady
  <2>2. Result!Prepared(w).basis \in {None, Result!DisplayBasis(w.resolution)}
    BY <1>4, PreparedTypes
  <2>3. Result!DisplayBasis(w.resolution) \in [grid : Resolutions]
    BY <1>5 DEF Result!DisplayBasis
  <2> QED BY <1>5, <2>1, <2>2, <2>3 DEF ResultInv, BasesFit
<1>7. \/ /\ w.revision = surface.revision
         /\ displayed' = [field |-> Result!Prepared(w).field, resolution |-> w.resolution,
                          isovalue |-> control.isovalue, missed |-> FALSE]
      \/ w.revision = surface.revision /\ displayed' = [displayed EXCEPT !.missed = TRUE]
      \/ w.revision # surface.revision /\ displayed' = displayed
  <2>1. w.revision = surface.revision => w.resolution = control.resolution
    BY <1>2, PreparedIsShown
  <2> QED BY <1>3, <2>1 DEF Result!SurfaceReady
<1>8. SignalsFit' /\ RevisionFits'
  BY <1>1, <1>2, <1>3 DEF ResultInv, SignalsFit, RevisionFits
<1>9. /\ displayed' \in Displays
      /\ displayed'.field # None => displayed'.field.grid = displayed'.resolution
      /\ SurfaceComes'
  <2>1. CASE displayed' = [field |-> Result!Prepared(w).field, resolution |-> w.resolution,
                          isovalue |-> control.isovalue, missed |-> FALSE]
             /\ w.revision = surface.revision
    <3>1. /\ displayed'.field = Result!Prepared(w).field /\ displayed'.resolution = w.resolution
          /\ displayed'.isovalue = control.isovalue
      BY <2>1
    <3>2. Result!Prepared(w).field \in Fields
      BY <1>4, PreparedTypes
    <3>3. displayed' \in Displays
      BY <2>1, <3>2, <1>5 DEF ResultInv, SurfaceTypes, Controls, Displays
    <3>4. displayed'.field # None => displayed'.field.grid = displayed'.resolution
      BY <3>1, <1>4, PreparedTypes
    <3>5. DisplayedFits'
      BY <1>1, <1>2, <2>1, <3>1, PreparedIsShown DEF DisplayedFits, Result!Shown
    <3> QED BY <3>3, <3>4, <3>5 DEF SurfaceComes
  <2>2. CASE displayed' = [displayed EXCEPT !.missed = TRUE]
    <3>1. displayed \in Displays
      BY DEF ResultInv, SurfaceTypes
    <3>2. displayed' \in Displays /\ displayed'.field = displayed.field
          /\ displayed'.resolution = displayed.resolution
      BY <2>2, <3>1 DEF Displays
    <3>3. displayed'.missed
      BY <2>2, <3>1 DEF Displays
    <3> QED BY <3>2, <3>3 DEF ResultInv, BasesFit, SurfaceComes
  <2>3. CASE displayed' = displayed /\ w.revision # surface.revision
    <3>1. DisplayedFits' = DisplayedFits
      BY <1>1, <2>3 DEF DisplayedFits, Result!Shown
    <3>2. SurfaceComes'
      <4>1. surface.timer \/ displayed.missed \/ DisplayedFits \/ surface.pending
        BY <2>3 DEF ResultInv, SurfaceComes
      <4> QED BY <1>1, <1>2, <2>3, <3>1, <4>1 DEF SurfaceComes
    <3> QED BY <2>3, <3>2 DEF ResultInv, SurfaceTypes, BasesFit
  <2> QED BY <1>7, <2>1, <2>2, <2>3
<1>10. SurfaceTypes' /\ BasesFit'
  BY <1>1, <1>6, <1>9 DEF ResultInv, SurfaceTypes, BasesFit
<1> QED BY <1>8, <1>9, <1>10 DEF ResultInv

LEMMA SurfaceFailedKeeps == ASSUME ResultInv, Result!SurfaceFailed PROVE ResultInv'
<1>1. /\ posted # <<>> /\ Head(posted).kind = "failed" /\ posted' = Tail(posted)
      /\ displayed' = [displayed EXCEPT !.missed = TRUE]
      /\ UNCHANGED <<control, dialog, surface, kept>>
  BY DEF Result!SurfaceFailed
<1>2. surface.worker # None /\ surface.computed /\ posted' = <<Result!Finished>>
  <2>1. posted = <<Result!Failed, Result!Finished>>
    BY <1>1 DEF ResultInv, SignalsFit, Result!Finished, Result!Prepared
  <2> QED BY <1>1, <2>1 DEF ResultInv, SignalsFit
<1>3. displayed \in Displays
  BY DEF ResultInv, SurfaceTypes
<1>4. displayed' \in Displays /\ displayed'.field = displayed.field
      /\ displayed'.resolution = displayed.resolution
  BY <1>1, <1>3 DEF Displays
<1>5. displayed'.missed
  BY <1>1, <1>3 DEF Displays
<1>6. SurfaceTypes' /\ BasesFit'
  BY <1>1, <1>4 DEF ResultInv, SurfaceTypes, BasesFit
<1>7. SignalsFit' /\ RevisionFits'
  <2>1. posted' # <<>>
    BY <1>2
  <2>2. SignalsFit'
    BY <1>1, <1>2, <2>1 DEF SignalsFit
  <2>3. RevisionFits'
    BY <1>1 DEF ResultInv, RevisionFits
  <2> QED BY <2>2, <2>3
<1>8. SurfaceComes'
  BY <1>5 DEF SurfaceComes
<1> QED BY <1>6, <1>7, <1>8 DEF ResultInv

\* The worker's thread has ended: another follows when one was asked for meanwhile.
LEMMA SurfaceFinishedKeeps == ASSUME ResultInv, Result!SurfaceFinished PROVE ResultInv'
<1>1. /\ posted # <<>> /\ Head(posted).kind = "finished" /\ posted' = Tail(posted)
      /\ surface' = [surface EXCEPT !.worker = None, !.computed = FALSE, !.pending = FALSE,
                                    !.timer = @ \/ surface.pending]
      /\ UNCHANGED <<control, dialog, kept, displayed>>
  BY DEF Result!SurfaceFinished
<1>2. posted = <<Result!Finished>> /\ posted' = <<>>
  <2>1. posted = <<Result!Finished>>
    BY <1>1 DEF ResultInv, SignalsFit, Result!Failed, Result!Prepared
  <2> QED BY <1>1, <2>1
<1>3. surface \in Surfaces
  BY DEF ResultInv, SurfaceTypes
<1>4. surface' \in Surfaces /\ surface'.worker = None
  <2> DEFINE t == [revision |-> surface.revision, timer |-> surface.timer \/ surface.pending,
                   worker |-> None, computed |-> FALSE, pending |-> FALSE]
  <2>1. surface' = t
    BY <1>1, <1>3 DEF Surfaces
  <2>2. t \in Surfaces
    BY <1>3 DEF Surfaces
  <2> QED BY <2>1, <2>2
<1>5. ~surface'.computed
  BY <1>1, <1>3 DEF Surfaces
<1>6. surface.timer \/ surface.pending => surface'.timer
  BY <1>1, <1>3 DEF Surfaces
<1>7. SurfaceTypes'
  BY <1>1, <1>4 DEF ResultInv, SurfaceTypes
<1>8. BasesFit' /\ RevisionFits' /\ SignalsFit'
  BY <1>1, <1>2, <1>4, <1>5 DEF ResultInv, BasesFit, RevisionFits, SignalsFit
<1>9. SurfaceComes'
  <2>1. surface.timer \/ displayed.missed \/ DisplayedFits \/ surface.pending
    BY <1>2 DEF ResultInv, SurfaceComes
  <2>2. DisplayedFits' = DisplayedFits
    BY <1>1 DEF DisplayedFits, Result!Shown
  <2> QED BY <1>1, <1>6, <2>1, <2>2 DEF SurfaceComes
<1> QED BY <1>7, <1>8, <1>9 DEF ResultInv

LEMMA ResultUnchanged ==
    ASSUME ResultInv, UNCHANGED <<control, dialog, surface, kept, displayed, posted>>
    PROVE  ResultInv'
BY DEF ResultInv, SurfaceTypes, BasesFit, SignalsFit, RevisionFits, SurfaceComes, DisplayedFits,
       Result!Shown, Result!Prepared

LEMMA ResultNext == ASSUME ResultInv, Result!Next PROVE ResultInv'
<1>1. CASE Result!ExportEnds
  BY <1>1, ResultUnchanged DEF Result!ExportEnds
<1> QED BY <1>1, GestureKeeps, StartSurfaceKeeps, PrepareSurfaceKeeps, SurfaceReadyKeeps,
           SurfaceFailedKeeps, SurfaceFinishedKeeps DEF Result!Next, Result!Surfaces

LEMMA ResultInvImplies == ResultInv => Result!SurfaceIsCurrent
<1> SUFFICES ASSUME ResultInv PROVE Result!SurfaceIsCurrent
  OBVIOUS
<1>1. \A r \in Resolutions : kept[r] \in {None, Result!DisplayBasis(r)}
  BY DEF ResultInv, BasesFit
<1>2. Result!Quiet /\ ~displayed.missed => DisplayedFits
  BY DEF ResultInv, SurfaceComes, Result!Quiet
<1> QED BY <1>1, <1>2 DEF Result!SurfaceIsCurrent, DisplayedFits

LEMMA ResultSpec == WorkbenchSpec => []ResultAreaInv
<1>1. WorkbenchInit => ResultAreaInv
  BY ResultInit DEF WorkbenchInit, ResultAreaInv
<1>2. ASSUME ResultAreaInv, [WorkbenchNext]_workbench
      PROVE  ResultAreaInv'
  <2>1. area' = area
    BY <1>2 DEF WorkbenchNext, workbench
  <2>2. CASE Result!Next
    BY <1>2, <2>1, <2>2, ResultNext DEF ResultAreaInv
  <2>3. CASE UNCHANGED <<control, dialog, surface, kept, displayed, posted>>
    BY <1>2, <2>1, <2>3, ResultUnchanged DEF ResultAreaInv
  <2>4. CASE area # "result"
    BY <2>1, <2>4 DEF ResultAreaInv
  <2>5. WorkbenchNext /\ area = "result" => Result!Next
    BY DEF WorkbenchNext
  <2>6. UNCHANGED workbench => UNCHANGED <<control, dialog, surface, kept, displayed, posted>>
    BY DEF workbench, common, result
  <2> QED BY <1>2, <2>2, <2>3, <2>4, <2>5, <2>6
<1> QED BY <1>1, <1>2, PTL DEF WorkbenchSpec

----------------------------------------------------------------------------
(* The tight-binding window.                                               *)

Forms ==
    [onsite : [{Molecule[a] : a \in DOMAIN Molecule} -> Binding!FieldTexts],
     hopping : [{Binding!PairOf(b) : b \in Bonds} -> Binding!FieldTexts],
     atom : [DOMAIN Molecule -> Binding!FieldTexts], bond : [Bonds -> Binding!FieldTexts],
     left : DOMAIN Molecule \cup {0}, right : DOMAIN Molecule \cup {0}, grid : Binding!FieldTexts]
Cursors ==
    [atom : {None} \cup DOMAIN Molecule, bond : {None} \cup Bonds, pick : {None, "left", "right"}]
Works ==
    [gen : Nat, model : {None} \cup Binding!Models, started : BOOLEAN, timer : BOOLEAN,
     running : {None} \cup Binding!Requests, computed : BOOLEAN,
     pending : {None} \cup Binding!Requests, closed : BOOLEAN]

BindingTypes ==
    /\ form \in Forms /\ cursor \in Cursors /\ work \in Works
    /\ shown = [status |-> shown.status, matrix |-> shown.matrix, plot |-> shown.plot]

\* The model and the matrix are those of the fields.
FieldsFit == work.model = Binding!Resolved(form) /\ shown.matrix = Binding!PartialValues(form)

\* A request of the generation of the fields is of their model.
RequestsFit ==
    \A q \in {work.running, work.pending} :
        q # None => q.gen <= work.gen /\ q.model # None /\ (q.gen = work.gen => q.model = work.model)

\* What the worker posts.
Ended == [kind |-> "finished", result |-> None]
Answer(model) ==
    IF Binding!Converges(model.h) /\ Binding!Finite(model)
    THEN [kind |-> "succeeded", result |-> Binding!Transmission(model, model.h)]
    ELSE [kind |-> "failed", result |-> None]

AnswersFit ==
    /\ posted = <<>> => ~work.computed
    /\ posted # <<>> => work.running # None /\ work.computed
    /\ posted = <<>> \/ posted = <<Ended>> \/ posted = <<Answer(work.running.model), Ended>>

\* Either the plot is that of the fields, or it will be computed, or it cannot be.
PlotFits == shown.plot = Binding!Transmission(work.model, work.model.h)
Underway ==
    /\ work.running # None
    /\ \/ work.pending # None /\ work.pending.gen = work.gen
       \/ work.running.gen = work.gen /\ posted # <<Ended>>
PlotComes ==
    \/ work.closed \/ ~work.started \/ work.model = None \/ work.timer \/ PlotFits
    \/ ~Binding!Converges(work.model.h) \/ ~Binding!Finite(work.model)
    \/ Underway

BindingInv ==
    /\ BindingTypes /\ FieldsFit /\ RequestsFit /\ AnswersFit
    /\ shown.status = "calculated" => PlotFits
    /\ PlotComes
BindingAreaInv == area = "binding" => BindingInv

\* The operators of the modules that the window's module uses are those used here.
LEMMA FiniteHere ==
    ASSUME NEW S
    PROVE  /\ Binding!IsFiniteSet(S) <=> IsFiniteSet(S)
           /\ Binding!Cardinality(S) = Cardinality(S)
<1>1. Binding!IsFiniteSet(S) <=> IsFiniteSet(S)
  BY DEF Binding!IsFiniteSet, IsFiniteSet
<1>2. Binding!Cardinality(S) = Cardinality(S)
  BY Zenon DEF Binding!Cardinality, Cardinality
<1> QED BY <1>1, <1>2

LEMMA RangeHere == ASSUME NEW f PROVE Binding!Range(f) = {f[x] : x \in DOMAIN f}
BY DEF Binding!Range

LEMMA BindingConstants ==
    /\ DOMAIN Molecule \subseteq Nat \ {0} /\ LinkAtoms \subseteq DOMAIN Molecule
    /\ IsFiniteSet(LinkAtoms) /\ Bonds \subseteq SUBSET DOMAIN Molecule
    /\ \A kind \in Binding!Kinds : Offered[kind] \subseteq Binding!FieldTexts
    /\ None \notin Binding!Requests
<1>1. Binding!TightBindingAssumption
  BY PartsAssumption DEF PartsAssumption
<1>2. IsFiniteSet(LinkAtoms)
  BY <1>1, FS_Subset, FiniteHere DEF Binding!TightBindingAssumption, Binding!Atoms
<1>3. Offered \in [Binding!Kinds -> SUBSET Binding!FieldTexts]
  BY <1>1 DEF Binding!TightBindingAssumption
<1>4. \A kind \in Binding!Kinds : Offered[kind] \subseteq Binding!FieldTexts
  BY <1>3
<1> QED BY <1>1, <1>2, <1>4 DEF Binding!TightBindingAssumption, Binding!Atoms

\* What resolves is a model, and the matrix put together entry by entry is its
\* Hamiltonian: no entry of it is blank or malformed.
LEMMA ResolvedIsModel ==
    ASSUME NEW f \in Forms, Binding!Resolved(f) # None
    PROVE  /\ Binding!Resolved(f) \in Binding!Models
           /\ Binding!PartialValues(f) = Binding!Resolved(f).h
<1>1. /\ -1 \notin Binding!Texts(f) /\ ~Binding!Missing(f)
      /\ Binding!Resolved(f) = [h |-> Binding!Hamiltonian(f), left |-> f.left, right |-> f.right,
                                grid |-> f.grid]
  BY DEF Binding!Resolved, Binding!Malformed
<1>2. ASSUME NEW a \in DOMAIN Molecule
      PROVE  Binding!Onsite(f, a) \in Binding!FieldTexts /\ Binding!Onsite(f, a) > 0
  <2>1. f.atom[a] \in Binding!FieldTexts /\ f.onsite[Molecule[a]] \in Binding!FieldTexts
    BY DEF Forms
  <2>2. f.atom[a] # -1 /\ f.onsite[Molecule[a]] # -1
    <3>1. f.atom[a] \in Binding!Range(f.atom) /\ f.onsite[Molecule[a]] \in Binding!Range(f.onsite)
      BY RangeHere DEF Forms
    <3> QED BY <1>1, <3>1 DEF Binding!Texts
  <2>3. Binding!Onsite(f, a) # 0
    BY <1>1 DEF Binding!Missing, Binding!Blank, Binding!Atoms
  <2> QED BY <2>1, <2>2, <2>3 DEF Binding!Onsite, Binding!FieldTexts, Binding!Malformed, Binding!Blank
<1>3. ASSUME NEW b \in Bonds
      PROVE  Binding!Hopping(f, b) \in Binding!FieldTexts /\ Binding!Hopping(f, b) > 0
  <2>1. f.bond[b] \in Binding!FieldTexts /\ f.hopping[Binding!PairOf(b)] \in Binding!FieldTexts
    BY DEF Forms
  <2>2. f.bond[b] # -1 /\ f.hopping[Binding!PairOf(b)] # -1
    <3>1. f.bond[b] \in Binding!Range(f.bond) /\ f.hopping[Binding!PairOf(b)] \in Binding!Range(f.hopping)
      BY RangeHere DEF Forms
    <3> QED BY <1>1, <3>1 DEF Binding!Texts
  <2>3. Binding!Hopping(f, b) # 0
    BY <1>1 DEF Binding!Missing, Binding!Blank
  <2> QED BY <2>1, <2>2, <2>3 DEF Binding!Hopping, Binding!FieldTexts, Binding!Malformed, Binding!Blank
<1>4. f.left \in DOMAIN Molecule /\ f.right \in DOMAIN Molecule /\ f.grid \in Binding!FieldTexts
  BY <1>1 DEF Forms, Binding!Missing, Binding!Blank
<1>5. Binding!Hamiltonian(f) \in [onsite : [DOMAIN Molecule -> Binding!FieldTexts],
                                  hopping : [Bonds -> Binding!FieldTexts]]
  BY <1>2, <1>3 DEF Binding!Hamiltonian, Binding!Atoms
<1>6. Binding!Resolved(f) \in Binding!Models
  BY <1>1, <1>4, <1>5 DEF Binding!Models, Binding!Atoms
<1>7. Binding!PartialValues(f) = Binding!Hamiltonian(f)
  <2>1. \A a \in DOMAIN Molecule : Binding!Number(Binding!Onsite(f, a)) = Binding!Onsite(f, a)
    BY <1>2 DEF Binding!Number
  <2>2. \A b \in Bonds : Binding!Number(Binding!Hopping(f, b)) = Binding!Hopping(f, b)
    BY <1>3 DEF Binding!Number
  <2> QED BY <2>1, <2>2 DEF Binding!PartialValues, Binding!Hamiltonian, Binding!Atoms
<1> QED BY <1>1, <1>6, <1>7

LEMMA ResolvedTyped == ASSUME NEW f \in Forms PROVE Binding!Resolved(f) \in {None} \cup Binding!Models
BY ResolvedIsModel

\* The two contacts of a molecule of two link atoms are those atoms.
LEMMA EndsOfTwo ==
    ASSUME Cardinality(LinkAtoms) = 2
    PROVE  Binding!Min(LinkAtoms) \in DOMAIN Molecule /\ Binding!Max(LinkAtoms) \in DOMAIN Molecule
<1>1. LinkAtoms # {}
  BY FS_EmptySet
<1>2. PICK a \in LinkAtoms : TRUE
  BY <1>1
<1>3. Cardinality(LinkAtoms \ {a}) = 1 /\ IsFiniteSet(LinkAtoms \ {a})
  BY <1>2, BindingConstants, FS_RemoveElement
<1>4. PICK b : LinkAtoms \ {a} = {b}
  BY <1>3, FS_Singleton
<1>5. LinkAtoms = {a, b} /\ a \in Nat /\ b \in Nat
  BY <1>2, <1>4, BindingConstants
<1>6. \E x \in LinkAtoms : \A y \in LinkAtoms : x =< y
  BY <1>5
<1>7. \E x \in LinkAtoms : \A y \in LinkAtoms : x >= y
  BY <1>5
<1>8. Binding!Min(LinkAtoms) \in LinkAtoms
  BY <1>6 DEF Binding!Min
<1>9. Binding!Max(LinkAtoms) \in LinkAtoms
  BY <1>7 DEF Binding!Max
<1> QED BY <1>8, <1>9, BindingConstants

LEMMA BlankForm == Binding!Empty \in Forms
<1>1. 0 \in Binding!FieldTexts
  BY DEF Binding!FieldTexts
<1>2. Binding!Empty.left \in DOMAIN Molecule \cup {0} /\ Binding!Empty.right \in DOMAIN Molecule \cup {0}
  BY EndsOfTwo, FiniteHere DEF Binding!Empty, Binding!Blank
<1> QED BY <1>1, <1>2 DEF Binding!Empty, Forms, Binding!Blank, Binding!Atoms

LEMMA FilledForm == Binding!Entered \subseteq Forms
<1> SUFFICES ASSUME NEW f \in Binding!Entered PROVE f \in Forms
  OBVIOUS
<1>10. PICK o \in Offered["onsite"], h \in Offered["hopping"], g \in Offered["grid"] : f = Binding!Filled(o, h, g)
  BY DEF Binding!Entered
<1>1. f = [Binding!Empty EXCEPT !.onsite = [e \in DOMAIN @ |-> o], !.hopping = [p \in DOMAIN @ |-> h],
                                  !.grid = g]
  BY <1>10 DEF Binding!Filled
<1>2. o \in Binding!FieldTexts /\ h \in Binding!FieldTexts /\ g \in Binding!FieldTexts
  BY <1>10, BindingConstants DEF Binding!Kinds
<1>3. [e \in DOMAIN Binding!Empty.onsite |-> o] \in [{Molecule[a] : a \in DOMAIN Molecule} -> Binding!FieldTexts]
  BY <1>2, BlankForm DEF Forms
<1>4. [p \in DOMAIN Binding!Empty.hopping |-> h] \in [{Binding!PairOf(b) : b \in Bonds} -> Binding!FieldTexts]
  BY <1>2, BlankForm DEF Forms
<1> QED BY <1>1, <1>2, <1>3, <1>4, BlankForm DEF Forms

LEMMA BindingInit == Binding!Init => BindingInv
<1> SUFFICES ASSUME Binding!Init PROVE BindingInv
  OBVIOUS
<1>1. form \in Forms
  BY BlankForm, FilledForm DEF Binding!Init
<1>2. /\ cursor = [atom |-> None, bond |-> None, pick |-> None] /\ posted = <<>>
      /\ work = [gen |-> 0, model |-> Binding!Resolved(form), started |-> FALSE, timer |-> FALSE,
                 running |-> None, computed |-> FALSE, pending |-> None, closed |-> FALSE]
      /\ shown = [status |-> IF Binding!Resolved(form) = None THEN "invalid" ELSE "ready",
                  matrix |-> Binding!PartialValues(form), plot |-> None]
  BY DEF Binding!Init
<1>3. cursor \in Cursors
  BY <1>2 DEF Cursors
<1>4. work \in Works
  BY <1>1, <1>2, ResolvedTyped DEF Works
<1>5. shown = [status |-> shown.status, matrix |-> shown.matrix, plot |-> shown.plot]
  BY <1>2
<1>6. FieldsFit /\ RequestsFit /\ AnswersFit
  BY <1>2 DEF FieldsFit, RequestsFit, AnswersFit
<1>7. shown.status # "calculated" /\ PlotComes
  BY <1>2 DEF PlotComes
<1> QED BY <1>1, <1>3, <1>4, <1>5, <1>6, <1>7 DEF BindingInv, BindingTypes

\* Every edit resolves the model again, and asks for another calculation once one was
\* asked for; requests of the fields before it are of an earlier generation.
LEMMA ChangedKeeps ==
    ASSUME BindingInv, NEW f \in Forms, Binding!Changed(f), cursor' \in Cursors
    PROVE  BindingInv'
<1> DEFINE model == Binding!Resolved(f)
<1>1. /\ form' = f /\ posted' = posted
      /\ work' = [work EXCEPT !.gen = @ + 1, !.model = model, !.pending = None,
                              !.timer = IF model = None THEN @ ELSE @ \/ work.started]
      /\ shown' = [shown EXCEPT !.matrix = Binding!PartialValues(f),
                                !.status = IF model = None THEN "invalid" ELSE "ready"]
  BY DEF Binding!Changed
<1>2. model \in {None} \cup Binding!Models /\ model = Binding!Resolved(form')
  BY <1>1, ResolvedTyped
<1> HIDE DEF model
<1>3. work \in Works /\ work.gen \in Nat
  BY DEF BindingInv, BindingTypes, Works
<1>4. work'.gen = work.gen + 1 /\ work'.model = model /\ work'.pending = None
      /\ work'.running = work.running
  BY <1>1, <1>3 DEF Works
<1>5. work'.computed = work.computed
  BY <1>1, <1>3 DEF Works
<1>6. work'.started = work.started
  BY <1>1, <1>3 DEF Works
<1>7. work'.closed = work.closed
  BY <1>1, <1>3 DEF Works
<1>8. model # None /\ work.started => work'.timer
  BY <1>1, <1>3 DEF Works
<1>9. work' \in Works
  <2> DEFINE timer == IF model = None THEN work.timer ELSE work.timer \/ work.started
  <2>1. timer \in BOOLEAN
    BY <1>3 DEF Works
  <2>2. work' = [work EXCEPT !.gen = work.gen + 1, !.model = model, !.pending = None, !.timer = timer]
    BY <1>1
  <2> HIDE DEF timer
  <2> DEFINE t == [gen |-> work.gen + 1, model |-> model, started |-> work.started, timer |-> timer,
                   running |-> work.running, computed |-> work.computed, pending |-> None,
                   closed |-> work.closed]
  <2>3. work' = t
    BY <2>2, <1>3 DEF Works
  <2>4. work.gen + 1 \in Nat /\ work.started \in BOOLEAN /\ work.computed \in BOOLEAN
        /\ work.closed \in BOOLEAN /\ work.running \in {None} \cup Binding!Requests
    BY <1>3 DEF Works
  <2>5. t \in Works
    BY <2>1, <2>4, <1>2 DEF Works
  <2> QED BY <2>3, <2>5
<1>10. /\ shown' = [status |-> shown'.status, matrix |-> shown'.matrix, plot |-> shown'.plot]
       /\ shown'.matrix = Binding!PartialValues(f) /\ shown'.status # "calculated"
  <2>1. shown = [status |-> shown.status, matrix |-> shown.matrix, plot |-> shown.plot]
    BY DEF BindingInv, BindingTypes
  <2> QED BY <1>1, <2>1
<1>11. BindingTypes' /\ FieldsFit'
  BY <1>1, <1>2, <1>4, <1>9, <1>10 DEF BindingTypes, FieldsFit
<1>12. RequestsFit'
  <2>1. work.running # None => work.running.gen \in Nat /\ work.running.gen <= work.gen
                               /\ work.running.model # None
    BY <1>3 DEF BindingInv, RequestsFit, Works, Binding!Requests
  <2> QED BY <1>3, <1>4, <2>1 DEF RequestsFit
<1>13. AnswersFit'
  <2>1. Answer(work.running.model)' = Answer(work.running.model)
    BY <1>4 DEF Answer, Binding!Converges, Binding!Finite, Binding!Transmission
  <2> QED BY <1>1, <1>4, <1>5, <2>1 DEF BindingInv, AnswersFit
<1>14. PlotComes'
  BY <1>4, <1>6, <1>8 DEF PlotComes
<1> QED BY <1>10, <1>11, <1>12, <1>13, <1>14 DEF BindingInv

LEMMA ChangedToKeeps ==
    ASSUME BindingInv, NEW f \in Forms, Binding!ChangedTo(f), cursor' \in Cursors
    PROVE  BindingInv'
<1>1. CASE f = form
  BY <1>1 DEF Binding!ChangedTo, BindingInv, BindingTypes, FieldsFit, RequestsFit, AnswersFit, PlotFits,
              PlotComes, Underway, Answer, Binding!Transmission, Binding!Converges, Binding!Finite,
              Binding!Resolved, Binding!PartialValues
<1>2. CASE f # form
  BY <1>2, ChangedKeeps DEF Binding!ChangedTo
<1> QED BY <1>1, <1>2

LEMMA BindingUnchanged ==
    ASSUME BindingInv, cursor' \in Cursors, UNCHANGED <<form, work, shown, posted>>
    PROVE  BindingInv'
BY DEF BindingInv, BindingTypes, FieldsFit, RequestsFit, AnswersFit, PlotFits, PlotComes, Underway, Answer,
       Binding!Transmission, Binding!Converges, Binding!Finite, Binding!Resolved, Binding!PartialValues

\* Whatever is typed, selected or picked.
LEMMA ContactTyped ==
    ASSUME BindingInv, NEW side \in {"left", "right"}, NEW atom \in DOMAIN Molecule \cup {0}
    PROVE  Binding!Contact(side, atom) \in Forms
<1>1. form \in Forms
  BY DEF BindingInv, BindingTypes
<1> QED BY <1>1 DEF Binding!Contact, Forms

LEMMA EditKeeps == ASSUME BindingInv, Binding!Edits PROVE BindingInv'
<1>1. form \in Forms /\ cursor \in Cursors
  BY DEF BindingInv, BindingTypes
<1>2. ASSUME NEW e \in DOMAIN form.onsite, NEW text \in Offered["onsite"], Binding!TypeOnsite(e, text)
      PROVE  BindingInv'
  <2>1. text \in Binding!FieldTexts
    BY BindingConstants DEF Binding!Kinds
  <2>2. [form EXCEPT !.onsite[e] = text] \in Forms
    BY <1>1, <2>1 DEF Forms
  <2> QED BY <1>1, <1>2, <2>2, ChangedToKeeps DEF Binding!TypeOnsite
<1>3. ASSUME NEW p \in DOMAIN form.hopping, NEW text \in Offered["hopping"], Binding!TypeHopping(p, text)
      PROVE  BindingInv'
  <2>1. text \in Binding!FieldTexts
    BY BindingConstants DEF Binding!Kinds
  <2>2. [form EXCEPT !.hopping[p] = text] \in Forms
    BY <1>1, <2>1 DEF Forms
  <2> QED BY <1>1, <1>3, <2>2, ChangedToKeeps DEF Binding!TypeHopping
<1>4. ASSUME NEW text \in Offered["grid"], Binding!TypeGrid(text)
      PROVE  BindingInv'
  <2>1. text \in Binding!FieldTexts
    BY BindingConstants DEF Binding!Kinds
  <2>2. [form EXCEPT !.grid = text] \in Forms
    BY <1>1, <2>1 DEF Forms
  <2> QED BY <1>1, <1>4, <2>2, ChangedToKeeps DEF Binding!TypeGrid
<1>5. ASSUME NEW text \in Offered["atom"], Binding!TypeAtom(text)
      PROVE  BindingInv'
  <2>1. text \in Binding!FieldTexts
    BY BindingConstants DEF Binding!Kinds
  <2>2. cursor.atom \in DOMAIN Molecule
    BY <1>1, <1>5 DEF Binding!TypeAtom, Cursors
  <2>3. [form EXCEPT !.atom[cursor.atom] = text] \in Forms
    BY <1>1, <2>1, <2>2 DEF Forms
  <2> QED BY <1>1, <1>5, <2>3, ChangedToKeeps DEF Binding!TypeAtom
<1>6. ASSUME NEW text \in Offered["bond"], Binding!TypeBond(text)
      PROVE  BindingInv'
  <2>1. text \in Binding!FieldTexts
    BY BindingConstants DEF Binding!Kinds
  <2>2. cursor.bond \in Bonds
    BY <1>1, <1>6 DEF Binding!TypeBond, Cursors
  <2>3. [form EXCEPT !.bond[cursor.bond] = text] \in Forms
    BY <1>1, <2>1, <2>2 DEF Forms
  <2> QED BY <1>1, <1>6, <2>3, ChangedToKeeps DEF Binding!TypeBond
<1>7. ASSUME NEW side \in Binding!Sides, NEW atom \in Binding!Atoms \cup {Binding!Blank},
             Binding!SelectContact(side, atom) \/ Binding!UseCandidate(side, atom)
      PROVE  BindingInv'
  <2>1. Binding!Contact(side, atom) \in Forms
    BY ContactTyped DEF Binding!Sides, Binding!Atoms, Binding!Blank
  <2>2. Binding!ChangedTo(Binding!Contact(side, atom)) /\ cursor' = cursor
    BY <1>7 DEF Binding!SelectContact, Binding!UseCandidate
  <2> QED BY <1>1, <2>1, <2>2, ChangedToKeeps
<1> QED BY <1>2, <1>3, <1>4, <1>5, <1>6, <1>7 DEF Binding!Edits

LEMMA PickKeeps == ASSUME BindingInv, Binding!Picks PROVE BindingInv'
<1>1. cursor \in Cursors /\ form \in Forms
  BY DEF BindingInv, BindingTypes
<1>2. ASSUME NEW side \in Binding!Sides, Binding!PickContact(side) PROVE BindingInv'
  <2>1. cursor' \in Cursors
    BY <1>1, <1>2 DEF Binding!PickContact, Cursors, Binding!Sides
  <2>2. UNCHANGED <<form, work, posted>>
    BY <1>2 DEF Binding!PickContact
  <2>3. shown' = shown \/ shown' = [shown EXCEPT !.status = "pick"]
    BY <1>2 DEF Binding!PickContact
  <2>4. CASE shown' = [shown EXCEPT !.status = "pick"]
    <3>1. shown = [status |-> shown.status, matrix |-> shown.matrix, plot |-> shown.plot]
      BY DEF BindingInv, BindingTypes
    <3>2. /\ shown' = [status |-> shown'.status, matrix |-> shown'.matrix, plot |-> shown'.plot]
          /\ shown'.matrix = shown.matrix /\ shown'.plot = shown.plot /\ shown'.status # "calculated"
      BY <2>4, <3>1
    <3>3. BindingTypes' /\ FieldsFit' /\ RequestsFit' /\ AnswersFit'
      BY <2>1, <2>2, <3>2 DEF BindingInv, BindingTypes, FieldsFit, RequestsFit, AnswersFit, Answer,
         Binding!Transmission, Binding!Converges, Binding!Finite, Binding!Resolved, Binding!PartialValues
    <3>4. PlotComes'
      BY <2>2, <3>2 DEF BindingInv, PlotComes, PlotFits, Underway, Binding!Transmission,
         Binding!Converges, Binding!Finite
    <3> QED BY <3>2, <3>3, <3>4 DEF BindingInv
  <2> QED BY <2>1, <2>2, <2>3, <2>4, BindingUnchanged
<1>3. ASSUME NEW atom \in Binding!Atoms, Binding!AtomPicked(atom) PROVE BindingInv'
  <2>1. CASE /\ cursor.pick # None /\ Binding!ChangedTo(Binding!Contact(cursor.pick, atom))
             /\ cursor' = [cursor EXCEPT !.pick = None]
    <3>1. cursor.pick \in {"left", "right"} /\ cursor' \in Cursors
      BY <1>1, <2>1 DEF Cursors
    <3>2. Binding!Contact(cursor.pick, atom) \in Forms
      BY <3>1, ContactTyped DEF Binding!Atoms
    <3> QED BY <2>1, <3>1, <3>2, ChangedToKeeps
  <2>2. CASE /\ cursor' = [cursor EXCEPT !.atom = atom]
             /\ UNCHANGED <<form, work, cache, shown, posted>>
    <3>1. cursor' \in Cursors
      BY <1>1, <2>2 DEF Cursors, Binding!Atoms
    <3> QED BY <2>2, <3>1, BindingUnchanged
  <2> QED BY <1>3, <2>1, <2>2 DEF Binding!AtomPicked
<1>4. ASSUME NEW bond \in Bonds, Binding!BondPicked(bond) PROVE BindingInv'
  <2>1. cursor' \in Cursors
    BY <1>1, <1>4 DEF Binding!BondPicked, Cursors
  <2> QED BY <1>4, <2>1, BindingUnchanged DEF Binding!BondPicked
<1> QED BY <1>2, <1>3, <1>4 DEF Binding!Picks

\* A request starts a worker, or waits behind the one that runs.
LEMMA RequestStarts ==
    ASSUME NEW w \in Works, w.model # None, Binding!StartOrQueue(w, w.gen, w.model),
           shown = [status |-> shown.status, matrix |-> shown.matrix, plot |-> shown.plot]
    PROVE  /\ work' \in Works /\ work'.gen = w.gen /\ work'.model = w.model
           /\ work'.computed = w.computed
           /\ shown' = [status |-> shown'.status, matrix |-> shown.matrix, plot |-> shown.plot]
           /\ shown'.status # "calculated" /\ work'.running # None
           /\ \/ /\ w.running # None /\ work'.running = w.running
                 /\ work'.pending = [gen |-> w.gen, model |-> w.model]
              \/ /\ w.running = None /\ work'.pending = w.pending
                 /\ work'.running = [gen |-> w.gen, model |-> w.model]
<1> DEFINE q == [gen |-> w.gen, model |-> w.model]
<1>1. q \in Binding!Requests /\ q # None
  BY BindingConstants DEF Works, Binding!Requests
<1>2. shown' = [status |-> shown'.status, matrix |-> shown.matrix, plot |-> shown.plot]
      /\ shown'.status # "calculated"
  BY DEF Binding!StartOrQueue
<1>3. CASE w.running # None
  <2>1. work' = [w EXCEPT !.pending = q]
    BY <1>3 DEF Binding!StartOrQueue
  <2> HIDE DEF q
  <2>2. work' \in Works /\ work'.gen = w.gen /\ work'.model = w.model
    BY <2>1, <1>1 DEF Works
  <2>3. work'.computed = w.computed
    BY <2>1 DEF Works
  <2>4. work'.running = w.running /\ work'.pending = q
    BY <2>1 DEF Works
  <2> QED BY <1>2, <1>3, <2>2, <2>3, <2>4 DEF q
<1>4. CASE w.running = None
  <2>1. work' = [w EXCEPT !.running = q]
    BY <1>4 DEF Binding!StartOrQueue
  <2> HIDE DEF q
  <2>2. work' \in Works /\ work'.gen = w.gen /\ work'.model = w.model
    BY <2>1, <1>1 DEF Works
  <2>3. work'.computed = w.computed
    BY <2>1 DEF Works
  <2>4. work'.pending = w.pending /\ work'.running = q
    BY <2>1 DEF Works
  <2> QED BY <1>1, <1>2, <1>4, <2>2, <2>3, <2>4 DEF q
<1> QED BY <1>3, <1>4

LEMMA StartKeeps ==
    ASSUME BindingInv, NEW w \in Works, w.gen = work.gen, w.model = work.model, w.model # None,
           w.pending = work.pending \/ w.pending = None,
           Binding!StartOrQueue(w, w.gen, w.model), UNCHANGED <<form, cursor>>,
           \/ w.running = work.running /\ w.computed = work.computed /\ posted' = posted
           \/ w.running = None /\ ~w.computed /\ posted' = <<>>
    PROVE  BindingInv'
<1>1. shown = [status |-> shown.status, matrix |-> shown.matrix, plot |-> shown.plot]
  BY DEF BindingInv, BindingTypes
<1>2. /\ work' \in Works /\ work'.gen = work.gen /\ work'.model = work.model
      /\ work'.computed = w.computed
      /\ shown' = [status |-> shown'.status, matrix |-> shown.matrix, plot |-> shown.plot]
      /\ shown'.status # "calculated" /\ work'.running # None
  BY <1>1, RequestStarts
<1>3. \/ /\ w.running # None /\ work'.running = w.running
         /\ work'.pending = [gen |-> w.gen, model |-> w.model]
      \/ /\ w.running = None /\ work'.pending = w.pending
         /\ work'.running = [gen |-> w.gen, model |-> w.model]
  BY <1>1, RequestStarts
<1>4. shown'.matrix = shown.matrix /\ shown'.plot = shown.plot
  BY <1>2
<1>5. BindingTypes' /\ FieldsFit'
  BY <1>2, <1>4 DEF BindingInv, BindingTypes, FieldsFit
<1>6. work.gen \in Nat
  BY DEF BindingInv, BindingTypes, Works
<1>7. RequestsFit'
  <2>1. work'.running \in {None, work.running, [gen |-> w.gen, model |-> w.model]}
    BY <1>3
  <2>2. work'.pending \in {None, work.pending, [gen |-> w.gen, model |-> w.model]}
    BY <1>3
  <2>3. ASSUME NEW q \in {None, work.running, work.pending, [gen |-> w.gen, model |-> w.model]}, q # None
        PROVE  q.gen <= work.gen /\ q.model # None /\ (q.gen = work.gen => q.model = work.model)
    BY <1>6, <2>3 DEF BindingInv, RequestsFit
  <2> QED BY <1>2, <2>1, <2>2, <2>3 DEF RequestsFit
<1>8. AnswersFit' /\ Underway'
  <2>1. CASE w.running # None
    <3>1. work'.running = work.running /\ work'.computed = work.computed /\ posted' = posted
      BY <1>2, <1>3, <2>1
    <3>2. AnswersFit'
      BY <3>1 DEF BindingInv, AnswersFit, Answer, Binding!Converges, Binding!Finite, Binding!Transmission
    <3>3. work'.pending = [gen |-> w.gen, model |-> w.model] /\ work'.pending # None
      <4>1. w.model \in Binding!Models /\ w.gen \in Nat
        BY DEF Works
      <4> QED BY <1>3, <2>1, <4>1, BindingConstants DEF Binding!Requests
    <3> QED BY <1>2, <3>2, <3>3 DEF Underway
  <2>2. CASE w.running = None
    <3>1. posted' = <<>> /\ ~work'.computed
      BY <1>2, <2>2 DEF BindingInv, AnswersFit
    <3>2. work'.running.gen = work'.gen
      BY <1>2, <1>3, <2>2
    <3> QED BY <1>2, <3>1, <3>2 DEF AnswersFit, Underway
  <2> QED BY <2>1, <2>2
<1> QED BY <1>2, <1>5, <1>7, <1>8 DEF BindingInv, PlotComes

LEMMA CalculateKeeps == ASSUME BindingInv, Binding!Calculate PROVE BindingInv'
<1> DEFINE w == [work EXCEPT !.started = TRUE]
<1>1. work \in Works
  BY DEF BindingInv, BindingTypes
<1>2. w \in Works /\ w.gen = work.gen /\ w.model = work.model /\ w.pending = work.pending
  BY <1>1 DEF Works
<1>3. w.running = work.running
  BY <1>1 DEF Works
<1>4. w.computed = work.computed
  BY <1>1 DEF Works
<1>5. work.model # None /\ Binding!StartOrQueue(w, work.gen, work.model) /\ UNCHANGED <<form, cursor, posted>>
  BY DEF Binding!Calculate
<1> HIDE DEF w
<1> QED BY <1>2, <1>3, <1>4, <1>5, StartKeeps

\* The worker and its signals are left as they are.
LEMMA QuietlyKeeps ==
    ASSUME BindingInv, work' \in Works, UNCHANGED <<form, cursor, shown, posted>>,
           work'.gen = work.gen, work'.model = work.model, work'.running = work.running,
           work'.computed = work.computed,
           work'.pending \in {None, work.pending},
           work'.closed \/ work.model = None
    PROVE  BindingInv'
<1>1. BindingTypes' /\ FieldsFit'
  BY DEF BindingInv, BindingTypes, FieldsFit, Binding!Resolved, Binding!PartialValues
<1>2. RequestsFit'
  BY DEF BindingInv, RequestsFit
<1>3. AnswersFit'
  BY DEF BindingInv, AnswersFit, Answer, Binding!Converges, Binding!Finite, Binding!Transmission
<1>4. (shown.status = "calculated" => PlotFits) => (shown.status = "calculated" => PlotFits)'
  BY DEF PlotFits, Binding!Transmission
<1>5. PlotComes'
  BY DEF PlotComes
<1> QED BY <1>1, <1>2, <1>3, <1>4, <1>5 DEF BindingInv

LEMMA RecalculateKeeps == ASSUME BindingInv, Binding!Recalculate PROVE BindingInv'
<1> DEFINE w == [work EXCEPT !.timer = FALSE]
<1>1. work \in Works
  BY DEF BindingInv, BindingTypes
<1>2. w \in Works /\ w.gen = work.gen /\ w.model = work.model /\ w.pending = work.pending
  BY <1>1 DEF Works
<1>3. w.running = work.running
  BY <1>1 DEF Works
<1>4. w.computed = work.computed
  BY <1>1 DEF Works
<1>5. /\ UNCHANGED <<form, cursor, posted>>
      /\ IF work.model = None THEN work' = w /\ UNCHANGED shown
                              ELSE Binding!StartOrQueue(w, work.gen, work.model)
  BY DEF Binding!Recalculate
<1> HIDE DEF w
<1>6. CASE work.model = None
  BY <1>2, <1>3, <1>4, <1>5, <1>6, QuietlyKeeps
<1>7. CASE work.model # None
  BY <1>2, <1>3, <1>4, <1>5, <1>7, StartKeeps
<1> QED BY <1>6, <1>7

LEMMA CloseKeeps == ASSUME BindingInv, Binding!Close PROVE BindingInv'
<1>1. work \in Works
  BY DEF BindingInv, BindingTypes
<1>2. /\ work' = [work EXCEPT !.closed = TRUE, !.timer = FALSE, !.pending = None]
      /\ UNCHANGED <<form, cursor, shown, posted>>
  BY DEF Binding!Close
<1>3. work' \in Works /\ work'.gen = work.gen /\ work'.model = work.model
      /\ work'.pending = None
  BY <1>1, <1>2 DEF Works
<1>4. work'.running = work.running
  BY <1>1, <1>2 DEF Works
<1>5. work'.computed = work.computed
  BY <1>1, <1>2 DEF Works
<1>6. work'.closed
  BY <1>1, <1>2 DEF Works
<1> QED BY <1>2, <1>3, <1>4, <1>5, <1>6, QuietlyKeeps

\* Whatever eigenpairs were kept, the answer is that of the model calculated.
LEMMA ComputeKeeps == ASSUME BindingInv, Binding!Compute PROVE BindingInv'
<1>1. work \in Works
  BY DEF BindingInv, BindingTypes
<1>2. /\ work.running # None /\ posted = <<>> /\ work' = [work EXCEPT !.computed = TRUE]
      /\ UNCHANGED <<form, cursor, shown>>
  BY DEF Binding!Compute
<1>3. posted' = <<Answer(work.running.model), Ended>>
  <2>1. Binding!Eigenpairs(work.running.model.h) = work.running.model.h
    BY DEF Binding!Eigenpairs
  <2> QED BY <2>1 DEF Binding!Compute, Answer, Ended
<1>4. work' \in Works /\ work'.gen = work.gen /\ work'.model = work.model
      /\ work'.pending = work.pending /\ work'.running = work.running
  BY <1>1, <1>2 DEF Works
<1>5. work'.computed
  BY <1>1, <1>2 DEF Works
<1>6. work'.closed = work.closed
  BY <1>1, <1>2 DEF Works
<1>7. work'.started = work.started
  BY <1>1, <1>2 DEF Works
<1>8. work'.timer = work.timer
  BY <1>1, <1>2 DEF Works
<1>9. BindingTypes' /\ FieldsFit' /\ RequestsFit'
  BY <1>2, <1>4 DEF BindingInv, BindingTypes, FieldsFit, RequestsFit, Binding!Resolved,
     Binding!PartialValues
<1>10. posted' # <<>> /\ posted' # <<Ended>>
  BY <1>3
<1>11. AnswersFit'
  <2>1. Answer(work.running.model)' = Answer(work.running.model)
    BY <1>4 DEF Answer, Binding!Converges, Binding!Finite, Binding!Transmission
  <2> QED BY <1>2, <1>3, <1>4, <1>5, <1>10, <2>1 DEF AnswersFit
<1>12. PlotFits' = PlotFits
  BY <1>2, <1>4 DEF PlotFits, Binding!Transmission
<1>13. Underway => Underway'
  BY <1>4, <1>10 DEF Underway
<1>14. PlotComes'
  BY <1>4, <1>6, <1>7, <1>8, <1>12, <1>13
     DEF BindingInv, PlotComes, Binding!Converges, Binding!Finite
<1> QED BY <1>2, <1>9, <1>11, <1>12, <1>14 DEF BindingInv

\* An answer of the generation of the fields is drawn; the others are dropped, and for
\* them something is still to come.
LEMMA AnswerKeeps == ASSUME BindingInv, Binding!Outcome PROVE BindingInv'
<1>1. /\ posted # <<>> /\ Head(posted).kind # "finished" /\ posted' = Tail(posted)
      /\ UNCHANGED <<form, cursor, work>>
  BY DEF Binding!Outcome
<1>2. /\ work.running # None /\ work.computed
      /\ posted = <<Answer(work.running.model), Ended>>
  BY <1>1 DEF BindingInv, AnswersFit, Ended
<1>3. Head(posted) = Answer(work.running.model) /\ posted' = <<Ended>>
  BY <1>1, <1>2
<1>4. shown = [status |-> shown.status, matrix |-> shown.matrix, plot |-> shown.plot]
  BY DEF BindingInv, BindingTypes
<1>5. RequestsFit' /\ AnswersFit'
  <2>1. posted' # <<>>
    BY <1>3
  <2> QED BY <1>1, <1>2, <1>3, <2>1 DEF BindingInv, RequestsFit, AnswersFit
<1>6. ASSUME /\ shown' = [status |-> shown'.status, matrix |-> shown'.matrix, plot |-> shown'.plot]
             /\ shown'.matrix = shown.matrix,
             shown'.status = "calculated" => PlotFits', PlotComes'
      PROVE  BindingInv'
  BY <1>1, <1>5, <1>6 DEF BindingInv, BindingTypes, FieldsFit, Binding!Resolved, Binding!PartialValues
<1>7. CASE work.closed \/ work.running.gen # work.gen
  <2>1. shown' = shown
    BY <1>7 DEF Binding!Outcome
  <2>2. PlotFits' = PlotFits
    BY <1>1, <2>1 DEF PlotFits, Binding!Transmission
  <2>3. PlotComes'
    <3>1. \/ work.closed \/ ~work.started \/ work.model = None \/ work.timer \/ PlotFits
          \/ ~Binding!Converges(work.model.h) \/ ~Binding!Finite(work.model)
          \/ work.running # None /\ work.pending # None /\ work.pending.gen = work.gen
      BY <1>7 DEF BindingInv, PlotComes, Underway
    <3> QED BY <1>1, <2>2, <3>1 DEF PlotComes, Underway, Binding!Converges, Binding!Finite
  <2> QED BY <1>4, <1>6, <2>1, <2>2, <2>3 DEF BindingInv
<1>8. CASE ~work.closed /\ work.running.gen = work.gen
  <2>1. work.running.model = work.model
    BY <1>2, <1>8 DEF BindingInv, RequestsFit
  <2>2. CASE Binding!Converges(work.model.h) /\ Binding!Finite(work.model)
    <3>1. Head(posted) = [kind |-> "succeeded", result |-> Binding!Transmission(work.model, work.model.h)]
      BY <1>3, <2>1, <2>2 DEF Answer
    <3>2. shown' = [shown EXCEPT !.status = "calculated", !.plot = Head(posted).result]
      BY <1>8, <3>1 DEF Binding!Outcome
    <3> DEFINE plot == Binding!Transmission(work.model, work.model.h)
    <3>4. Head(posted).result = plot
      BY <3>1
    <3> HIDE DEF plot
    <3>5. shown' = [status |-> "calculated", matrix |-> shown.matrix, plot |-> plot]
      BY <1>4, <3>2, <3>4
    <3>3. shown' = [status |-> "calculated", matrix |-> shown.matrix,
                    plot |-> Binding!Transmission(work.model, work.model.h)]
      BY <3>5 DEF plot
    <3>6. PlotFits'
      BY <1>1, <3>3 DEF PlotFits, Binding!Transmission
    <3> QED BY <1>6, <3>3, <3>6 DEF PlotComes
  <2>3. CASE ~(Binding!Converges(work.model.h) /\ Binding!Finite(work.model))
    <3>1. Head(posted).kind = "failed"
      BY <1>3, <2>1, <2>3 DEF Answer
    <3>2. shown' = [shown EXCEPT !.status = "failed"]
      BY <1>8, <3>1 DEF Binding!Outcome
    <3>3. shown' = [status |-> "failed", matrix |-> shown.matrix, plot |-> shown.plot]
      BY <1>4, <3>2
    <3>4. PlotComes'
      BY <1>1, <2>3 DEF PlotComes, Binding!Converges, Binding!Finite
    <3> QED BY <1>6, <3>3, <3>4
  <2> QED BY <2>2, <2>3
<1> QED BY <1>7, <1>8

LEMMA CalculationEndedKeeps == ASSUME BindingInv, Binding!Finished PROVE BindingInv'
<1> DEFINE idle == [work EXCEPT !.running = None, !.computed = FALSE, !.pending = None]
<1>1. /\ posted # <<>> /\ Head(posted).kind = "finished" /\ posted' = Tail(posted)
      /\ UNCHANGED <<form, cursor>>
      /\ IF ~work.closed /\ work.pending # None /\ work.pending.gen = work.gen
         THEN Binding!StartOrQueue(idle, work.pending.gen, work.pending.model)
         ELSE work' = idle /\ UNCHANGED shown
  BY DEF Binding!Finished
<1>2. posted' = <<>> /\ posted = <<Ended>>
  <2>1. posted = <<Ended>>
    BY <1>1 DEF BindingInv, AnswersFit, Answer
  <2> QED BY <1>1, <2>1
<1>3. work \in Works
  BY DEF BindingInv, BindingTypes
<1>4. /\ idle \in Works /\ idle.gen = work.gen /\ idle.model = work.model /\ idle.running = None
      /\ idle.pending = None
  BY <1>3 DEF Works
<1>5. ~idle.computed
  BY <1>3 DEF Works
<1>6. idle.started = work.started
  BY <1>3 DEF Works
<1>7. idle.timer = work.timer
  BY <1>3 DEF Works
<1>8. idle.closed = work.closed
  BY <1>3 DEF Works
<1> HIDE DEF idle
<1>9. CASE ~work.closed /\ work.pending # None /\ work.pending.gen = work.gen
  <2>1. work.pending.model = work.model /\ work.pending \in Binding!Requests
    BY <1>3, <1>9 DEF BindingInv, RequestsFit, Works
  <2>2. Binding!StartOrQueue(idle, idle.gen, idle.model)
    BY <1>1, <1>4, <1>9, <2>1
  <2>3. work.model # None
    BY <1>9, <2>1 DEF BindingInv, RequestsFit
  <2> QED BY <1>1, <1>2, <1>4, <1>5, <2>2, <2>3, StartKeeps
<1>10. CASE ~(~work.closed /\ work.pending # None /\ work.pending.gen = work.gen)
  <2>1. work' = idle /\ shown' = shown
    BY <1>1, <1>10
  <2>2. BindingTypes' /\ FieldsFit' /\ RequestsFit'
    BY <1>1, <1>4, <2>1 DEF BindingInv, BindingTypes, FieldsFit, RequestsFit, Binding!Resolved,
       Binding!PartialValues
  <2>3. AnswersFit'
    BY <1>2, <1>5, <2>1 DEF AnswersFit
  <2>4. PlotFits' = PlotFits
    BY <1>4, <2>1 DEF PlotFits, Binding!Transmission
  <2>5. PlotComes'
    <3>1. ~Underway \/ work.closed
      BY <1>2, <1>10 DEF Underway
    <3> QED BY <3>1, <1>4, <1>6, <1>7, <1>8, <2>1, <2>4
            DEF BindingInv, PlotComes, Binding!Converges, Binding!Finite
  <2> QED BY <2>1, <2>2, <2>3, <2>4, <2>5 DEF BindingInv
<1> QED BY <1>9, <1>10

LEMMA BindingNext == ASSUME BindingInv, Binding!Next PROVE BindingInv'
BY EditKeeps, PickKeeps, CalculateKeeps, RecalculateKeeps, ComputeKeeps, AnswerKeeps, CalculationEndedKeeps,
   CloseKeeps DEF Binding!Next, Binding!Calculations

LEMMA BindingInvImplies == BindingInv => Binding!Shown
<1> SUFFICES ASSUME BindingInv PROVE Binding!Shown
  OBVIOUS
<1>1. work.model # None => shown.matrix = work.model.h
  BY ResolvedIsModel DEF BindingInv, BindingTypes, FieldsFit
<1>2. shown.status = "calculated" => PlotFits
  BY DEF BindingInv
<1>3. Binding!Quiet /\ work.started /\ work.model # None =>
        ~Binding!Converges(work.model.h) \/ ~Binding!Finite(work.model) \/ PlotFits
  BY DEF BindingInv, PlotComes, Underway, Binding!Quiet
<1> QED BY <1>1, <1>2, <1>3
        DEF Binding!Shown, Binding!PlotIsCurrent, Binding!MatrixIsModel, PlotFits

LEMMA BindingSpec == WorkbenchSpec => []BindingAreaInv
<1>1. WorkbenchInit => BindingAreaInv
  BY BindingInit DEF WorkbenchInit, BindingAreaInv
<1>2. ASSUME BindingAreaInv, [WorkbenchNext]_workbench
      PROVE  BindingAreaInv'
  <2>1. area' = area
    BY <1>2 DEF WorkbenchNext, workbench
  <2>2. CASE area # "binding"
    BY <2>1, <2>2 DEF BindingAreaInv
  <2>3. CASE area = "binding" /\ Binding!Next
    BY <1>2, <2>1, <2>3, BindingNext DEF BindingAreaInv
  <2>4. CASE area = "binding" /\ UNCHANGED <<form, cursor, work, shown, posted>>
    BY <1>2, <2>1, <2>4, BindingUnchanged DEF BindingAreaInv, BindingInv, BindingTypes
  <2>5. WorkbenchNext /\ area = "binding" => Binding!Next
    BY DEF WorkbenchNext
  <2>6. UNCHANGED workbench => UNCHANGED <<form, cursor, work, shown, posted>>
    BY DEF workbench, common, binding
  <2> QED BY <1>2, <2>2, <2>3, <2>4, <2>5, <2>6
<1> QED BY <1>1, <1>2, PTL DEF WorkbenchSpec

----------------------------------------------------------------------------
(* The Geometry tab.                                                       *)

\* An edit state whose records are of its own atoms.
Sound(g) ==
    /\ g = [atoms |-> g.atoms, bonds |-> g.bonds, measured |-> g.measured, contacts |-> g.contacts,
            electrodes |-> g.electrodes, confirmed |-> g.confirmed]
    /\ Editor!IsStructure(g.atoms)
    /\ \A m \in g.measured :
          (\A x \in DOMAIN m.of : m.of[x] \in DOMAIN g.atoms) /\ m = Editor!Measured(g.atoms, m.of)
    /\ g.electrodes # None => g.electrodes.identity = Editor!Identity(g.atoms)
    /\ g.contacts # None => Editor!Kept(g.contacts, Editor!Identity(g.atoms))

\* What Undo and Redo restore is sound.
Restorable(q) == q \in Seq({q[i] : i \in DOMAIN q}) /\ \A i \in DOMAIN q : Sound(q[i])
HistoryFits ==
    /\ history = [undo |-> history.undo, redo |-> history.redo]
    /\ Restorable(history.undo) /\ Restorable(history.redo)

TorsionFits ==
    LET torsion == tool.torsion IN
    torsion # None =>
        /\ tool.mode = "rotate"
        /\ torsion = [edge |-> torsion.edge, axis |-> torsion.axis, baseline |-> torsion.baseline,
                      angle |-> torsion.angle, group |-> torsion.group, pivot |-> torsion.pivot,
                      other |-> torsion.other]
        /\ Editor!IsStructure(torsion.baseline)
        /\ torsion.edge \in (IF dialog = None THEN geo.bonds ELSE dialog.bonds)
        /\ Editor!Turn(torsion.baseline, torsion) = geo.atoms

\* While it is dragged, a structure differs from the one before in its positions only.
DragFits ==
    tool.drag # None =>
        /\ Editor!IsStructure(tool.drag) /\ Editor!Identity(tool.drag) = Editor!Identity(geo.atoms)
        /\ tool.drag # geo.atoms => geo.measured = {}

ToolFits ==
    /\ tool = [mode |-> tool.mode, picked |-> tool.picked, element |-> tool.element,
               torsion |-> tool.torsion, drag |-> tool.drag]
    /\ tool.picked \in Seq(DOMAIN geo.atoms)

BuilderFits ==
    /\ builder = [anchors |-> builder.anchors, proposals |-> builder.proposals,
                  sites |-> builder.sites, preview |-> builder.preview]
    /\ builder.anchors \subseteq DOMAIN geo.atoms
    /\ builder.proposals # None => Editor!Kept(builder.proposals.atoms, geo.atoms)
    /\ builder.preview # None => builder.preview.atoms = geo.atoms /\ geo.electrodes = None

LatticeFits ==
    /\ lattice = [valid |-> lattice.valid, candidates |-> lattice.candidates, hover |-> lattice.hover]
    /\ lattice.valid => lattice.candidates = Editor!Candidates(geo.atoms, geo.electrodes)

EditorInv ==
    Sound(geo) /\ HistoryFits /\ TorsionFits /\ DragFits /\ ToolFits /\ BuilderFits /\ LatticeFits
EditorAreaInv == area = "editor" => EditorInv

----------------------------------------------------------------------------
(* Sequences that hold their own items.                                    *)

LEMMA OwnItems ==
    ASSUME NEW S, NEW s \in Seq(S)
    PROVE  s \in Seq({s[i] : i \in DOMAIN s})
<1>1. Len(s) \in Nat /\ DOMAIN s = 1..Len(s) /\ s \in [1..Len(s) -> S]
  BY LenProperties
<1>2. s \in [1..Len(s) -> {s[i] : i \in DOMAIN s}]
  BY <1>1
<1> QED BY <1>1, <1>2, SeqDef

LEMMA Enumerated ==
    ASSUME NEW n \in Nat, NEW s, DOMAIN s = 1..n, s = [i \in 1..n |-> s[i]]
    PROVE  s \in Seq({s[i] : i \in DOMAIN s}) /\ Len(s) = n
<1>1. s \in [1..n -> {s[i] : i \in DOMAIN s}]
  OBVIOUS
<1>2. s \in Seq({s[i] : i \in DOMAIN s})
  BY <1>1, SeqDef
<1>3. Len(s) \in Nat /\ DOMAIN s = 1..Len(s)
  BY <1>2, LenProperties
<1> QED BY <1>2, <1>3

LEMMA LastItem ==
    ASSUME NEW q, q \in Seq({q[i] : i \in DOMAIN q}), q # <<>>
    PROVE  /\ Len(q) \in DOMAIN q /\ Editor!Last(q) = q[Len(q)]
           /\ Editor!Front(q) \in Seq({q[i] : i \in DOMAIN q})
           /\ \A i \in DOMAIN Editor!Front(q) : i \in DOMAIN q /\ Editor!Front(q)[i] = q[i]
<1> DEFINE S == {q[i] : i \in DOMAIN q}
<1>1. q \in Seq(S)
  OBVIOUS
<1>2. Len(q) \in Nat \ {0} /\ DOMAIN q = 1..Len(q)
  BY <1>1, LenProperties, EmptySeq
<1>3. \A i \in 1..(Len(q) - 1) : q[i] \in S
  BY <1>2
<1>4. Editor!Front(q) = SubSeq(q, 1, Len(q) - 1)
  BY DEF Editor!Front
<1> HIDE DEF S
<1>5. /\ SubSeq(q, 1, Len(q) - 1) \in Seq(S)
      /\ Len(SubSeq(q, 1, Len(q) - 1)) = IF 1 <= Len(q) - 1 THEN Len(q) - 1 - 1 + 1 ELSE 0
      /\ \A i \in 1..(Len(q) - 1 - 1 + 1) : SubSeq(q, 1, Len(q) - 1)[i] = q[1 + i - 1]
  BY <1>2, <1>3, SubSeqProperties
<1>6. DOMAIN Editor!Front(q) = 1..Len(Editor!Front(q))
  BY <1>4, <1>5, LenProperties
<1>7. DOMAIN Editor!Front(q) = 1..(Len(q) - 1)
  BY <1>2, <1>4, <1>5, <1>6
<1>8. \A i \in DOMAIN Editor!Front(q) : i \in DOMAIN q /\ Editor!Front(q)[i] = q[i]
  BY <1>2, <1>4, <1>5, <1>7
<1> QED BY <1>2, <1>4, <1>5, <1>8 DEF Editor!Last, S

----------------------------------------------------------------------------
(* Structures.                                                             *)

LEMMA StructureShape ==
    ASSUME NEW s, Editor!IsStructure(s)
    PROVE  /\ Len(s) \in Nat /\ DOMAIN s = 1..Len(s)
           /\ s = [i \in 1..Len(s) |-> s[i]]
           /\ \A i \in DOMAIN s : s[i] = [id |-> s[i].id, el |-> s[i].el, at |-> s[i].at]
<1>1. Len(s) \in Nat /\ DOMAIN s = 1..Len(s) /\ s \in [1..Len(s) -> {s[i] : i \in DOMAIN s}]
  BY LenProperties DEF Editor!IsStructure
<1> QED BY <1>1 DEF Editor!IsStructure

LEMMA StructureMade ==
    ASSUME NEW n \in Nat, NEW s, DOMAIN s = 1..n, s = [i \in 1..n |-> s[i]],
           \A i \in 1..n : s[i] = [id |-> s[i].id, el |-> s[i].el, at |-> s[i].at]
    PROVE  Editor!IsStructure(s) /\ Len(s) = n
BY Enumerated DEF Editor!IsStructure

\* Atoms put after those of a structure leave those as they are.
LEMMA Joining ==
    ASSUME NEW s, NEW t, Editor!IsStructure(s), Editor!IsStructure(t)
    PROVE  /\ Editor!IsStructure(s \o t) /\ Editor!Kept(s, s \o t)
           /\ DOMAIN s \subseteq DOMAIN (s \o t)
<1> DEFINE S == {s[i] : i \in DOMAIN s} \cup {t[i] : i \in DOMAIN t}
<1>1. s \in Seq(S) /\ t \in Seq(S)
  <2>1. {s[i] : i \in DOMAIN s} \subseteq S /\ {t[i] : i \in DOMAIN t} \subseteq S
    OBVIOUS
  <2>2. s \in Seq({s[i] : i \in DOMAIN s}) /\ t \in Seq({t[i] : i \in DOMAIN t})
    BY DEF Editor!IsStructure
  <2> HIDE DEF S
  <2> QED BY <2>1, <2>2, SeqMonotonic
<1> HIDE DEF S
<1>2. /\ s \o t \in Seq(S) /\ Len(s \o t) = Len(s) + Len(t)
      /\ \A i \in 1..Len(s) + Len(t) : (s \o t)[i] = IF i <= Len(s) THEN s[i] ELSE t[i - Len(s)]
  BY <1>1, ConcatProperties
<1>3. /\ Len(s) \in Nat /\ DOMAIN s = 1..Len(s) /\ Len(t) \in Nat /\ DOMAIN t = 1..Len(t)
      /\ \A i \in DOMAIN s : s[i] = [id |-> s[i].id, el |-> s[i].el, at |-> s[i].at]
      /\ \A i \in DOMAIN t : t[i] = [id |-> t[i].id, el |-> t[i].el, at |-> t[i].at]
  BY StructureShape
<1>4. DOMAIN (s \o t) = 1..(Len(s) + Len(t))
  BY <1>2, LenProperties
<1>5. ASSUME NEW i \in DOMAIN (s \o t)
      PROVE  (s \o t)[i] = [id |-> (s \o t)[i].id, el |-> (s \o t)[i].el, at |-> (s \o t)[i].at]
  <2>1. i \in 1..Len(s) + Len(t)
    BY <1>4, <1>5
  <2>2. CASE i <= Len(s)
    <3>1. (s \o t)[i] = s[i] /\ i \in DOMAIN s
      BY <1>2, <1>3, <2>1, <2>2
    <3> QED BY <1>3, <3>1
  <2>3. CASE ~(i <= Len(s))
    <3>1. (s \o t)[i] = t[i - Len(s)] /\ i - Len(s) \in DOMAIN t
      BY <1>2, <1>3, <2>1, <2>3
    <3> QED BY <1>3, <3>1
  <2> QED BY <2>2, <2>3
<1>6. Editor!IsStructure(s \o t)
  BY <1>2, <1>5, OwnItems DEF Editor!IsStructure
<1>7. \A i \in DOMAIN s : i \in DOMAIN (s \o t) /\ (s \o t)[i] = s[i]
  BY <1>2, <1>3, <1>4
<1> QED BY <1>6, <1>7 DEF Editor!Kept

LEMMA Lengthening ==
    ASSUME NEW s, NEW id, Editor!IsStructure(s)
    PROVE  /\ Editor!IsStructure(Append(s, Editor!AuAtom(id)))
           /\ Editor!Kept(s, Append(s, Editor!AuAtom(id)))
           /\ DOMAIN s \subseteq DOMAIN Append(s, Editor!AuAtom(id))
<1> DEFINE t == <<Editor!AuAtom(id)>>
<1>1. Editor!IsStructure(t)
  <2>1. DOMAIN t = 1..1 /\ t = [i \in 1..1 |-> t[i]]
    OBVIOUS
  <2>2. t[1] = [id |-> t[1].id, el |-> t[1].el, at |-> t[1].at]
    BY DEF Editor!AuAtom
  <2> HIDE DEF t
  <2>3. 1 \in Nat /\ \A i \in 1..1 : t[i] = [id |-> t[i].id, el |-> t[i].el, at |-> t[i].at]
    BY <2>2
  <2> QED BY <2>1, <2>3, StructureMade
<1>2. Append(s, Editor!AuAtom(id)) = s \o t
  <2> DEFINE S == {s[i] : i \in DOMAIN s} \cup {Editor!AuAtom(id)}
  <2>1. s \in Seq(S)
    <3>1. s \in Seq({s[i] : i \in DOMAIN s}) /\ {s[i] : i \in DOMAIN s} \subseteq S
      BY DEF Editor!IsStructure
    <3> HIDE DEF S
    <3> QED BY <3>1, SeqMonotonic
  <2>2. Editor!AuAtom(id) \in S
    OBVIOUS
  <2> HIDE DEF S
  <2> QED BY <2>1, <2>2, AppendIsConcat
<1> HIDE DEF t
<1> QED BY <1>1, <1>2, Joining

\* Turning a side moves atoms: they stay who they are.
LEMMA Turning ==
    ASSUME NEW s, NEW torsion, Editor!IsStructure(s)
    PROVE  /\ Editor!IsStructure(Editor!Turn(s, torsion))
           /\ DOMAIN Editor!Turn(s, torsion) = DOMAIN s
           /\ Editor!Identity(Editor!Turn(s, torsion)) = Editor!Identity(s)
<1> DEFINE t == Editor!Turn(s, torsion)
<1>1. /\ Len(s) \in Nat /\ DOMAIN s = 1..Len(s)
      /\ \A i \in DOMAIN s : s[i] = [id |-> s[i].id, el |-> s[i].el, at |-> s[i].at]
  BY StructureShape
<1>2. DOMAIN t = DOMAIN s /\ t = [i \in DOMAIN s |-> t[i]]
  BY DEF Editor!Turn
<1>3. ASSUME NEW i \in DOMAIN s
      PROVE  /\ t[i] = [id |-> t[i].id, el |-> t[i].el, at |-> t[i].at]
             /\ t[i].id = s[i].id /\ t[i].el = s[i].el
  <2> DEFINE moved == (s[i].at \ {torsion.axis}) \cup ({torsion.axis} \ s[i].at)
  <2>1. t[i] \in {s[i], [s[i] EXCEPT !.at = moved]}
    BY DEF Editor!Turn
  <2>2. s[i] = [id |-> s[i].id, el |-> s[i].el, at |-> s[i].at]
    BY <1>1
  <2> HIDE DEF moved, t
  <2>3. [s[i] EXCEPT !.at = moved] = [id |-> s[i].id, el |-> s[i].el, at |-> moved]
    BY <2>2
  <2> QED BY <2>1, <2>2, <2>3
<1>4. Editor!IsStructure(t)
  <2> HIDE DEF t
  <2> QED BY <1>1, <1>2, <1>3, StructureMade
<1>5. Editor!Identity(t) = Editor!Identity(s)
  <2> HIDE DEF t
  <2> QED BY <1>2, <1>3 DEF Editor!Identity
<1> QED BY <1>2, <1>4, <1>5

\* One atom of another element.
LEMMA Replacing ==
    ASSUME NEW s, NEW k, NEW e, Editor!IsStructure(s)
    PROVE  /\ Editor!IsStructure([s EXCEPT ![k].el = e])
           /\ DOMAIN [s EXCEPT ![k].el = e] = DOMAIN s
           /\ \A i \in DOMAIN s : Editor!Position([s EXCEPT ![k].el = e], i) = Editor!Position(s, i)
<1> DEFINE t == [s EXCEPT ![k].el = e]
<1>1. /\ Len(s) \in Nat /\ DOMAIN s = 1..Len(s)
      /\ \A i \in DOMAIN s : s[i] = [id |-> s[i].id, el |-> s[i].el, at |-> s[i].at]
  BY StructureShape
<1>2. DOMAIN t = DOMAIN s /\ t = [i \in DOMAIN s |-> t[i]]
  OBVIOUS
<1>3. ASSUME NEW i \in DOMAIN s
      PROVE  /\ t[i] = [id |-> t[i].id, el |-> t[i].el, at |-> t[i].at]
             /\ t[i].id = s[i].id /\ t[i].at = s[i].at
  <2>1. t[i] \in {s[i], [s[i] EXCEPT !.el = e]}
    OBVIOUS
  <2>2. s[i] = [id |-> s[i].id, el |-> s[i].el, at |-> s[i].at]
    BY <1>1
  <2> HIDE DEF t
  <2>3. [s[i] EXCEPT !.el = e] = [id |-> s[i].id, el |-> e, at |-> s[i].at]
    BY <2>2
  <2> QED BY <2>1, <2>2, <2>3
<1> HIDE DEF t
<1>4. Editor!IsStructure(t)
  BY <1>1, <1>2, <1>3, StructureMade
<1>5. \A i \in DOMAIN s : Editor!Position(t, i) = Editor!Position(s, i)
  BY <1>3 DEF Editor!Position
<1> QED BY <1>2, <1>4, <1>5 DEF t

\* The atoms after a deleted one move up, and keep what they are.
LEMMA Deleting ==
    ASSUME NEW s, NEW k \in DOMAIN s, Editor!IsStructure(s)
    PROVE  /\ Editor!IsStructure(Editor!RemoveAt(s, k))
           /\ \A i \in DOMAIN s \ {k} :
                 /\ Editor!Renumber(i, k) \in DOMAIN Editor!RemoveAt(s, k)
                 /\ Editor!RemoveAt(s, k)[Editor!Renumber(i, k)] = s[i]
<1> DEFINE a == SubSeq(s, 1, k - 1)
           b == SubSeq(s, k + 1, Len(s))
           S == {s[i] : i \in DOMAIN s}
<1>1. /\ Len(s) \in Nat /\ DOMAIN s = 1..Len(s) /\ k \in 1..Len(s)
      /\ \A i \in DOMAIN s : s[i] = [id |-> s[i].id, el |-> s[i].el, at |-> s[i].at]
  BY StructureShape
<1>2. Editor!RemoveAt(s, k) = a \o b
  BY DEF Editor!RemoveAt
<1>3. (\A i \in 1..(k - 1) : s[i] \in S) /\ (\A i \in (k + 1)..Len(s) : s[i] \in S)
  BY <1>1
<1>9. \A x \in S : x = [id |-> x.id, el |-> x.el, at |-> x.at]
  BY <1>1
<1> HIDE DEF S
<1>4. /\ a \in Seq(S) /\ Len(a) = k - 1
      /\ \A i \in 1..(k - 1) : a[i] = s[i]
  <2>1. /\ SubSeq(s, 1, k - 1) \in Seq(S)
        /\ Len(SubSeq(s, 1, k - 1)) = IF 1 <= k - 1 THEN k - 1 - 1 + 1 ELSE 0
        /\ \A i \in 1..(k - 1 - 1 + 1) : SubSeq(s, 1, k - 1)[i] = s[1 + i - 1]
    BY <1>1, <1>3, SubSeqProperties
  <2> QED BY <1>1, <2>1
<1>5. /\ b \in Seq(S) /\ Len(b) = Len(s) - k
      /\ \A i \in 1..(Len(s) - k) : b[i] = s[k + i]
  <2>1. /\ SubSeq(s, k + 1, Len(s)) \in Seq(S)
        /\ Len(SubSeq(s, k + 1, Len(s))) = IF k + 1 <= Len(s) THEN Len(s) - (k + 1) + 1 ELSE 0
        /\ \A i \in 1..(Len(s) - (k + 1) + 1) : SubSeq(s, k + 1, Len(s))[i] = s[(k + 1) + i - 1]
    BY <1>1, <1>3, SubSeqProperties
  <2> QED BY <1>1, <2>1
<1> HIDE DEF a, b
<1>6. /\ a \o b \in Seq(S) /\ Len(a \o b) = Len(s) - 1
      /\ \A i \in 1..(Len(s) - 1) : (a \o b)[i] = IF i <= k - 1 THEN s[i] ELSE s[i + 1]
  <2>1. /\ a \o b \in Seq(S) /\ Len(a \o b) = Len(a) + Len(b)
        /\ \A i \in 1..Len(a) + Len(b) : (a \o b)[i] = IF i <= Len(a) THEN a[i] ELSE b[i - Len(a)]
    BY <1>4, <1>5, ConcatProperties
  <2>2. Len(a) + Len(b) = Len(s) - 1
    BY <1>1, <1>4, <1>5
  <2>3. ASSUME NEW i \in 1..(Len(s) - 1)
        PROVE  (a \o b)[i] = IF i <= k - 1 THEN s[i] ELSE s[i + 1]
    <3>1. (a \o b)[i] = IF i <= k - 1 THEN a[i] ELSE b[i - (k - 1)]
      BY <1>1, <1>4, <2>1, <2>2
    <3>2. i <= k - 1 => a[i] = s[i]
      BY <1>1, <1>4
    <3>3. ~(i <= k - 1) => i - (k - 1) \in 1..(Len(s) - k) /\ k + (i - (k - 1)) = i + 1
      BY <1>1
    <3>4. ~(i <= k - 1) => b[i - (k - 1)] = s[i + 1]
      BY <1>5, <3>3
    <3> QED BY <3>1, <3>2, <3>4
  <2> QED BY <2>1, <2>2, <2>3
<1>7. DOMAIN (a \o b) = 1..(Len(s) - 1)
  BY <1>6, LenProperties
<1>8. ASSUME NEW i \in DOMAIN s \ {k}
      PROVE  Editor!Renumber(i, k) \in DOMAIN (a \o b) /\ (a \o b)[Editor!Renumber(i, k)] = s[i]
  <2>1. CASE i < k
    <3>1. Editor!Renumber(i, k) = i /\ i \in 1..(Len(s) - 1) /\ i <= k - 1
      BY <1>1, <2>1 DEF Editor!Renumber
    <3> QED BY <1>6, <1>7, <3>1
  <2>2. CASE ~(i < k)
    <3>1. Editor!Renumber(i, k) = i - 1 /\ i - 1 \in 1..(Len(s) - 1) /\ ~(i - 1 <= k - 1)
      BY <1>1, <1>8, <2>2 DEF Editor!Renumber
    <3>2. (a \o b)[i - 1] = s[(i - 1) + 1] /\ (i - 1) + 1 = i
      BY <1>1, <1>6, <3>1
    <3> QED BY <1>7, <3>1, <3>2
  <2> QED BY <2>1, <2>2
<1>10. Editor!IsStructure(a \o b)
  <2>1. \A i \in DOMAIN (a \o b) : (a \o b)[i] \in S
    <3>1. a \o b \in [DOMAIN (a \o b) -> S]
      BY <1>6, LenProperties
    <3> QED BY <3>1
  <2>2. a \o b \in Seq({(a \o b)[i] : i \in DOMAIN (a \o b)})
    BY <1>6, OwnItems
  <2>3. \A i \in DOMAIN (a \o b) :
           (a \o b)[i] = [id |-> (a \o b)[i].id, el |-> (a \o b)[i].el, at |-> (a \o b)[i].at]
    BY <1>9, <2>1
  <2> QED BY <2>2, <2>3 DEF Editor!IsStructure
<1> QED BY <1>2, <1>8, <1>10

\* The operators of the modules the editor uses are those used here.
LEMMA CountedHere ==
    ASSUME NEW S
    PROVE  Editor!Cardinality(S) = Cardinality(S)
BY Zenon DEF Editor!Cardinality, Cardinality

LEMMA ImageIsFinite ==
    ASSUME NEW S, NEW f, IsFiniteSet(S)
    PROVE  IsFiniteSet({f[x] : x \in S})
<1> DEFINE T == {f[x] : x \in S}
           g == [x \in S |-> f[x]]
<1>1. g \in Surjection(S, T)
  BY DEF Surjection
<1> HIDE DEF g, T
<1>2. IsFiniteSet(T)
  BY <1>1, FS_Surjection
<1> QED BY <1>2 DEF T

\* New Au atoms are a structure.
LEMMA GoldAdded ==
    ASSUME NEW ids, IsFiniteSet(ids)
    PROVE  Editor!IsStructure(Editor!AuAtoms(ids))
<1> DEFINE n == Cardinality(ids)
           order == Editor!SetToSeq(ids)
<1>1. n \in Nat /\ \E f : f \in Bijection(1..n, ids)
  BY FS_CardinalityType DEF ExistsBijection
<1>2. PICK f : f \in [1..n -> ids] /\ Editor!IsInjective(f)
  BY <1>1 DEF Bijection, Injection, IsInjective, Editor!IsInjective
<1>3. order = CHOOSE g \in [1..n -> ids] : Editor!IsInjective(g)
  BY CountedHere DEF Editor!SetToSeq
<1> HIDE DEF n, order
<1>4. order \in [1..n -> ids]
  BY <1>2, <1>3
<1> DEFINE s == Editor!AuAtoms(ids)
<1>5. s = [i \in DOMAIN order |-> Editor!AuAtom(order[i])]
  BY DEF Editor!AuAtoms, order
<1>6. DOMAIN s = 1..n /\ s = [i \in 1..n |-> s[i]]
  BY <1>4, <1>5
<1>7. ASSUME NEW i \in 1..n
      PROVE  s[i] = [id |-> s[i].id, el |-> s[i].el, at |-> s[i].at]
  <2>1. s[i] = Editor!AuAtom(order[i])
    BY <1>4, <1>5
  <2> QED BY <2>1 DEF Editor!AuAtom
<1> HIDE DEF s
<1>8. Editor!IsStructure(s)
  BY <1>1, <1>6, <1>7, StructureMade
<1> QED BY <1>8 DEF s

----------------------------------------------------------------------------
(* Edit states.                                                            *)

LEMMA SameIdentity ==
    ASSUME NEW s, NEW t, Editor!Identity(s) = Editor!Identity(t)
    PROVE  DOMAIN s = DOMAIN t
<1>1. DOMAIN Editor!Identity(s) = DOMAIN s /\ DOMAIN Editor!Identity(t) = DOMAIN t
  BY DEF Editor!Identity
<1> QED BY <1>1

\* What kept its atoms kept their identities.
LEMMA KeptIdentity ==
    ASSUME NEW s, NEW t, Editor!Kept(s, t)
    PROVE  Editor!Kept(Editor!Identity(s), Editor!Identity(t))
<1> SUFFICES ASSUME NEW i \in DOMAIN s
             PROVE  i \in DOMAIN t /\ Editor!Identity(t)[i] = Editor!Identity(s)[i]
  BY DEF Editor!Kept, Editor!Identity
<1>1. i \in DOMAIN t /\ t[i] = s[i]
  BY DEF Editor!Kept
<1> QED BY <1>1 DEF Editor!Identity

LEMMA KeptOn ==
    ASSUME NEW r, NEW s, NEW t, Editor!Kept(r, s), Editor!Kept(s, t)
    PROVE  Editor!Kept(r, t)
BY DEF Editor!Kept

LEMMA KeptSame == ASSUME NEW s PROVE Editor!Kept(s, s)
BY DEF Editor!Kept

\* The same atoms, with the records made of them or without.
LEMMA SoundRecords ==
    ASSUME NEW g, NEW h, Sound(g),
           h = [atoms |-> h.atoms, bonds |-> h.bonds, measured |-> h.measured,
                contacts |-> h.contacts, electrodes |-> h.electrodes, confirmed |-> h.confirmed],
           h.atoms = g.atoms, h.measured = g.measured \/ h.measured = {},
           h.contacts = g.contacts, h.electrodes = g.electrodes
    PROVE  Sound(h)
BY DEF Sound

\* Atoms moved, and nothing measured of them.
LEMMA SoundMoved ==
    ASSUME NEW g, NEW h, Sound(g),
           h = [atoms |-> h.atoms, bonds |-> h.bonds, measured |-> h.measured,
                contacts |-> h.contacts, electrodes |-> h.electrodes, confirmed |-> h.confirmed],
           Editor!IsStructure(h.atoms), Editor!Identity(h.atoms) = Editor!Identity(g.atoms),
           h.measured = {}, h.contacts = g.contacts, h.electrodes = g.electrodes
    PROVE  Sound(h)
BY DEF Sound

\* A new arrangement of atoms of which nothing was placed.
LEMMA SoundNew ==
    ASSUME NEW s, NEW bonds, Editor!IsStructure(s), NEW confirmed
    PROVE  Sound([atoms |-> s, bonds |-> bonds, measured |-> {}, contacts |-> None,
                  electrodes |-> None, confirmed |-> confirmed])
BY DEF Sound

LEMMA FreshSound ==
    ASSUME NEW g \in Loadable
    PROVE  Sound(Editor!Fresh(g))
<1>1. Editor!IsStructure(g.atoms)
  BY PartsAssumption DEF PartsAssumption, Editor!EditorAssumption
<1> QED BY <1>1, SoundNew DEF Editor!Fresh

----------------------------------------------------------------------------
(* The history.                                                            *)

LEMMA EmptyHistory == Restorable(<<>>)
<1>1. DOMAIN <<>> = {} /\ <<>> \in Seq({})
  OBVIOUS
<1> QED BY <1>1 DEF Restorable

LEMMA HistoryGrows ==
    ASSUME NEW q, NEW g, Restorable(q), Sound(g)
    PROVE  Restorable(Editor!Trim(Append(q, g)))
<1> DEFINE S == {q[i] : i \in DOMAIN q} \cup {g}
           h == Append(q, g)
<1>1. \A x \in S : Sound(x)
  BY DEF Restorable
<1>2. q \in Seq(S)
  <2>1. q \in Seq({q[i] : i \in DOMAIN q}) /\ {q[i] : i \in DOMAIN q} \subseteq S
    BY DEF Restorable
  <2> HIDE DEF S
  <2> QED BY <2>1, SeqMonotonic
<1>3. g \in S
  OBVIOUS
<1> HIDE DEF S
<1>4. h \in Seq(S) /\ h # <<>>
  BY <1>2, <1>3, AppendProperties
<1> HIDE DEF h
<1>5. Tail(h) \in Seq(S)
  BY <1>4, HeadTailProperties
<1>6. ASSUME NEW r \in Seq(S)
      PROVE  Restorable(r)
  <2>1. \A i \in DOMAIN r : r[i] \in S
    BY LenProperties
  <2> QED BY <1>1, <2>1, OwnItems DEF Restorable
<1>7. Editor!Trim(h) \in {h, Tail(h)}
  BY DEF Editor!Trim
<1> QED BY <1>4, <1>5, <1>6, <1>7 DEF h

LEMMA HistoryEnds ==
    ASSUME NEW q, Restorable(q), q # <<>>
    PROVE  Sound(Editor!Last(q)) /\ Restorable(Editor!Front(q))
<1>1. /\ Len(q) \in DOMAIN q /\ Editor!Last(q) = q[Len(q)]
      /\ Editor!Front(q) \in Seq({q[i] : i \in DOMAIN q})
      /\ \A i \in DOMAIN Editor!Front(q) : i \in DOMAIN q /\ Editor!Front(q)[i] = q[i]
  BY LastItem DEF Restorable
<1>2. Sound(Editor!Last(q))
  BY <1>1 DEF Restorable
<1>3. Editor!Front(q) \in Seq({Editor!Front(q)[i] : i \in DOMAIN Editor!Front(q)})
  BY <1>1, OwnItems
<1>4. \A i \in DOMAIN Editor!Front(q) : Sound(Editor!Front(q)[i])
  BY <1>1 DEF Restorable
<1> QED BY <1>2, <1>3, <1>4 DEF Restorable

\* What was pushed is sound, and nothing is left to redo.
LEMMA PushFits ==
    ASSUME NEW g, HistoryFits, Sound(g), Editor!Push(g)
    PROVE  HistoryFits'
<1>1. history' = [undo |-> Editor!Trim(Append(history.undo, g)), redo |-> <<>>]
  BY DEF Editor!Push
<1>2. Restorable(Editor!Trim(Append(history.undo, g)))
  BY HistoryGrows DEF HistoryFits
<1>3. Restorable(history'.undo) /\ Restorable(history'.redo)
  BY <1>1, <1>2, EmptyHistory
<1> QED BY <1>1, <1>3 DEF HistoryFits

----------------------------------------------------------------------------
(* The steps of the editor.                                                *)

LEMMA NoToolFits ==
    ASSUME NEW atoms, tool' = Editor!NoTool, geo'.atoms = atoms
    PROVE  TorsionFits' /\ DragFits' /\ ToolFits'
<1>1. tool'.torsion = None /\ tool'.drag = None /\ tool'.picked = <<>>
  BY DEF Editor!NoTool
<1>2. tool' = [mode |-> tool'.mode, picked |-> tool'.picked, element |-> tool'.element,
               torsion |-> tool'.torsion, drag |-> tool'.drag]
  BY DEF Editor!NoTool
<1>3. <<>> \in Seq(DOMAIN atoms)
  OBVIOUS
<1> QED BY <1>1, <1>2, <1>3 DEF TorsionFits, DragFits, ToolFits

LEMMA NoBuilderFits == ASSUME builder' = Editor!NoBuilder PROVE BuilderFits'
<1>1. builder'.anchors = {} /\ builder'.proposals = None /\ builder'.preview = None
  BY DEF Editor!NoBuilder
<1>2. builder' = [anchors |-> builder'.anchors, proposals |-> builder'.proposals,
                  sites |-> builder'.sites, preview |-> builder'.preview]
  BY DEF Editor!NoBuilder
<1> QED BY <1>1, <1>2 DEF BuilderFits

LEMMA NoLatticeFits == ASSUME lattice' = Editor!NoLattice PROVE LatticeFits'
<1>1. ~lattice'.valid
  BY DEF Editor!NoLattice
<1>2. lattice' = [valid |-> lattice'.valid, candidates |-> lattice'.candidates,
                  hover |-> lattice'.hover]
  BY DEF Editor!NoLattice
<1> QED BY <1>1, <1>2 DEF LatticeFits

LEMMA NoHistoryFits ==
    ASSUME history' = [undo |-> <<>>, redo |-> <<>>]
    PROVE  HistoryFits'
BY EmptyHistory DEF HistoryFits

\* Everything starts again with a structure.
LEMMA StartsAgain ==
    ASSUME Sound(geo'), history' = [undo |-> <<>>, redo |-> <<>>], tool' = Editor!NoTool,
           builder' = Editor!NoBuilder, lattice' = Editor!NoLattice
    PROVE  EditorInv'
BY NoToolFits, NoBuilderFits, NoLatticeFits, NoHistoryFits DEF EditorInv

LEMMA EditorInit == Editor!Init => EditorInv
<1> SUFFICES ASSUME Editor!Init PROVE EditorInv
  OBVIOUS
<1>1. source \in Loadable /\ geo = Editor!Fresh(source) /\ history = [undo |-> <<>>, redo |-> <<>>]
  BY DEF Editor!Init
<1>2. tool = Editor!NoTool /\ builder = Editor!NoBuilder /\ lattice = Editor!NoLattice
  BY DEF Editor!Init
<1>3. Sound(geo)
  BY <1>1, FreshSound
<1>4. HistoryFits
  BY <1>1, EmptyHistory DEF HistoryFits
<1>5. TorsionFits /\ DragFits
  BY <1>2 DEF Editor!NoTool, TorsionFits, DragFits
<1>6. ToolFits
  BY <1>2 DEF Editor!NoTool, ToolFits
<1>7. BuilderFits
  BY <1>2 DEF Editor!NoBuilder, BuilderFits
<1>8. LatticeFits
  BY <1>2 DEF Editor!NoLattice, LatticeFits
<1> QED BY <1>3, <1>4, <1>5, <1>6, <1>7, <1>8 DEF EditorInv

LEMMA LoadKeeps == ASSUME NEW g \in Loadable, Editor!Load(g) PROVE EditorInv'
<1>1. geo' = Editor!Fresh(g)
  BY DEF Editor!Load
<1>2. Sound(geo')
  BY <1>1, FreshSound
<1> QED BY <1>2, StartsAgain DEF Editor!Load

\* The tool changes and the atoms stay: what was picked is of them, a session goes or stays.
LEMMA ToolChanged ==
    ASSUME EditorInv, geo'.atoms = geo.atoms, geo'.bonds = geo.bonds, dialog' = dialog,
           tool' = [mode |-> tool'.mode, picked |-> tool'.picked, element |-> tool'.element,
                    torsion |-> tool'.torsion, drag |-> tool'.drag],
           tool'.picked \in Seq(DOMAIN geo.atoms),
           tool'.torsion = None \/ (tool'.torsion = tool.torsion /\ tool'.mode = tool.mode),
           tool'.drag = None
    PROVE  TorsionFits' /\ DragFits' /\ ToolFits'
<1>1. TorsionFits'
  BY DEF EditorInv, TorsionFits
<1>2. DragFits'
  BY DEF DragFits
<1>3. ToolFits'
  BY DEF ToolFits
<1> QED BY <1>1, <1>2, <1>3

\* What is ticked and previewed stays, and so do the atoms.
LEMMA BuilderStays ==
    ASSUME EditorInv, geo'.atoms = geo.atoms, geo'.electrodes = geo.electrodes, builder' = builder
    PROVE  BuilderFits'
BY DEF EditorInv, BuilderFits

LEMMA LatticeStays ==
    ASSUME EditorInv, geo'.atoms = geo.atoms, geo'.electrodes = geo.electrodes,
           lattice' = [valid |-> lattice.valid, candidates |-> lattice.candidates,
                       hover |-> lattice'.hover]
    PROVE  LatticeFits'
<1>1. lattice'.valid = lattice.valid /\ lattice'.candidates = lattice.candidates
  OBVIOUS
<1> QED BY <1>1 DEF EditorInv, LatticeFits

LEMMA LatticeShape ==
    ASSUME EditorInv
    PROVE  /\ lattice = [valid |-> lattice.valid, candidates |-> lattice.candidates,
                         hover |-> lattice.hover]
           /\ \A h : [lattice EXCEPT !.hover = h] =
                        [valid |-> lattice.valid, candidates |-> lattice.candidates, hover |-> h]
<1>1. lattice = [valid |-> lattice.valid, candidates |-> lattice.candidates, hover |-> lattice.hover]
  BY DEF EditorInv, LatticeFits
<1> QED BY <1>1

LEMMA CandidatesShown ==
    ASSUME NEW g, NEW l, l = [valid |-> l.valid, candidates |-> l.candidates, hover |-> l.hover],
           l.valid => l.candidates = Editor!Candidates(g.atoms, g.electrodes),
           geo' = g, lattice' = Editor!Shown(g, l)
    PROVE  LatticeFits'
<1>1. CASE l.valid
  <2>1. lattice' = l
    BY <1>1 DEF Editor!Shown
  <2> QED BY <1>1, <2>1 DEF LatticeFits
<1>2. CASE ~l.valid
  <2>1. lattice' = [valid |-> TRUE, hover |-> None,
                    candidates |-> Editor!Candidates(g.atoms, g.electrodes)]
    BY <1>2 DEF Editor!Shown
  <2>2. lattice'.candidates = Editor!Candidates(g.atoms, g.electrodes)
    BY <2>1
  <2> QED BY <2>1, <2>2 DEF LatticeFits
<1> QED BY <1>1, <1>2

LEMMA HistoryStays == ASSUME EditorInv, history' = history PROVE HistoryFits'
BY DEF EditorInv, HistoryFits

\* A session ends when its tool is left.
LEMMA SessionLeft ==
    ASSUME EditorInv, NEW mode
    PROVE  LET stays == IF Editor!LeftRotation(mode) THEN None ELSE tool.torsion IN
           stays = None \/ (stays = tool.torsion /\ mode = tool.mode)
<1>1. tool.torsion # None => tool.mode = "rotate"
  BY DEF EditorInv, TorsionFits
<1>2. Editor!LeftRotation(mode) <=> tool.mode = "rotate" /\ mode # "rotate"
  BY DEF Editor!LeftRotation
<1>3. CASE tool.torsion # None
  BY <1>1, <1>2, <1>3
<1>4. CASE tool.torsion = None
  <2>1. (IF Editor!LeftRotation(mode) THEN None ELSE tool.torsion) = None
    BY <1>4 DEF Editor!LeftRotation
  <2> QED BY <2>1
<1> QED BY <1>3, <1>4

LEMMA PickModeKeeps ==
    ASSUME EditorInv, NEW wanted, NEW element, Editor!PickMode(wanted, element)
    PROVE  EditorInv'
<1> DEFINE mode == IF Editor!Allowed(wanted, element) THEN wanted ELSE "normal"
           kept0 == IF Editor!LeftRotation(mode) THEN None ELSE tool.torsion
<1>1. /\ tool' = [tool EXCEPT !.mode = mode, !.picked = <<>>, !.element = element,
                              !.torsion = kept0]
      /\ lattice' = IF mode = "lattice" THEN Editor!Shown(geo, lattice)
                    ELSE IF tool.mode = "lattice" THEN [lattice EXCEPT !.hover = None] ELSE lattice
      /\ UNCHANGED <<geo, source, history, builder, factor, dialog, gestures>>
      /\ dialog = None /\ tool.drag = None
  BY DEF Editor!PickMode, Editor!Idle
<1>2. tool = [mode |-> tool.mode, picked |-> tool.picked, element |-> tool.element,
              torsion |-> tool.torsion, drag |-> tool.drag]
  BY DEF EditorInv, ToolFits
<1>3. kept0 = None \/ (kept0 = tool.torsion /\ mode = tool.mode)
  BY SessionLeft
<1> HIDE DEF mode, kept0
<1>4. tool' = [mode |-> mode, picked |-> <<>>, element |-> element, torsion |-> kept0,
               drag |-> tool.drag]
  BY <1>1, <1>2
<1>5. <<>> \in Seq(DOMAIN geo.atoms)
  OBVIOUS
<1>6. TorsionFits' /\ DragFits' /\ ToolFits'
  BY <1>1, <1>3, <1>4, <1>5, ToolChanged
<1>7. LatticeFits'
  <2>1. CASE mode = "lattice"
    <3>1. geo' = geo /\ lattice' = Editor!Shown(geo, lattice)
      BY <1>1, <2>1
    <3> QED BY <3>1, CandidatesShown DEF EditorInv, LatticeFits
  <2>2. CASE mode # "lattice"
    <3>1. lattice' = [lattice EXCEPT !.hover = None] \/ lattice' = lattice
      BY <1>1, <2>2
    <3>2. lattice' = [valid |-> lattice.valid, candidates |-> lattice.candidates,
                      hover |-> lattice'.hover]
      BY <3>1, LatticeShape
    <3> QED BY <1>1, <3>2, LatticeStays
  <2> QED BY <2>1, <2>2
<1>8. Sound(geo')
  BY <1>1 DEF EditorInv
<1> QED BY <1>1, <1>6, <1>7, <1>8, BuilderStays, HistoryStays DEF EditorInv

LEMMA ToolShape ==
    ASSUME EditorInv
    PROVE  tool = [mode |-> tool.mode, picked |-> tool.picked, element |-> tool.element,
                   torsion |-> tool.torsion, drag |-> tool.drag]
BY DEF EditorInv, ToolFits

LEMMA GeoShape ==
    ASSUME EditorInv
    PROVE  /\ geo = [atoms |-> geo.atoms, bonds |-> geo.bonds, measured |-> geo.measured,
                     contacts |-> geo.contacts, electrodes |-> geo.electrodes,
                     confirmed |-> geo.confirmed]
           /\ Editor!IsStructure(geo.atoms)
BY DEF EditorInv, Sound

\* A record is made of the atoms picked, or the picks are only remembered.
LEMMA MeasureKeeps ==
    ASSUME EditorInv, NEW i \in DOMAIN geo.atoms, Editor!Measure(i)
    PROVE  EditorInv'
<1> DEFINE picked == Append(tool.picked, i)
           made == Editor!Measured(geo.atoms, picked)
<1>1. /\ UNCHANGED <<source, history, builder, lattice, factor, dialog>>
      /\ dialog = None /\ tool.drag = None
      /\ \/ /\ geo' = [geo EXCEPT !.measured = {made}]
            /\ tool' = [tool EXCEPT !.picked = <<>>]
         \/ (tool' = [tool EXCEPT !.picked = picked] /\ UNCHANGED geo)
  BY DEF Editor!Measure, Editor!Idle
<1>2. picked \in Seq(DOMAIN geo.atoms) /\ <<>> \in Seq(DOMAIN geo.atoms)
  <2>1. tool.picked \in Seq(DOMAIN geo.atoms)
    BY DEF EditorInv, ToolFits
  <2>2. Append(tool.picked, i) \in Seq(DOMAIN geo.atoms)
    BY <2>1, AppendProperties
  <2> QED BY <2>2
<1>3. made.of = picked /\ \A x \in DOMAIN picked : picked[x] \in DOMAIN geo.atoms
  <2>1. picked \in [1..Len(picked) -> DOMAIN geo.atoms]
    BY <1>2, LenProperties
  <2> QED BY <2>1 DEF Editor!Measured
<1>4. made = Editor!Measured(geo.atoms, made.of)
  BY <1>3
<1> HIDE DEF picked, made
<1>5. PICK q : q \in Seq(DOMAIN geo.atoms) /\ tool' = [tool EXCEPT !.picked = q]
  BY <1>1, <1>2
<1>6. tool' = [mode |-> tool.mode, picked |-> q, element |-> tool.element,
               torsion |-> tool.torsion, drag |-> tool.drag]
  BY <1>5, ToolShape
<1>7. /\ geo'.atoms = geo.atoms /\ geo'.bonds = geo.bonds /\ geo'.electrodes = geo.electrodes
      /\ Sound(geo')
  <2>1. CASE geo' = [geo EXCEPT !.measured = {made}]
    <3>1. geo' = [atoms |-> geo.atoms, bonds |-> geo.bonds, measured |-> {made},
                  contacts |-> geo.contacts, electrodes |-> geo.electrodes,
                  confirmed |-> geo.confirmed]
      BY <2>1, GeoShape
    <3>2. \A m \in geo'.measured :
             (\A x \in DOMAIN m.of : m.of[x] \in DOMAIN geo.atoms)
             /\ m = Editor!Measured(geo.atoms, m.of)
      BY <1>3, <1>4, <3>1
    <3> QED BY <3>1, <3>2 DEF EditorInv, Sound
  <2>2. CASE geo' = geo
    BY <2>2 DEF EditorInv
  <2> QED BY <1>1, <2>1, <2>2
<1>8. TorsionFits' /\ DragFits' /\ ToolFits'
  BY <1>1, <1>5, <1>6, <1>7, ToolChanged
<1>9. LatticeFits'
  BY <1>1, <1>7, LatticeShape, LatticeStays
<1> QED BY <1>1, <1>7, <1>8, <1>9, BuilderStays, HistoryStays DEF EditorInv

LEMMA ForgetPicksKeeps ==
    ASSUME EditorInv, NEW clear, Editor!ForgetPicks(clear)
    PROVE  EditorInv'
<1>1. /\ UNCHANGED <<source, history, builder, lattice, factor, dialog>>
      /\ dialog = None /\ tool.drag = None /\ tool' = [tool EXCEPT !.picked = <<>>]
      /\ geo' = [geo EXCEPT !.measured = {}] \/ geo' = geo
  BY DEF Editor!ForgetPicks, Editor!Idle
<1>2. tool' = [mode |-> tool.mode, picked |-> <<>>, element |-> tool.element,
               torsion |-> tool.torsion, drag |-> tool.drag]
  BY <1>1, ToolShape
<1>3. /\ geo' = [atoms |-> geo.atoms, bonds |-> geo.bonds, measured |-> geo'.measured,
                 contacts |-> geo.contacts, electrodes |-> geo.electrodes,
                 confirmed |-> geo.confirmed]
      /\ geo'.measured = geo.measured \/ geo'.measured = {}
  BY <1>1, GeoShape
<1>4. Sound(geo')
  BY <1>3, SoundRecords DEF EditorInv
<1>5. <<>> \in Seq(DOMAIN geo.atoms)
  OBVIOUS
<1>6. geo'.atoms = geo.atoms /\ geo'.bonds = geo.bonds /\ geo'.electrodes = geo.electrodes
  BY <1>3
<1>7. TorsionFits' /\ DragFits' /\ ToolFits'
  BY <1>1, <1>2, <1>5, <1>6, ToolChanged
<1>8. LatticeFits'
  BY <1>1, <1>6, LatticeShape, LatticeStays
<1> QED BY <1>1, <1>4, <1>6, <1>7, <1>8, BuilderStays, HistoryStays DEF EditorInv

LEMMA NewAtomsKeep ==
    ASSUME NEW atoms, NEW bonds, NEW measured, EditorInv, Editor!IsStructure(atoms),
           \A m \in measured :
              (\A x \in DOMAIN m.of : m.of[x] \in DOMAIN atoms) /\ m = Editor!Measured(atoms, m.of),
           Editor!IdentityEdit(atoms, bonds, measured)
    PROVE  EditorInv'
<1>1. /\ geo' = [atoms |-> atoms, bonds |-> bonds, measured |-> measured, contacts |-> None,
                 electrodes |-> None, confirmed |-> FALSE]
      /\ Editor!Push(geo)
      /\ tool' = [tool EXCEPT !.picked = <<>>, !.torsion = None, !.drag = None]
      /\ builder' = Editor!NoBuilder /\ lattice' = Editor!NoLattice
  BY DEF Editor!IdentityEdit
<1>2. Sound(geo')
  BY <1>1 DEF Sound
<1>3. HistoryFits'
  BY <1>1, PushFits DEF EditorInv
<1>4. tool' = [mode |-> tool.mode, picked |-> <<>>, element |-> tool.element,
               torsion |-> None, drag |-> None]
  BY <1>1, ToolShape
<1>5. TorsionFits' /\ DragFits'
  BY <1>4 DEF TorsionFits, DragFits
<1>6. <<>> \in Seq(DOMAIN atoms)
  OBVIOUS
<1>7. ToolFits'
  BY <1>1, <1>4, <1>6 DEF ToolFits
<1> QED BY <1>1, <1>2, <1>3, <1>5, <1>7, NoBuilderFits, NoLatticeFits DEF EditorInv

\* The measurements left are of the same atoms, at their new indices.
LEMMA DeleteKeeps ==
    ASSUME EditorInv, NEW k \in DOMAIN geo.atoms, Editor!DeletePicked(k)
    PROVE  EditorInv'
<1> DEFINE atoms == Editor!RemoveAt(geo.atoms, k)
           measured == Editor!Remap(geo.measured, k)
<1>1. Editor!IdentityEdit(Editor!DeleteAtom(geo.atoms, geo.bonds, k).atoms,
                          Editor!DeleteAtom(geo.atoms, geo.bonds, k).bonds, measured)
  BY DEF Editor!DeletePicked
<1>2. Editor!DeleteAtom(geo.atoms, geo.bonds, k).atoms = atoms
  BY DEF Editor!DeleteAtom
<1>3. /\ Editor!IsStructure(atoms)
      /\ \A i \in DOMAIN geo.atoms \ {k} :
            Editor!Renumber(i, k) \in DOMAIN atoms /\ atoms[Editor!Renumber(i, k)] = geo.atoms[i]
  BY GeoShape, Deleting
<1> HIDE DEF atoms
<1>4. ASSUME NEW m \in measured
      PROVE  (\A x \in DOMAIN m.of : m.of[x] \in DOMAIN atoms) /\ m = Editor!Measured(atoms, m.of)
  <2>1. PICK r \in geo.measured :
           /\ k \notin {r.of[x] : x \in DOMAIN r.of}
           /\ m = [r EXCEPT !.of = [x \in DOMAIN r.of |-> Editor!Renumber(r.of[x], k)]]
    BY DEF Editor!Remap
  <2>2. /\ \A x \in DOMAIN r.of : r.of[x] \in DOMAIN geo.atoms \ {k}
        /\ r = Editor!Measured(geo.atoms, r.of)
    BY <2>1 DEF EditorInv, Sound
  <2> DEFINE of == [x \in DOMAIN r.of |-> Editor!Renumber(r.of[x], k)]
             value == [x \in DOMAIN r.of |-> Editor!Position(geo.atoms, r.of[x])]
  <2>3. r = [of |-> r.of, value |-> value]
    BY <2>2 DEF Editor!Measured
  <2>4. DOMAIN of = DOMAIN r.of /\ \A x \in DOMAIN of : of[x] \in DOMAIN atoms
    BY <1>3, <2>2
  <2>5. value = [x \in DOMAIN of |-> Editor!Position(atoms, of[x])]
    <3>1. ASSUME NEW x \in DOMAIN r.of
          PROVE  Editor!Position(geo.atoms, r.of[x]) = Editor!Position(atoms, of[x])
      BY <1>3, <2>2 DEF Editor!Position
    <3> QED BY <3>1
  <2>6. m = [r EXCEPT !.of = of]
    BY <2>1
  <2> HIDE DEF of, value
  <2>7. m = [of |-> of, value |-> value]
    BY <2>3, <2>6
  <2> QED BY <2>4, <2>5, <2>7 DEF Editor!Measured
<1> HIDE DEF measured
<1> QED BY <1>1, <1>2, <1>3, <1>4, NewAtomsKeep

LEMMA ReplaceKeeps ==
    ASSUME EditorInv, NEW k \in DOMAIN geo.atoms, Editor!ReplacePicked(k)
    PROVE  EditorInv'
<1> DEFINE atoms == [geo.atoms EXCEPT ![k].el = tool.element]
<1>1. Editor!IdentityEdit(atoms, geo.bonds, geo.measured)
  BY DEF Editor!ReplacePicked
<1>2. /\ Editor!IsStructure(atoms) /\ DOMAIN atoms = DOMAIN geo.atoms
      /\ \A i \in DOMAIN geo.atoms : Editor!Position(atoms, i) = Editor!Position(geo.atoms, i)
  BY GeoShape, Replacing
<1> HIDE DEF atoms
<1>3. ASSUME NEW m \in geo.measured
      PROVE  (\A x \in DOMAIN m.of : m.of[x] \in DOMAIN atoms) /\ m = Editor!Measured(atoms, m.of)
  <2>1. (\A x \in DOMAIN m.of : m.of[x] \in DOMAIN geo.atoms) /\ m = Editor!Measured(geo.atoms, m.of)
    BY DEF EditorInv, Sound
  <2>2. Editor!Measured(geo.atoms, m.of) = Editor!Measured(atoms, m.of)
    BY <1>2, <2>1 DEF Editor!Measured
  <2> QED BY <1>2, <2>1, <2>2
<1> QED BY <1>1, <1>2, <1>3, NewAtomsKeep

----------------------------------------------------------------------------
(* Rotation.                                                               *)

\* At angle zero nothing is turned.
LEMMA TurnedByNothing ==
    ASSUME NEW s, NEW torsion, Editor!IsStructure(s), torsion.angle = 0
    PROVE  Editor!Turn(s, torsion) = s
<1>1. DOMAIN s = 1..Len(s) /\ s = [i \in 1..Len(s) |-> s[i]]
  BY StructureShape
<1>2. Editor!Turn(s, torsion) = [i \in DOMAIN s |-> s[i]]
  BY DEF Editor!Turn
<1> QED BY <1>1, <1>2

\* A new session, and the geometry as it is.
LEMMA SessionStarts ==
    ASSUME EditorInv, geo' = geo, history' = history, builder' = builder, lattice' = lattice,
           dialog = None, dialog' = dialog, tool.drag = None,
           NEW t, tool' = [tool EXCEPT !.torsion = t],
           t # None =>
              /\ tool.mode = "rotate"
              /\ t = [edge |-> t.edge, axis |-> t.axis, baseline |-> t.baseline, angle |-> t.angle,
                      group |-> t.group, pivot |-> t.pivot, other |-> t.other]
              /\ t.baseline = geo.atoms /\ t.angle = 0 /\ t.edge \in geo.bonds
    PROVE  EditorInv'
<1>1. tool' = [mode |-> tool.mode, picked |-> tool.picked, element |-> tool.element,
               torsion |-> t, drag |-> tool.drag]
  BY ToolShape
<1>2. /\ tool'.mode = tool.mode /\ tool'.picked = tool.picked /\ tool'.torsion = t
      /\ tool'.drag = None
  BY <1>1
<1>3. ToolFits'
  BY <1>1, <1>2 DEF EditorInv, ToolFits
<1>4. DragFits'
  BY <1>2 DEF DragFits
<1>5. TorsionFits'
  <2>1. t # None => Editor!IsStructure(t.baseline) /\ Editor!Turn(t.baseline, t) = geo.atoms
    BY GeoShape, TurnedByNothing
  <2> QED BY <1>2, <2>1 DEF TorsionFits
<1>6. BuilderFits' /\ LatticeFits' /\ HistoryFits'
  BY BuilderStays, HistoryStays DEF EditorInv, LatticeFits
<1>7. Sound(geo')
  BY DEF EditorInv
<1> QED BY <1>3, <1>4, <1>5, <1>6, <1>7 DEF EditorInv

LEMMA PickEdgeKeeps ==
    ASSUME EditorInv, NEW i, NEW j, Editor!PickEdge(i, j)
    PROVE  EditorInv'
<1> DEFINE t == Editor!Session(geo.atoms, geo.bonds, i, j)
<1>1. /\ tool' = [tool EXCEPT !.torsion = t] /\ tool.mode = "rotate" /\ {i, j} \in geo.bonds
      /\ UNCHANGED <<geo, source, history, builder, lattice, factor, dialog>>
      /\ dialog = None /\ tool.drag = None
  BY DEF Editor!PickEdge, Editor!Idle
<1>2. t # None =>
        /\ t = [edge |-> t.edge, axis |-> t.axis, baseline |-> t.baseline, angle |-> t.angle,
                group |-> t.group, pivot |-> t.pivot, other |-> t.other]
        /\ t.baseline = geo.atoms /\ t.angle = 0 /\ t.edge = {i, j}
  BY DEF Editor!Session
<1> HIDE DEF t
<1> QED BY <1>1, <1>2, SessionStarts

LEMMA SwitchSideKeeps == ASSUME EditorInv, Editor!SwitchSide PROVE EditorInv'
<1> DEFINE t == Editor!Switched(tool.torsion, geo.atoms)
           old == tool.torsion
           pivot == CHOOSE i \in old.edge : i # old.pivot
<1>1. /\ tool' = [tool EXCEPT !.torsion = t] /\ old # None
      /\ UNCHANGED <<geo, source, history, builder, lattice, factor, dialog>>
      /\ dialog = None /\ tool.drag = None
  BY DEF Editor!SwitchSide, Editor!Idle
<1>2. /\ tool.mode = "rotate" /\ old.edge \in geo.bonds
      /\ old = [edge |-> old.edge, axis |-> old.axis, baseline |-> old.baseline,
                angle |-> old.angle, group |-> old.group, pivot |-> old.pivot, other |-> old.other]
  BY <1>1 DEF EditorInv, TorsionFits
<1>3. t = [old EXCEPT !.group = old.other, !.other = old.group, !.baseline = geo.atoms,
                      !.angle = 0, !.pivot = pivot]
  BY DEF Editor!Switched
<1> HIDE DEF t, old, pivot
<1>4. t = [edge |-> old.edge, axis |-> old.axis, baseline |-> geo.atoms, angle |-> 0,
           group |-> old.other, pivot |-> pivot, other |-> old.group]
  BY <1>2, <1>3
<1>5. /\ t = [edge |-> t.edge, axis |-> t.axis, baseline |-> t.baseline, angle |-> t.angle,
              group |-> t.group, pivot |-> t.pivot, other |-> t.other]
      /\ t.baseline = geo.atoms /\ t.angle = 0 /\ t.edge = old.edge
  BY <1>4
<1> QED BY <1>1, <1>2, <1>5, SessionStarts

\* The session at another angle: its atoms are those it started from, some of them moved.
LEMMA SessionTurned ==
    ASSUME EditorInv, tool.torsion # None, NEW angle
    PROVE  LET old == tool.torsion
               t == [tool.torsion EXCEPT !.angle = angle] IN
           /\ t = [edge |-> t.edge, axis |-> t.axis, baseline |-> t.baseline, angle |-> t.angle,
                   group |-> t.group, pivot |-> t.pivot, other |-> t.other]
           /\ t.edge = old.edge /\ t.baseline = old.baseline
           /\ Editor!IsStructure(t.baseline) /\ Editor!IsStructure(Editor!Turn(t.baseline, t))
           /\ Editor!Identity(Editor!Turn(t.baseline, t)) = Editor!Identity(geo.atoms)
<1> DEFINE old == tool.torsion
           t == [tool.torsion EXCEPT !.angle = angle]
<1>1. /\ old = [edge |-> old.edge, axis |-> old.axis, baseline |-> old.baseline,
                angle |-> old.angle, group |-> old.group, pivot |-> old.pivot, other |-> old.other]
      /\ Editor!IsStructure(old.baseline) /\ Editor!Turn(old.baseline, old) = geo.atoms
  BY DEF EditorInv, TorsionFits
<1>2. t = [old EXCEPT !.angle = angle]
  OBVIOUS
<1> HIDE DEF t, old
<1>3. t = [edge |-> old.edge, axis |-> old.axis, baseline |-> old.baseline, angle |-> angle,
           group |-> old.group, pivot |-> old.pivot, other |-> old.other]
  BY <1>1, <1>2
<1>4. /\ t = [edge |-> t.edge, axis |-> t.axis, baseline |-> t.baseline, angle |-> t.angle,
              group |-> t.group, pivot |-> t.pivot, other |-> t.other]
      /\ t.edge = old.edge /\ t.baseline = old.baseline
  BY <1>3
<1>5. /\ Editor!IsStructure(Editor!Turn(old.baseline, t))
      /\ Editor!Identity(Editor!Turn(old.baseline, t)) = Editor!Identity(old.baseline)
      /\ Editor!Identity(geo.atoms) = Editor!Identity(old.baseline)
  BY <1>1, Turning
<1> QED BY <1>1, <1>4, <1>5 DEF t, old

\* Atoms moved along a session: what was ticked, previewed and measured of them is gone.
LEMMA MoveKeeps ==
    ASSUME EditorInv, tool.torsion # None, NEW angle, NEW t, t = [tool.torsion EXCEPT !.angle = angle],
           Editor!Moved(t), dialog = None, dialog' = dialog,
           tool' = [tool EXCEPT !.torsion = t, !.picked = <<>>]
    PROVE  /\ Sound(geo') /\ Sound([geo EXCEPT !.measured = {}])
           /\ TorsionFits' /\ DragFits' /\ ToolFits' /\ BuilderFits' /\ LatticeFits'
<1> DEFINE s == Editor!Turn(t.baseline, t)
           old == tool.torsion
<1>1. /\ geo' = [geo EXCEPT !.atoms = s, !.measured = {}]
      /\ builder' = Editor!NoBuilder /\ lattice' = Editor!NoLattice
  BY DEF Editor!Moved, Editor!Unticked
<1>2. /\ t = [edge |-> t.edge, axis |-> t.axis, baseline |-> t.baseline, angle |-> t.angle,
              group |-> t.group, pivot |-> t.pivot, other |-> t.other]
      /\ t.edge = old.edge /\ Editor!IsStructure(t.baseline) /\ Editor!IsStructure(s)
      /\ Editor!Identity(s) = Editor!Identity(geo.atoms)
  BY SessionTurned
<1>3. tool.mode = "rotate" /\ old.edge \in geo.bonds
  BY DEF EditorInv, TorsionFits
<1> HIDE DEF old
<1>4. geo' = [atoms |-> s, bonds |-> geo.bonds, measured |-> {}, contacts |-> geo.contacts,
              electrodes |-> geo.electrodes, confirmed |-> geo.confirmed]
  BY <1>1, GeoShape
<1>5. Sound(geo')
  <2> HIDE DEF s
  <2> QED BY <1>2, <1>4, SoundMoved DEF EditorInv
<1>6. Sound([geo EXCEPT !.measured = {}])
  <2>1. [geo EXCEPT !.measured = {}] =
           [atoms |-> geo.atoms, bonds |-> geo.bonds, measured |-> {}, contacts |-> geo.contacts,
            electrodes |-> geo.electrodes, confirmed |-> geo.confirmed]
    BY GeoShape
  <2> QED BY <2>1, SoundRecords DEF EditorInv
<1>7. tool' = [mode |-> tool.mode, picked |-> <<>>, element |-> tool.element,
               torsion |-> t, drag |-> tool.drag]
  BY ToolShape
<1>8. /\ tool'.mode = tool.mode /\ tool'.picked = <<>> /\ tool'.torsion = t
      /\ tool'.drag = tool.drag
  BY <1>7
<1>9. TorsionFits'
  BY <1>2, <1>3, <1>4, <1>8 DEF TorsionFits
<1>10. DragFits'
  BY <1>2, <1>4, <1>8 DEF EditorInv, DragFits
<1>11. ToolFits'
  <2>1. <<>> \in Seq(DOMAIN geo'.atoms)
    OBVIOUS
  <2> QED BY <1>7, <1>8, <2>1 DEF ToolFits
<1> QED BY <1>1, <1>5, <1>6, <1>9, <1>10, <1>11, NoBuilderFits, NoLatticeFits

LEMMA CommitAngleKeeps ==
    ASSUME EditorInv, NEW angle, Editor!CommitAngle(angle)
    PROVE  EditorInv'
<1> DEFINE t == [tool.torsion EXCEPT !.angle = angle]
<1>1. /\ dialog = None /\ tool.drag = None /\ tool.torsion # None
      /\ tool' = [tool EXCEPT !.torsion = t, !.picked = <<>>]
      /\ UNCHANGED <<source, factor, dialog>>
      /\ IF Editor!Turn(t.baseline, t) = geo.atoms
         THEN UNCHANGED <<geo, history, builder, lattice, gestures>>
         ELSE Editor!Gesture /\ Editor!Moved(t) /\ Editor!Push([geo EXCEPT !.measured = {}])
  BY DEF Editor!CommitAngle, Editor!Idle
<1>2. /\ t = [edge |-> t.edge, axis |-> t.axis, baseline |-> t.baseline, angle |-> t.angle,
              group |-> t.group, pivot |-> t.pivot, other |-> t.other]
      /\ t.edge = tool.torsion.edge /\ Editor!IsStructure(t.baseline)
  BY <1>1, SessionTurned
<1>3. tool.mode = "rotate" /\ tool.torsion.edge \in geo.bonds
  BY <1>1 DEF EditorInv, TorsionFits
<1>4. CASE Editor!Turn(t.baseline, t) = geo.atoms
  <2>1. UNCHANGED <<geo, history, builder, lattice>>
    BY <1>1, <1>4
  <2> HIDE DEF t
  <2>2. tool' = [mode |-> tool.mode, picked |-> <<>>, element |-> tool.element,
                 torsion |-> t, drag |-> tool.drag]
    BY <1>1, ToolShape
  <2>3. /\ tool'.mode = tool.mode /\ tool'.picked = <<>> /\ tool'.torsion = t
        /\ tool'.drag = None
    BY <1>1, <2>2
  <2>4. TorsionFits'
    BY <1>1, <1>2, <1>3, <1>4, <2>1, <2>3 DEF TorsionFits
  <2>5. DragFits'
    BY <2>3 DEF DragFits
  <2>6. ToolFits'
    <3>1. <<>> \in Seq(DOMAIN geo'.atoms)
      OBVIOUS
    <3> QED BY <2>2, <2>3, <3>1 DEF ToolFits
  <2>7. BuilderFits' /\ LatticeFits' /\ HistoryFits'
    BY <2>1, BuilderStays, HistoryStays DEF EditorInv, LatticeFits
  <2>8. Sound(geo')
    BY <2>1 DEF EditorInv
  <2> QED BY <2>4, <2>5, <2>6, <2>7, <2>8 DEF EditorInv
<1>5. CASE Editor!Turn(t.baseline, t) # geo.atoms
  <2>1. Editor!Moved(t) /\ Editor!Push([geo EXCEPT !.measured = {}])
    BY <1>1, <1>5
  <2> DEFINE u == t
  <2>2. u = [tool.torsion EXCEPT !.angle = angle] /\ Editor!Moved(u)
        /\ tool' = [tool EXCEPT !.torsion = u, !.picked = <<>>]
    BY <1>1, <2>1
  <2> HIDE DEF u
  <2>3. /\ Sound(geo') /\ Sound([geo EXCEPT !.measured = {}])
        /\ TorsionFits' /\ DragFits' /\ ToolFits' /\ BuilderFits' /\ LatticeFits'
    BY <1>1, <2>2, MoveKeeps
  <2>4. HistoryFits'
    BY <2>1, <2>3, PushFits DEF EditorInv
  <2> QED BY <2>3, <2>4 DEF EditorInv
<1> QED BY <1>4, <1>5

LEMMA DragKeeps ==
    ASSUME EditorInv, NEW angle, Editor!Drag(angle)
    PROVE  EditorInv'
<1> DEFINE t == [tool.torsion EXCEPT !.angle = angle]
<1>1. /\ dialog = None /\ tool.torsion # None /\ Editor!Moved(t)
      /\ t = [tool.torsion EXCEPT !.angle = angle]
      /\ tool' = [tool EXCEPT !.torsion = t, !.picked = <<>>]
      /\ UNCHANGED <<source, history, factor, dialog, gestures>>
  BY DEF Editor!Drag
<1> HIDE DEF t
<1>2. /\ Sound(geo') /\ Sound([geo EXCEPT !.measured = {}])
      /\ TorsionFits' /\ DragFits' /\ ToolFits' /\ BuilderFits' /\ LatticeFits'
  BY <1>1, MoveKeeps
<1> QED BY <1>1, <1>2, HistoryStays DEF EditorInv

LEMMA StartDragKeeps == ASSUME EditorInv, Editor!StartDrag PROVE EditorInv'
<1>1. /\ tool' = [tool EXCEPT !.drag = geo.atoms] /\ dialog = None
      /\ UNCHANGED <<geo, source, history, builder, lattice, factor, dialog>>
  BY DEF Editor!StartDrag, Editor!Idle
<1>2. tool' = [mode |-> tool.mode, picked |-> tool.picked, element |-> tool.element,
               torsion |-> tool.torsion, drag |-> geo.atoms]
  BY <1>1, ToolShape
<1>3. /\ tool'.mode = tool.mode /\ tool'.picked = tool.picked /\ tool'.torsion = tool.torsion
      /\ tool'.drag = geo.atoms
  BY <1>2
<1>4. TorsionFits'
  BY <1>1, <1>3 DEF EditorInv, TorsionFits
<1>5. DragFits'
  BY <1>1, <1>3, GeoShape DEF DragFits
<1>6. ToolFits'
  BY <1>1, <1>2, <1>3 DEF EditorInv, ToolFits
<1>7. BuilderFits' /\ LatticeFits' /\ HistoryFits'
  BY <1>1, BuilderStays, HistoryStays DEF EditorInv, LatticeFits
<1>8. Sound(geo')
  BY <1>1 DEF EditorInv
<1> QED BY <1>4, <1>5, <1>6, <1>7, <1>8 DEF EditorInv

\* What the drag began with is what is kept.
LEMMA FinishDragKeeps == ASSUME EditorInv, Editor!FinishDrag PROVE EditorInv'
<1>1. /\ tool' = [tool EXCEPT !.drag = None] /\ dialog = None /\ tool.drag # None
      /\ UNCHANGED <<geo, source, builder, lattice, factor, dialog>>
      /\ history' = history \/ (tool.drag # geo.atoms /\ Editor!Push([geo EXCEPT !.atoms = tool.drag]))
  BY DEF Editor!FinishDrag
<1>2. tool' = [mode |-> tool.mode, picked |-> tool.picked, element |-> tool.element,
               torsion |-> tool.torsion, drag |-> None]
  BY <1>1, ToolShape
<1>3. /\ tool'.mode = tool.mode /\ tool'.picked = tool.picked /\ tool'.torsion = tool.torsion
      /\ tool'.drag = None
  BY <1>2
<1>4. TorsionFits'
  BY <1>1, <1>3 DEF EditorInv, TorsionFits
<1>5. DragFits'
  BY <1>3 DEF DragFits
<1>6. ToolFits'
  BY <1>1, <1>2, <1>3 DEF EditorInv, ToolFits
<1>7. BuilderFits' /\ LatticeFits'
  BY <1>1, BuilderStays DEF EditorInv, LatticeFits
<1>8. Sound(geo')
  BY <1>1 DEF EditorInv
<1>9. HistoryFits'
  <2>1. CASE history' = history
    BY <2>1, HistoryStays
  <2>2. CASE tool.drag # geo.atoms /\ Editor!Push([geo EXCEPT !.atoms = tool.drag])
    <3> DEFINE g == [geo EXCEPT !.atoms = tool.drag]
    <3>1. /\ Editor!IsStructure(tool.drag) /\ Editor!Identity(tool.drag) = Editor!Identity(geo.atoms)
          /\ geo.measured = {}
      BY <1>1, <2>2 DEF EditorInv, DragFits
    <3>2. g = [atoms |-> tool.drag, bonds |-> geo.bonds, measured |-> geo.measured,
               contacts |-> geo.contacts, electrodes |-> geo.electrodes, confirmed |-> geo.confirmed]
      BY GeoShape
    <3>3. Editor!Push(g)
      BY <2>2
    <3> HIDE DEF g
    <3>4. Sound(g)
      BY <3>1, <3>2, SoundMoved DEF EditorInv
    <3> QED BY <3>3, <3>4, PushFits DEF EditorInv
  <2> QED BY <1>1, <2>1, <2>2
<1> QED BY <1>4, <1>5, <1>6, <1>7, <1>8, <1>9 DEF EditorInv

----------------------------------------------------------------------------
(* Contact Au, electrodes and the lattice.                                 *)

LEMMA BuilderShape ==
    ASSUME EditorInv
    PROVE  builder = [anchors |-> builder.anchors, proposals |-> builder.proposals,
                      sites |-> builder.sites, preview |-> builder.preview]
BY DEF EditorInv, BuilderFits

\* The placement tool, with nothing picked.
LEMMA PlacingKeeps ==
    ASSUME EditorInv, geo'.atoms = geo.atoms, geo'.bonds = geo.bonds, dialog' = dialog,
           tool.drag = None,
           tool' = [tool EXCEPT !.mode = "place", !.picked = <<>>,
                                !.torsion = IF Editor!LeftRotation("place") THEN None ELSE @]
    PROVE  TorsionFits' /\ DragFits' /\ ToolFits'
<1> DEFINE stays == IF Editor!LeftRotation("place") THEN None ELSE tool.torsion
<1>1. stays = None \/ (stays = tool.torsion /\ "place" = tool.mode)
  BY SessionLeft
<1>2. tool' = [tool EXCEPT !.mode = "place", !.picked = <<>>, !.torsion = stays]
  OBVIOUS
<1> HIDE DEF stays
<1> DEFINE t == [mode |-> "place", picked |-> <<>>, element |-> tool.element,
                 torsion |-> stays, drag |-> tool.drag]
<1>3. tool' = t
  BY <1>2, ToolShape
<1>4. /\ t.mode = "place" /\ t.picked = <<>> /\ t.torsion = stays /\ t.drag = None
      /\ t = [mode |-> t.mode, picked |-> t.picked, element |-> t.element,
              torsion |-> t.torsion, drag |-> t.drag]
  OBVIOUS
<1>5. <<>> \in Seq(DOMAIN geo.atoms)
  OBVIOUS
<1> HIDE DEF t
<1> QED BY <1>1, <1>3, <1>4, <1>5, ToolChanged

LEMMA TickAnchorsKeeps ==
    ASSUME EditorInv, NEW anchors, NEW made \in BOOLEAN, Editor!TickAnchors(anchors, made)
    PROVE  EditorInv'
<1> DEFINE proposals == IF anchors = {} THEN None
                        ELSE IF made THEN [atoms |-> geo.atoms, anchors |-> anchors]
                        ELSE builder.proposals
<1>1. /\ builder' = [builder EXCEPT !.anchors = anchors, !.proposals = proposals]
      /\ anchors \subseteq Editor!FreeAnchors
      /\ geo' = [geo EXCEPT !.confirmed = FALSE]
      /\ tool' = [tool EXCEPT !.mode = "place", !.picked = <<>>,
                              !.torsion = IF Editor!LeftRotation("place") THEN None ELSE @]
      /\ lattice' = [lattice EXCEPT !.hover = None]
      /\ UNCHANGED <<source, history, factor, dialog>> /\ tool.drag = None
  BY DEF Editor!TickAnchors, Editor!Idle
<1>2. anchors \subseteq DOMAIN geo.atoms
  BY <1>1 DEF Editor!FreeAnchors, Editor!Anchors
<1>3. proposals # None => Editor!Kept(proposals.atoms, geo.atoms)
  <2>1. CASE anchors = {}
    BY <2>1
  <2>2. CASE anchors # {} /\ made
    <3>1. proposals.atoms = geo.atoms
      BY <2>2
    <3> QED BY <3>1, KeptSame
  <2>3. CASE anchors # {} /\ ~made
    <3>1. proposals = builder.proposals
      BY <2>3
    <3> QED BY <3>1 DEF EditorInv, BuilderFits
  <2> QED BY <2>1, <2>2, <2>3
<1> HIDE DEF proposals
<1>4. builder' = [anchors |-> anchors, proposals |-> proposals, sites |-> builder.sites,
                  preview |-> builder.preview]
  BY <1>1, BuilderShape
<1>5. geo' = [atoms |-> geo.atoms, bonds |-> geo.bonds, measured |-> geo.measured,
              contacts |-> geo.contacts, electrodes |-> geo.electrodes, confirmed |-> FALSE]
  BY <1>1, GeoShape
<1>6. /\ geo'.atoms = geo.atoms /\ geo'.bonds = geo.bonds /\ geo'.electrodes = geo.electrodes
      /\ geo'.measured = geo.measured /\ geo'.contacts = geo.contacts
  BY <1>5
<1>7. Sound(geo')
  BY <1>5, SoundRecords DEF EditorInv
<1>8. TorsionFits' /\ DragFits' /\ ToolFits'
  BY <1>1, <1>6, PlacingKeeps
<1>9. /\ builder'.anchors = anchors /\ builder'.proposals = proposals
      /\ builder'.preview = builder.preview
  BY <1>4
<1>10. BuilderFits'
  BY <1>2, <1>3, <1>4, <1>6, <1>9 DEF EditorInv, BuilderFits
<1>11. lattice' = [valid |-> lattice.valid, candidates |-> lattice.candidates, hover |-> None]
  BY <1>1, LatticeShape
<1>12. LatticeFits'
  BY <1>6, <1>11, LatticeStays
<1> QED BY <1>1, <1>7, <1>8, <1>10, <1>12, HistoryStays DEF EditorInv

LEMMA TickSitesKeeps ==
    ASSUME EditorInv, NEW sites, NEW made \in BOOLEAN, Editor!TickSites(sites, made)
    PROVE  EditorInv'
<1> DEFINE preview == IF sites # {} /\ made
                      THEN [atoms |-> geo.atoms, bonds |-> geo.bonds, sites |-> sites] ELSE None
<1>1. /\ builder' = [builder EXCEPT !.sites = sites, !.preview = preview]
      /\ Editor!OfferedSites # {}
      /\ tool' = [tool EXCEPT !.mode = "place", !.picked = <<>>,
                              !.torsion = IF Editor!LeftRotation("place") THEN None ELSE @]
      /\ UNCHANGED <<geo, source, history, lattice, factor, dialog>> /\ tool.drag = None
  BY DEF Editor!TickSites, Editor!Idle
<1>2. geo.electrodes = None
  BY <1>1 DEF Editor!OfferedSites
<1>3. preview # None => preview.atoms = geo.atoms
  OBVIOUS
<1> HIDE DEF preview
<1>4. builder' = [anchors |-> builder.anchors, proposals |-> builder.proposals, sites |-> sites,
                  preview |-> preview]
  BY <1>1, BuilderShape
<1>5. /\ builder'.anchors = builder.anchors /\ builder'.proposals = builder.proposals
      /\ builder'.preview = preview
  BY <1>4
<1>6. BuilderFits'
  BY <1>1, <1>2, <1>3, <1>4, <1>5 DEF EditorInv, BuilderFits
<1>7. TorsionFits' /\ DragFits' /\ ToolFits'
  BY <1>1, PlacingKeeps
<1>8. LatticeFits' /\ HistoryFits'
  BY <1>1, HistoryStays DEF EditorInv, LatticeFits
<1>9. Sound(geo')
  BY <1>1 DEF EditorInv
<1> QED BY <1>6, <1>7, <1>8, <1>9 DEF EditorInv

\* The atoms of a structure are finitely many.
LEMMA IndicesFinite ==
    ASSUME NEW s, Editor!IsStructure(s)
    PROVE  IsFiniteSet(DOMAIN s) /\ IsFiniteSet(Editor!Ids(s))
<1>1. DOMAIN s = 1..Len(s) /\ Len(s) \in Nat
  BY StructureShape
<1>2. IsFiniteSet(DOMAIN s)
  BY <1>1, FS_Interval
<1> DEFINE f == [i \in DOMAIN s |-> s[i].id]
<1>3. {f[i] : i \in DOMAIN s} = Editor!Ids(s)
  BY DEF Editor!Ids
<1> HIDE DEF f
<1>4. IsFiniteSet({f[i] : i \in DOMAIN s})
  BY <1>2, ImageIsFinite
<1> QED BY <1>2, <1>3, <1>4

LEMMA ConfirmContactsKeeps == ASSUME EditorInv, Editor!ConfirmContacts PROVE EditorInv'
<1> DEFINE f == [i \in builder.anchors |-> geo.atoms[i].id]
           ids == {geo.atoms[i].id : i \in builder.anchors}
           new == {Gold[a] : a \in ids}
           atoms == geo.atoms \o Editor!AuAtoms(new)
           bonds == geo.bonds \cup Editor!Joined(atoms, {<<a, Gold[a]>> : a \in ids})
<1>1. Editor!Replaced([atoms |-> atoms, measured |-> {}, confirmed |-> TRUE, bonds |-> bonds,
                       contacts |-> Editor!Identity(atoms), electrodes |-> None])
  BY DEF Editor!ConfirmContacts
<1>2. IsFiniteSet(builder.anchors)
  <2>1. builder.anchors \subseteq DOMAIN geo.atoms
    BY DEF EditorInv, BuilderFits
  <2> QED BY <2>1, GeoShape, IndicesFinite, FS_Subset
<1>3. IsFiniteSet(ids)
  <2>1. ids = {f[i] : i \in builder.anchors}
    OBVIOUS
  <2> HIDE DEF f, ids
  <2> QED BY <1>2, <2>1, ImageIsFinite
<1> HIDE DEF f, ids
<1>4. IsFiniteSet(new)
  BY <1>3, ImageIsFinite
<1> HIDE DEF new
<1>5. Editor!IsStructure(atoms)
  BY <1>4, GeoShape, GoldAdded, Joining
<1> HIDE DEF atoms, bonds
<1>6. geo' = [atoms |-> atoms, measured |-> {}, confirmed |-> TRUE, bonds |-> bonds,
              contacts |-> Editor!Identity(atoms), electrodes |-> None]
  BY <1>1 DEF Editor!Replaced
<1>7. Sound(geo')
  BY <1>5, <1>6, KeptSame DEF Sound
<1> QED BY <1>1, <1>7, StartsAgain DEF Editor!Replaced

LEMMA ConfirmElectrodesKeeps == ASSUME EditorInv, Editor!ConfirmElectrodes PROVE EditorInv'
<1> DEFINE gold == {id \in Editor!Ids(geo.atoms) : id \in DOMAIN Pyramid}
           new == {Pyramid[g] : g \in gold}
           atoms == geo.atoms \o Editor!AuAtoms(new)
           bonds == geo.bonds \cup Editor!Joined(atoms, {<<g, Pyramid[g]>> : g \in gold})
           record == [identity |-> Editor!Identity(atoms), bonds |-> bonds]
<1>1. Editor!Replaced([atoms |-> atoms, bonds |-> bonds, measured |-> {}, confirmed |-> TRUE,
                       contacts |-> geo.contacts, electrodes |-> record])
  BY DEF Editor!ConfirmElectrodes
<1>2. IsFiniteSet(gold)
  <2>1. gold \subseteq Editor!Ids(geo.atoms)
    OBVIOUS
  <2> QED BY <2>1, GeoShape, IndicesFinite, FS_Subset
<1>9. record.identity = Editor!Identity(atoms)
  OBVIOUS
<1> HIDE DEF gold
<1>3. IsFiniteSet(new)
  BY <1>2, ImageIsFinite
<1> HIDE DEF new
<1>4. Editor!IsStructure(atoms) /\ Editor!Kept(geo.atoms, atoms)
  BY <1>3, GeoShape, GoldAdded, Joining
<1> HIDE DEF atoms, bonds, record
<1>5. geo' = [atoms |-> atoms, bonds |-> bonds, measured |-> {}, confirmed |-> TRUE,
              contacts |-> geo.contacts, electrodes |-> record]
  BY <1>1 DEF Editor!Replaced
<1>6. geo.contacts # None => Editor!Kept(geo.contacts, Editor!Identity(atoms))
  <2>1. geo.contacts # None => Editor!Kept(geo.contacts, Editor!Identity(geo.atoms))
    BY DEF EditorInv, Sound
  <2> QED BY <1>4, <2>1, KeptIdentity, KeptOn
<1>7. Sound(geo')
  BY <1>4, <1>5, <1>6, <1>9 DEF Sound
<1> QED BY <1>1, <1>7, StartsAgain DEF Editor!Replaced

LEMMA HoverKeeps == ASSUME EditorInv, NEW c, Editor!HoverSite(c) PROVE EditorInv'
<1>1. /\ lattice' = [lattice EXCEPT !.hover = c.site]
      /\ UNCHANGED <<geo, source, history, tool, builder, factor, dialog, gestures>>
  BY DEF Editor!HoverSite
<1>2. lattice' = [valid |-> lattice.valid, candidates |-> lattice.candidates, hover |-> c.site]
  BY <1>1, LatticeShape
<1>3. LatticeFits'
  BY <1>1, <1>2, LatticeStays
<1>4. Sound(geo') /\ TorsionFits' /\ DragFits' /\ ToolFits'
  BY <1>1 DEF EditorInv, TorsionFits, DragFits, ToolFits
<1> QED BY <1>1, <1>3, <1>4, BuilderStays, HistoryStays DEF EditorInv

\* One atom more: what was placed and ticked is still there.
LEMMA ClickKeeps == ASSUME EditorInv, NEW site, Editor!ClickSite(site) PROVE EditorInv'
<1> DEFINE beside == CHOOSE p \in DOMAIN Extension : Extension[p] = site
           atoms == Append(geo.atoms, Editor!AuAtom(site))
           bonds == geo.electrodes.bonds \cup Editor!Joined(atoms, {<<beside, site>>})
           record == [identity |-> Editor!Identity(atoms), bonds |-> bonds]
           after == [geo EXCEPT !.atoms = atoms, !.bonds = bonds, !.confirmed = TRUE,
                                !.electrodes = record]
<1>1. /\ tool.drag = None /\ dialog = None /\ tool.mode = "lattice" /\ geo.electrodes # None
      /\ geo' = after /\ lattice' = Editor!Shown(after, Editor!NoLattice) /\ Editor!Push(geo)
      /\ tool' = [tool EXCEPT !.picked = <<>>] /\ UNCHANGED <<source, builder, factor, dialog>>
  BY DEF Editor!ClickSite, Editor!Idle, Editor!Extensible
<1>2. /\ Editor!IsStructure(atoms) /\ Editor!Kept(geo.atoms, atoms)
      /\ DOMAIN geo.atoms \subseteq DOMAIN atoms
  BY GeoShape, Lengthening
<1>3. record.identity = Editor!Identity(atoms)
  OBVIOUS
<1> HIDE DEF beside, atoms, bonds, record
<1>4. after = [atoms |-> atoms, bonds |-> bonds, measured |-> geo.measured, contacts |-> geo.contacts,
               electrodes |-> record, confirmed |-> TRUE]
  <2>1. geo = [atoms |-> geo.atoms, bonds |-> geo.bonds, measured |-> geo.measured,
               contacts |-> geo.contacts, electrodes |-> geo.electrodes, confirmed |-> geo.confirmed]
    BY GeoShape
  <2>2. after = [geo EXCEPT !.atoms = atoms, !.bonds = bonds, !.confirmed = TRUE,
                            !.electrodes = record]
    OBVIOUS
  <2> HIDE DEF after
  <2> QED BY <2>1, <2>2
<1> HIDE DEF after
<1>5. ASSUME NEW m \in geo.measured
      PROVE  (\A x \in DOMAIN m.of : m.of[x] \in DOMAIN atoms) /\ m = Editor!Measured(atoms, m.of)
  <2>1. (\A x \in DOMAIN m.of : m.of[x] \in DOMAIN geo.atoms) /\ m = Editor!Measured(geo.atoms, m.of)
    BY DEF EditorInv, Sound
  <2>2. \A i \in DOMAIN geo.atoms : Editor!Position(atoms, i) = Editor!Position(geo.atoms, i)
    BY <1>2 DEF Editor!Kept, Editor!Position
  <2>3. Editor!Measured(geo.atoms, m.of) = Editor!Measured(atoms, m.of)
    BY <2>1, <2>2 DEF Editor!Measured
  <2> QED BY <1>2, <2>1, <2>3
<1>6. geo.contacts # None => Editor!Kept(geo.contacts, Editor!Identity(atoms))
  <2>1. geo.contacts # None => Editor!Kept(geo.contacts, Editor!Identity(geo.atoms))
    BY DEF EditorInv, Sound
  <2> QED BY <1>2, <2>1, KeptIdentity, KeptOn
<1>7. Sound(after)
  BY <1>2, <1>3, <1>4, <1>5, <1>6 DEF Sound
<1>8. HistoryFits'
  BY <1>1, PushFits DEF EditorInv
<1>9. tool.torsion = None
  BY <1>1 DEF EditorInv, TorsionFits
<1>10. tool' = [mode |-> tool.mode, picked |-> <<>>, element |-> tool.element,
                torsion |-> tool.torsion, drag |-> tool.drag]
  BY <1>1, ToolShape
<1>11. tool'.torsion = None /\ tool'.drag = None /\ tool'.picked = <<>>
  BY <1>1, <1>9, <1>10
<1>12. <<>> \in Seq(DOMAIN geo'.atoms)
  OBVIOUS
<1>13. TorsionFits' /\ DragFits'
  BY <1>11 DEF TorsionFits, DragFits
<1>14. ToolFits'
  BY <1>10, <1>11, <1>12 DEF ToolFits
<1>15. BuilderFits'
  <2>1. builder.preview = None
    BY <1>1 DEF EditorInv, BuilderFits
  <2>2. builder.proposals # None => Editor!Kept(builder.proposals.atoms, atoms)
    BY <1>2, KeptOn DEF EditorInv, BuilderFits
  <2>3. builder.anchors \subseteq DOMAIN atoms
    BY <1>2 DEF EditorInv, BuilderFits
  <2>4. geo'.atoms = atoms
    BY <1>1, <1>4
  <2> QED BY <1>1, <2>1, <2>2, <2>3, <2>4, BuilderShape DEF BuilderFits
<1>16. LatticeFits'
  <2>1. /\ ~Editor!NoLattice.valid
        /\ Editor!NoLattice = [valid |-> Editor!NoLattice.valid,
                               candidates |-> Editor!NoLattice.candidates,
                               hover |-> Editor!NoLattice.hover]
    BY DEF Editor!NoLattice
  <2> QED BY <1>1, <2>1, CandidatesShown
<1>17. Sound(geo')
  BY <1>1, <1>7
<1> QED BY <1>8, <1>13, <1>14, <1>15, <1>16, <1>17 DEF EditorInv

----------------------------------------------------------------------------
(* Undo, Redo and the threshold.                                           *)

LEMMA RestoreKeeps ==
    ASSUME EditorInv, NEW from, NEW to, Editor!Restore(from, to),
           (from = "undo" /\ to = "redo") \/ (from = "redo" /\ to = "undo")
    PROVE  EditorInv'
<1> DEFINE last == Editor!Last(history[from])
           stays == tool.mode = "lattice" /\ last.electrodes # None
           mode == IF tool.mode = "lattice" /\ ~stays THEN "normal" ELSE tool.mode
           front == Editor!Front(history[from])
           pushed == Editor!Trim(Append(history[to], geo))
<1>1. /\ history[from] # <<>> /\ geo' = last /\ builder' = Editor!NoBuilder
      /\ history' = [history EXCEPT ![from] = front, ![to] = pushed]
      /\ tool' = [tool EXCEPT !.torsion = None, !.drag = None, !.picked = <<>>, !.mode = mode]
      /\ lattice' = IF stays THEN Editor!Shown(last, Editor!NoLattice) ELSE Editor!NoLattice
  BY DEF Editor!Restore, Editor!Torsion_None
<1>2. /\ history = [undo |-> history.undo, redo |-> history.redo]
      /\ Restorable(history.undo) /\ Restorable(history.redo) /\ Sound(geo)
  BY DEF EditorInv, HistoryFits
<1>3. Restorable(history[from]) /\ Restorable(history[to])
  BY <1>2
<1>4. Sound(last) /\ Restorable(front)
  BY <1>1, <1>3, HistoryEnds
<1>5. Restorable(pushed)
  BY <1>2, <1>3, HistoryGrows
<1> HIDE DEF stays, mode, front, pushed, last
<1>6. HistoryFits'
  <2>1. CASE from = "undo" /\ to = "redo"
    <3>1. history' = [undo |-> front, redo |-> pushed]
      BY <1>1, <1>2, <2>1
    <3> QED BY <1>4, <1>5, <3>1 DEF HistoryFits
  <2>2. CASE from = "redo" /\ to = "undo"
    <3>1. history' = [undo |-> pushed, redo |-> front]
      BY <1>1, <1>2, <2>2
    <3> QED BY <1>4, <1>5, <3>1 DEF HistoryFits
  <2> QED BY <2>1, <2>2
<1>7. tool' = [mode |-> mode, picked |-> <<>>, element |-> tool.element, torsion |-> None,
               drag |-> None]
  BY <1>1, ToolShape
<1>8. tool'.torsion = None /\ tool'.drag = None /\ tool'.picked = <<>>
  BY <1>7
<1>9. TorsionFits' /\ DragFits'
  BY <1>8 DEF TorsionFits, DragFits
<1>10. ToolFits'
  <2>1. <<>> \in Seq(DOMAIN geo'.atoms)
    OBVIOUS
  <2> QED BY <1>7, <1>8, <2>1 DEF ToolFits
<1>11. LatticeFits'
  <2>1. /\ ~Editor!NoLattice.valid
        /\ Editor!NoLattice = [valid |-> Editor!NoLattice.valid,
                               candidates |-> Editor!NoLattice.candidates,
                               hover |-> Editor!NoLattice.hover]
    BY DEF Editor!NoLattice
  <2>2. lattice' = Editor!Shown(last, Editor!NoLattice) \/ lattice' = Editor!NoLattice
    BY <1>1
  <2> QED BY <1>1, <2>1, <2>2, CandidatesShown, NoLatticeFits
<1> QED BY <1>1, <1>4, <1>6, <1>9, <1>10, <1>11, NoBuilderFits DEF EditorInv

\* Other bonds between the same atoms.
LEMMA BondsKeep ==
    ASSUME EditorInv, geo' = [geo EXCEPT !.bonds = geo'.bonds], UNCHANGED <<history, builder, lattice>>
    PROVE  Sound(geo') /\ HistoryFits' /\ BuilderFits' /\ LatticeFits' /\ geo'.atoms = geo.atoms
           /\ geo'.measured = geo.measured
<1>1. geo' = [atoms |-> geo.atoms, bonds |-> geo'.bonds, measured |-> geo.measured,
              contacts |-> geo.contacts, electrodes |-> geo.electrodes, confirmed |-> geo.confirmed]
  BY GeoShape
<1>2. Sound(geo')
  BY <1>1, SoundRecords DEF EditorInv
<1>3. /\ geo'.atoms = geo.atoms /\ geo'.electrodes = geo.electrodes
      /\ geo'.measured = geo.measured
  BY <1>1
<1> QED BY <1>2, <1>3, LatticeShape, LatticeStays, BuilderStays, HistoryStays

LEMMA OpenBondDetectionKeeps == ASSUME EditorInv, Editor!OpenBondDetection PROVE EditorInv'
<1>1. /\ dialog = None /\ dialog' = [factor |-> factor, bonds |-> geo.bonds]
      /\ UNCHANGED <<geo, source, history, tool, builder, lattice, factor>>
  BY DEF Editor!OpenBondDetection, Editor!Idle
<1>2. dialog'.bonds = geo.bonds
  BY <1>1
<1>3. TorsionFits'
  BY <1>1, <1>2 DEF EditorInv, TorsionFits
<1>4. Sound(geo') /\ DragFits' /\ ToolFits' /\ LatticeFits'
  BY <1>1 DEF EditorInv, DragFits, ToolFits, LatticeFits
<1> QED BY <1>1, <1>3, <1>4, BuilderStays, HistoryStays DEF EditorInv

LEMMA PreviewFactorKeeps == ASSUME EditorInv, NEW f, Editor!PreviewFactor(f) PROVE EditorInv'
<1>1. /\ dialog # None /\ UNCHANGED <<source, history, tool, builder, lattice, dialog, gestures>>
      /\ geo' = [geo EXCEPT !.bonds = Editor!Inferred(geo.atoms, f)] \/ geo' = geo
  BY DEF Editor!PreviewFactor
<1>2. PICK bonds : geo' = [geo EXCEPT !.bonds = bonds]
  <2>1. geo = [geo EXCEPT !.bonds = geo.bonds]
    BY GeoShape
  <2> QED BY <1>1, <2>1
<1>3. geo' = [geo EXCEPT !.bonds = geo'.bonds]
  <2>1. geo' = [atoms |-> geo.atoms, bonds |-> bonds, measured |-> geo.measured,
                contacts |-> geo.contacts, electrodes |-> geo.electrodes, confirmed |-> geo.confirmed]
    BY <1>2, GeoShape
  <2>2. geo'.bonds = bonds
    BY <2>1
  <2> QED BY <1>2, <2>2
<1>4. Sound(geo') /\ HistoryFits' /\ BuilderFits' /\ LatticeFits' /\ geo'.atoms = geo.atoms
      /\ geo'.measured = geo.measured
  BY <1>1, <1>3, BondsKeep
<1>5. TorsionFits'
  BY <1>1, <1>4 DEF EditorInv, TorsionFits
<1>6. DragFits' /\ ToolFits'
  BY <1>1, <1>4 DEF EditorInv, DragFits, ToolFits
<1> QED BY <1>4, <1>5, <1>6 DEF EditorInv

LEMMA CancelBondDetectionKeeps == ASSUME EditorInv, Editor!CancelBondDetection PROVE EditorInv'
<1>1. /\ dialog # None /\ dialog' = None /\ geo' = [geo EXCEPT !.bonds = dialog.bonds]
      /\ UNCHANGED <<source, history, tool, builder, lattice, gestures>>
  BY DEF Editor!CancelBondDetection
<1>2. geo'.bonds = dialog.bonds
  <2>1. geo' = [atoms |-> geo.atoms, bonds |-> dialog.bonds, measured |-> geo.measured,
                contacts |-> geo.contacts, electrodes |-> geo.electrodes, confirmed |-> geo.confirmed]
    BY <1>1, GeoShape
  <2> QED BY <2>1
<1>3. geo' = [geo EXCEPT !.bonds = geo'.bonds]
  BY <1>1, <1>2
<1>4. Sound(geo') /\ HistoryFits' /\ BuilderFits' /\ LatticeFits' /\ geo'.atoms = geo.atoms
      /\ geo'.measured = geo.measured
  BY <1>1, <1>3, BondsKeep
<1>5. TorsionFits'
  BY <1>1, <1>2, <1>4 DEF EditorInv, TorsionFits
<1>6. DragFits' /\ ToolFits'
  BY <1>1, <1>4 DEF EditorInv, DragFits, ToolFits
<1> QED BY <1>4, <1>5, <1>6 DEF EditorInv

LEMMA AcceptBondDetectionKeeps == ASSUME EditorInv, Editor!AcceptBondDetection PROVE EditorInv'
<1>1. /\ dialog # None /\ dialog' = None /\ UNCHANGED <<geo, source, history, lattice, factor>>
      /\ builder' = Editor!NoBuilder \/ builder' = builder
      /\ tool' = IF Editor!EdgeGone(geo.bonds) THEN [tool EXCEPT !.torsion = None] ELSE tool
  BY DEF Editor!AcceptBondDetection
<1>2. BuilderFits'
  BY <1>1, NoBuilderFits, BuilderStays
<1>3. Sound(geo') /\ HistoryFits' /\ LatticeFits'
  BY <1>1, HistoryStays DEF EditorInv, LatticeFits
<1>4. CASE Editor!EdgeGone(geo.bonds)
  <2>1. tool' = [mode |-> tool.mode, picked |-> tool.picked, element |-> tool.element,
                 torsion |-> None, drag |-> tool.drag]
    BY <1>1, <1>4, ToolShape
  <2>2. tool'.torsion = None /\ tool'.drag = tool.drag /\ tool'.picked = tool.picked
    BY <2>1
  <2>3. TorsionFits'
    BY <2>2 DEF TorsionFits
  <2>4. DragFits'
    BY <1>1, <2>2 DEF EditorInv, DragFits
  <2>5. ToolFits'
    BY <1>1, <2>1, <2>2 DEF EditorInv, ToolFits
  <2> QED BY <1>2, <1>3, <2>3, <2>4, <2>5 DEF EditorInv
<1>5. CASE ~Editor!EdgeGone(geo.bonds)
  <2>1. tool' = tool
    BY <1>1, <1>5 DEF Editor!EdgeGone
  <2>2. tool.torsion # None => tool.torsion.edge \in geo.bonds
    BY <1>5 DEF Editor!EdgeGone
  <2>3. TorsionFits'
    BY <1>1, <2>1, <2>2 DEF EditorInv, TorsionFits
  <2>4. DragFits' /\ ToolFits'
    BY <1>1, <2>1 DEF EditorInv, DragFits, ToolFits
  <2> QED BY <1>2, <1>3, <2>3, <2>4 DEF EditorInv
<1> QED BY <1>4, <1>5

LEMMA EditorUnchanged ==
    ASSUME EditorInv, UNCHANGED <<geo, history, tool, builder, lattice, dialog>>
    PROVE  EditorInv'
BY DEF EditorInv, HistoryFits, TorsionFits, DragFits, ToolFits, BuilderFits, LatticeFits

LEMMA EditorNext == ASSUME EditorInv, Editor!Next PROVE EditorInv'
<1>1. ASSUME NEW g \in Loadable, Editor!Load(g) PROVE EditorInv'
  BY <1>1, LoadKeeps
<1>2. ASSUME NEW mode, NEW element, Editor!PickMode(mode, element) PROVE EditorInv'
  BY <1>2, PickModeKeeps
<1>3. ASSUME NEW k \in DOMAIN geo.atoms,
             Editor!Measure(k) \/ Editor!DeletePicked(k) \/ Editor!ReplacePicked(k)
      PROVE  EditorInv'
  BY <1>3, MeasureKeeps, DeleteKeeps, ReplaceKeeps
<1>4. ASSUME NEW clear, Editor!ForgetPicks(clear) PROVE EditorInv'
  BY <1>4, ForgetPicksKeeps
<1>5. ASSUME NEW i, NEW j, Editor!PickEdge(i, j) PROVE EditorInv'
  BY <1>5, PickEdgeKeeps
<1>6. ASSUME NEW angle, Editor!CommitAngle(angle) \/ Editor!Drag(angle) PROVE EditorInv'
  BY <1>6, CommitAngleKeeps, DragKeeps
<1>7. CASE Editor!StartDrag \/ Editor!FinishDrag \/ Editor!SwitchSide
  BY <1>7, StartDragKeeps, FinishDragKeeps, SwitchSideKeeps
<1>8. ASSUME NEW anchors, NEW made \in BOOLEAN, Editor!TickAnchors(anchors, made) PROVE EditorInv'
  BY <1>8, TickAnchorsKeeps
<1>9. ASSUME NEW sites, NEW made \in BOOLEAN, Editor!TickSites(sites, made) PROVE EditorInv'
  BY <1>9, TickSitesKeeps
<1>10. CASE Editor!ConfirmContacts \/ Editor!ConfirmElectrodes
  BY <1>10, ConfirmContactsKeeps, ConfirmElectrodesKeeps
<1>11. ASSUME NEW c, Editor!HoverSite(c) \/ Editor!ClickSite(c.site) PROVE EditorInv'
  BY <1>11, HoverKeeps, ClickKeeps
<1>12. CASE Editor!Undo \/ Editor!Redo
  <2>1. CASE Editor!Undo
    BY <2>1, RestoreKeeps DEF Editor!Undo
  <2>2. CASE Editor!Redo
    BY <2>2, RestoreKeeps DEF Editor!Redo
  <2> QED BY <1>12, <2>1, <2>2
<1>13. CASE Editor!OpenBondDetection \/ Editor!CancelBondDetection \/ Editor!AcceptBondDetection
  BY <1>13, OpenBondDetectionKeeps, CancelBondDetectionKeeps, AcceptBondDetectionKeeps
<1>14. ASSUME NEW f, Editor!PreviewFactor(f) PROVE EditorInv'
  BY <1>14, PreviewFactorKeeps
<1> QED BY <1>1, <1>2, <1>3, <1>4, <1>5, <1>6, <1>7, <1>8, <1>9, <1>10, <1>11, <1>12, <1>13, <1>14
        DEF Editor!Next

LEMMA EditorInvImplies == EditorInv => Editor!NothingStale
BY DEF EditorInv, Sound, TorsionFits, BuilderFits, LatticeFits, Editor!NothingStale

LEMMA EditorSpec == WorkbenchSpec => []EditorAreaInv
<1>1. WorkbenchInit => EditorAreaInv
  BY EditorInit DEF WorkbenchInit, EditorAreaInv
<1>2. ASSUME EditorAreaInv, [WorkbenchNext]_workbench
      PROVE  EditorAreaInv'
  <2>1. area' = area
    BY <1>2 DEF WorkbenchNext, workbench
  <2>2. CASE area # "editor"
    BY <2>1, <2>2 DEF EditorAreaInv
  <2>3. CASE area = "editor" /\ Editor!Next
    BY <1>2, <2>1, <2>3, EditorNext DEF EditorAreaInv
  <2>4. CASE area = "editor" /\ UNCHANGED <<geo, history, tool, builder, lattice, dialog>>
    BY <1>2, <2>1, <2>4, EditorUnchanged DEF EditorAreaInv
  <2>5. WorkbenchNext /\ area = "editor" => Editor!Next
    BY DEF WorkbenchNext
  <2>6. UNCHANGED workbench => UNCHANGED <<geo, history, tool, builder, lattice, dialog>>
    BY DEF workbench, common, geometry
  <2> QED BY <1>2, <2>2, <2>3, <2>4, <2>5, <2>6
<1> QED BY <1>1, <1>2, PTL DEF WorkbenchSpec

----------------------------------------------------------------------------
(* Every edit can be undone.                                               *)

\* What is pushed is the last entry, whatever the depth cuts off.
LEMMA PushedIsLast ==
    ASSUME NEW q, NEW g, Restorable(q)
    PROVE  /\ Editor!Trim(Append(q, g)) # <<>>
           /\ Editor!Last(Editor!Trim(Append(q, g))) = g
<1> DEFINE S == {q[i] : i \in DOMAIN q} \cup {g}
           h == Append(q, g)
<1>1. q \in Seq(S)
  <2>1. q \in Seq({q[i] : i \in DOMAIN q}) /\ {q[i] : i \in DOMAIN q} \subseteq S
    BY DEF Restorable
  <2> HIDE DEF S
  <2> QED BY <2>1, SeqMonotonic
<1>2. g \in S
  OBVIOUS
<1> HIDE DEF S
<1>3. h \in Seq(S) /\ h # <<>> /\ Len(h) = Len(q) + 1 /\ h[Len(q) + 1] = g
  BY <1>1, <1>2, AppendProperties
<1>4. Len(q) \in Nat
  BY <1>1, LenProperties
<1> HIDE DEF h
<1>5. Tail(h) \in Seq(S) /\ Len(Tail(h)) = Len(h) - 1
      /\ \A i \in 1..Len(Tail(h)) : Tail(h)[i] = h[i + 1]
  BY <1>3, HeadTailProperties
<1>6. MaxDepth \in Nat \ {0}
  BY PartsAssumption DEF PartsAssumption, Editor!EditorAssumption
<1>7. CASE Len(h) > MaxDepth
  <2>1. Editor!Trim(h) = Tail(h)
    BY <1>7 DEF Editor!Trim
  <2>2. Len(Tail(h)) = Len(q) /\ Len(q) \in 1..Len(Tail(h))
    BY <1>3, <1>4, <1>5, <1>6, <1>7
  <2>3. Tail(h)[Len(Tail(h))] = g
    BY <1>3, <1>5, <2>2
  <2>4. Tail(h) # <<>>
    BY <2>2
  <2> QED BY <2>1, <2>3, <2>4 DEF Editor!Last, h
<1>8. CASE ~(Len(h) > MaxDepth)
  <2>1. Editor!Trim(h) = h
    BY <1>8 DEF Editor!Trim
  <2> QED BY <1>3, <2>1 DEF Editor!Last, h
<1> QED BY <1>7, <1>8

LEMMA PushUndoes ==
    ASSUME NEW g, EditorInv, Editor!Push(g), Editor!Before(g)
    PROVE  Editor!UndoableStep
<1>1. history'.undo = Editor!Trim(Append(history.undo, g))
  BY DEF Editor!Push
<1>2. Restorable(history.undo)
  BY DEF EditorInv, HistoryFits
<1>3. history'.undo # <<>> /\ Editor!Last(history'.undo) = g
  BY <1>1, <1>2, PushedIsLast
<1> QED BY <1>3 DEF Editor!UndoableStep

LEMMA SameIsBefore == ASSUME EditorInv PROVE Editor!Before(geo)
<1>1. [geo EXCEPT !.measured = {}] = [geo EXCEPT !.atoms = geo.atoms, !.measured = {}]
  BY GeoShape
<1> QED BY <1>1 DEF Editor!Before

\* A new structure or a placement starts a new history.
LEMMA AnewIsUndoable ==
    ASSUME history' = [undo |-> <<>>, redo |-> <<>>]
    PROVE  Editor!UndoableStep
BY DEF Editor!UndoableStep

\* Nothing committed changes.
LEMMA QuietIsUndoable ==
    ASSUME geo'.atoms = geo.atoms, tool'.drag = tool.drag
    PROVE  Editor!UndoableStep
<1>1. Editor!Committed' = Editor!Committed
  BY DEF Editor!Committed
<1> QED BY <1>1 DEF Editor!UndoableStep

LEMMA IdentityEditIsUndoable ==
    ASSUME EditorInv, NEW atoms, NEW bonds, NEW measured, Editor!IdentityEdit(atoms, bonds, measured)
    PROVE  Editor!UndoableStep
BY SameIsBefore, PushUndoes DEF Editor!IdentityEdit

LEMMA AngleIsUndoable ==
    ASSUME EditorInv, NEW angle, Editor!CommitAngle(angle)
    PROVE  Editor!UndoableStep
<1> DEFINE t == [tool.torsion EXCEPT !.angle = angle]
           g == [geo EXCEPT !.measured = {}]
<1>1. /\ tool.drag = None /\ tool.torsion # None
      /\ tool' = [tool EXCEPT !.torsion = t, !.picked = <<>>]
      /\ UNCHANGED geo \/ Editor!Push(g)
  BY DEF Editor!CommitAngle, Editor!Idle
<1> HIDE DEF t
<1>2. CASE UNCHANGED geo
  <2>1. tool' = [mode |-> tool.mode, picked |-> <<>>, element |-> tool.element,
                 torsion |-> t, drag |-> tool.drag]
    BY <1>1, ToolShape
  <2>2. geo'.atoms = geo.atoms /\ tool'.drag = tool.drag
    BY <1>2, <2>1
  <2> QED BY <2>2, QuietIsUndoable
<1>3. CASE Editor!Push(g)
  <2>1. g = [atoms |-> geo.atoms, bonds |-> geo.bonds, measured |-> {}, contacts |-> geo.contacts,
             electrodes |-> geo.electrodes, confirmed |-> geo.confirmed]
    BY GeoShape
  <2>2. [geo EXCEPT !.atoms = geo.atoms, !.measured = {}] = g
    BY <2>1, GeoShape
  <2> HIDE DEF g
  <2>3. g.atoms = geo.atoms /\ [g EXCEPT !.measured = {}] = g
    BY <2>1
  <2>4. Editor!Before(g)
    BY <1>1, <2>2, <2>3 DEF Editor!Before
  <2> QED BY <1>3, <2>4, PushUndoes
<1> QED BY <1>1, <1>2, <1>3

\* A whole drag is one entry, of where it began.
LEMMA FinishDragIsUndoable == ASSUME EditorInv, Editor!FinishDrag PROVE Editor!UndoableStep
<1> DEFINE g == [geo EXCEPT !.atoms = tool.drag]
<1>1. /\ tool' = [tool EXCEPT !.drag = None] /\ tool.drag # None /\ UNCHANGED geo
      /\ tool.drag = geo.atoms \/ Editor!Push(g)
  BY DEF Editor!FinishDrag
<1>2. CASE tool.drag = geo.atoms
  <2>1. tool' = [mode |-> tool.mode, picked |-> tool.picked, element |-> tool.element,
                 torsion |-> tool.torsion, drag |-> None]
    BY <1>1, ToolShape
  <2>2. tool'.drag = None
    BY <2>1
  <2>3. Editor!Committed' = Editor!Committed
    BY <1>1, <1>2, <2>2 DEF Editor!Committed
  <2> QED BY <2>3 DEF Editor!UndoableStep
<1>3. CASE Editor!Push(g)
  <2> DEFINE d == tool.drag
  <2>1. g = [geo EXCEPT !.atoms = d] /\ d # None /\ d = Editor!Committed
    BY <1>1 DEF Editor!Committed
  <2> HIDE DEF d, g
  <2>2. g = [atoms |-> d, bonds |-> geo.bonds, measured |-> geo.measured,
             contacts |-> geo.contacts, electrodes |-> geo.electrodes, confirmed |-> geo.confirmed]
    BY <2>1, GeoShape
  <2>3. g.atoms = d
    BY <2>2
  <2>4. [g EXCEPT !.measured = {}] =
           [atoms |-> d, bonds |-> geo.bonds, measured |-> {}, contacts |-> geo.contacts,
            electrodes |-> geo.electrodes, confirmed |-> geo.confirmed]
    BY <2>2
  <2> DEFINE h == [geo EXCEPT !.atoms = d, !.measured = {}]
  <2>5. h = [geo EXCEPT !.atoms = d, !.measured = {}]
    OBVIOUS
  <2> HIDE DEF h
  <2>6. h = [atoms |-> d, bonds |-> geo.bonds, measured |-> {}, contacts |-> geo.contacts,
             electrodes |-> geo.electrodes, confirmed |-> geo.confirmed]
    BY <2>5, GeoShape
  <2>7. [geo EXCEPT !.atoms = d, !.measured = {}] =
           [atoms |-> d, bonds |-> geo.bonds, measured |-> {}, contacts |-> geo.contacts,
            electrodes |-> geo.electrodes, confirmed |-> geo.confirmed]
    BY <2>5, <2>6
  <2>8. Editor!Before(g)
    BY <1>1, <2>1, <2>3, <2>4, <2>7 DEF Editor!Before
  <2> QED BY <1>3, <2>8, PushUndoes
<1> QED BY <1>1, <1>2, <1>3

LEMMA StartDragIsUndoable == ASSUME EditorInv, Editor!StartDrag PROVE Editor!UndoableStep
<1>1. tool' = [tool EXCEPT !.drag = geo.atoms] /\ tool.drag = None /\ UNCHANGED geo
  BY DEF Editor!StartDrag, Editor!Idle
<1>2. tool' = [mode |-> tool.mode, picked |-> tool.picked, element |-> tool.element,
               torsion |-> tool.torsion, drag |-> geo.atoms]
  BY <1>1, ToolShape
<1>3. tool'.drag = geo.atoms
  BY <1>2
<1>4. Editor!Committed' = Editor!Committed
  BY <1>1, <1>3 DEF Editor!Committed
<1> QED BY <1>4 DEF Editor!UndoableStep

\* The atoms move, what the drag began with is kept.
LEMMA DragIsUndoable ==
    ASSUME EditorInv, NEW angle, Editor!Drag(angle)
    PROVE  Editor!UndoableStep
<1> DEFINE t == [tool.torsion EXCEPT !.angle = angle]
<1>1. tool' = [tool EXCEPT !.torsion = t, !.picked = <<>>] /\ tool.drag # None
  BY DEF Editor!Drag
<1> HIDE DEF t
<1>2. tool' = [mode |-> tool.mode, picked |-> <<>>, element |-> tool.element,
               torsion |-> t, drag |-> tool.drag]
  BY <1>1, ToolShape
<1>3. tool'.drag = tool.drag
  BY <1>2
<1>4. Editor!Committed' = Editor!Committed
  BY <1>1, <1>3 DEF Editor!Committed
<1> QED BY <1>4 DEF Editor!UndoableStep

LEMMA RestoreIsUndoable ==
    ASSUME EditorInv, NEW from, NEW to, Editor!Restore(from, to),
           (from = "undo" /\ to = "redo") \/ (from = "redo" /\ to = "undo")
    PROVE  Editor!UndoableStep
<1> DEFINE front == Editor!Front(history[from])
           pushed == Editor!Trim(Append(history[to], geo))
<1>1. history' = [history EXCEPT ![from] = front, ![to] = pushed]
  BY DEF Editor!Restore
<1>2. /\ history = [undo |-> history.undo, redo |-> history.redo]
      /\ Restorable(history.undo) /\ Restorable(history.redo)
  BY DEF EditorInv, HistoryFits
<1>3. pushed # <<>> /\ Editor!Last(pushed) = geo
  BY <1>2, PushedIsLast
<1> HIDE DEF front, pushed
<1>4. history'[to] = pushed
  BY <1>1, <1>2
<1>5. \/ history'.undo # <<>> /\ Editor!Before(Editor!Last(history'.undo))
      \/ history'.redo # <<>> /\ Editor!Before(Editor!Last(history'.redo))
  BY <1>3, <1>4, SameIsBefore
<1> QED BY <1>5 DEF Editor!UndoableStep

LEMMA ClickIsUndoable ==
    ASSUME EditorInv, NEW site, Editor!ClickSite(site)
    PROVE  Editor!UndoableStep
BY SameIsBefore, PushUndoes DEF Editor!ClickSite

\* A changed tool with the same drag.
LEMMA DragStays ==
    ASSUME EditorInv, NEW mode, NEW picked, NEW element, NEW torsion
    PROVE  /\ [tool EXCEPT !.mode = mode, !.picked = picked, !.element = element,
                            !.torsion = torsion].drag = tool.drag
           /\ [tool EXCEPT !.mode = mode, !.picked = picked, !.torsion = torsion].drag = tool.drag
           /\ [tool EXCEPT !.picked = picked].drag = tool.drag
           /\ [tool EXCEPT !.torsion = torsion].drag = tool.drag
BY ToolShape

LEMMA BuildingIsUndoable ==
    ASSUME EditorInv, NEW chosen, NEW made \in BOOLEAN,
           Editor!TickAnchors(chosen, made) \/ Editor!TickSites(chosen, made)
    PROVE  Editor!UndoableStep
<1> DEFINE stays == IF Editor!LeftRotation("place") THEN None ELSE tool.torsion
<1>1. /\ tool' = [tool EXCEPT !.mode = "place", !.picked = <<>>, !.torsion = stays]
      /\ geo' = [geo EXCEPT !.confirmed = FALSE] \/ geo' = geo
  BY DEF Editor!TickAnchors, Editor!TickSites
<1> HIDE DEF stays
<1>2. tool'.drag = tool.drag
  BY <1>1, DragStays
<1>3. geo'.atoms = geo.atoms
  BY <1>1, GeoShape
<1> QED BY <1>2, <1>3, QuietIsUndoable

LEMMA PickingIsUndoable ==
    ASSUME EditorInv, NEW i, NEW clear,
           Editor!Measure(i) \/ Editor!ForgetPicks(clear)
    PROVE  Editor!UndoableStep
<1>1. /\ \E picked : tool' = [tool EXCEPT !.picked = picked]
      /\ (\E measured : geo' = [geo EXCEPT !.measured = measured]) \/ geo' = geo
  <2>1. CASE Editor!Measure(i)
    BY <2>1 DEF Editor!Measure
  <2>2. CASE Editor!ForgetPicks(clear)
    BY <2>2 DEF Editor!ForgetPicks
  <2> QED BY <2>1, <2>2
<1>2. tool'.drag = tool.drag
  BY <1>1, DragStays
<1>3. geo'.atoms = geo.atoms
  BY <1>1, GeoShape
<1> QED BY <1>2, <1>3, QuietIsUndoable

LEMMA SessionIsUndoable ==
    ASSUME EditorInv, NEW i, NEW j, Editor!PickEdge(i, j) \/ Editor!SwitchSide
    PROVE  Editor!UndoableStep
<1>1. (\E torsion : tool' = [tool EXCEPT !.torsion = torsion]) /\ geo' = geo
  <2>1. CASE Editor!PickEdge(i, j)
    BY <2>1 DEF Editor!PickEdge
  <2>2. CASE Editor!SwitchSide
    BY <2>2 DEF Editor!SwitchSide
  <2> QED BY <2>1, <2>2
<1>2. tool'.drag = tool.drag
  BY <1>1, DragStays
<1> QED BY <1>1, <1>2, QuietIsUndoable

LEMMA PickModeIsUndoable ==
    ASSUME EditorInv, NEW wanted, NEW element, Editor!PickMode(wanted, element)
    PROVE  Editor!UndoableStep
<1> DEFINE mode == IF Editor!Allowed(wanted, element) THEN wanted ELSE "normal"
           stays == IF Editor!LeftRotation(mode) THEN None ELSE tool.torsion
<1>1. /\ tool' = [tool EXCEPT !.mode = mode, !.picked = <<>>, !.element = element,
                              !.torsion = stays]
      /\ geo' = geo
  BY DEF Editor!PickMode
<1> HIDE DEF mode, stays
<1>2. tool'.drag = tool.drag
  BY <1>1, DragStays
<1> QED BY <1>1, <1>2, QuietIsUndoable

LEMMA ThresholdIsUndoable ==
    ASSUME EditorInv, NEW f,
           \/ Editor!OpenBondDetection \/ Editor!PreviewFactor(f)
           \/ Editor!CancelBondDetection \/ Editor!AcceptBondDetection
    PROVE  Editor!UndoableStep
<1>1. tool' = [tool EXCEPT !.torsion = None] \/ tool' = tool
  BY DEF Editor!OpenBondDetection, Editor!PreviewFactor, Editor!CancelBondDetection,
         Editor!AcceptBondDetection
<1>2. (\E bonds : geo' = [geo EXCEPT !.bonds = bonds]) \/ geo' = geo
  BY DEF Editor!OpenBondDetection, Editor!PreviewFactor, Editor!CancelBondDetection,
         Editor!AcceptBondDetection
<1>3. tool'.drag = tool.drag
  BY <1>1, DragStays
<1>4. geo'.atoms = geo.atoms
  BY <1>2, GeoShape
<1> QED BY <1>3, <1>4, QuietIsUndoable

LEMMA StepIsUndoable == ASSUME EditorInv, Editor!Next PROVE Editor!UndoableStep
<1>1. ASSUME NEW g \in Loadable, Editor!Load(g) PROVE Editor!UndoableStep
  BY <1>1, AnewIsUndoable DEF Editor!Load
<1>2. ASSUME NEW mode, NEW element, Editor!PickMode(mode, element) PROVE Editor!UndoableStep
  BY <1>2, PickModeIsUndoable
<1>3. ASSUME NEW k \in DOMAIN geo.atoms,
             Editor!Measure(k) \/ Editor!DeletePicked(k) \/ Editor!ReplacePicked(k)
      PROVE  Editor!UndoableStep
  <2>1. CASE Editor!Measure(k)
    BY <2>1, PickingIsUndoable
  <2>2. CASE Editor!DeletePicked(k)
    BY <2>2, IdentityEditIsUndoable DEF Editor!DeletePicked
  <2>3. CASE Editor!ReplacePicked(k)
    BY <2>3, IdentityEditIsUndoable DEF Editor!ReplacePicked
  <2> QED BY <1>3, <2>1, <2>2, <2>3
<1>4. ASSUME NEW clear \in BOOLEAN, Editor!ForgetPicks(clear) PROVE Editor!UndoableStep
  BY <1>4, PickingIsUndoable
<1>5. ASSUME NEW i, NEW j, Editor!PickEdge(i, j) \/ Editor!SwitchSide PROVE Editor!UndoableStep
  BY <1>5, SessionIsUndoable
<1>6. ASSUME NEW angle, Editor!CommitAngle(angle) \/ Editor!Drag(angle) PROVE Editor!UndoableStep
  BY <1>6, AngleIsUndoable, DragIsUndoable
<1>7. CASE Editor!StartDrag \/ Editor!FinishDrag
  BY <1>7, StartDragIsUndoable, FinishDragIsUndoable
<1>8. ASSUME NEW chosen, NEW made \in BOOLEAN,
             Editor!TickAnchors(chosen, made) \/ Editor!TickSites(chosen, made)
      PROVE  Editor!UndoableStep
  BY <1>8, BuildingIsUndoable
<1>9. CASE Editor!ConfirmContacts \/ Editor!ConfirmElectrodes
  BY <1>9, AnewIsUndoable DEF Editor!ConfirmContacts, Editor!ConfirmElectrodes, Editor!Replaced
<1>10. ASSUME NEW c, Editor!HoverSite(c) \/ Editor!ClickSite(c.site) PROVE Editor!UndoableStep
  <2>1. CASE Editor!HoverSite(c)
    BY <2>1, QuietIsUndoable DEF Editor!HoverSite
  <2>2. CASE Editor!ClickSite(c.site)
    BY <2>2, ClickIsUndoable
  <2> QED BY <1>10, <2>1, <2>2
<1>11. CASE Editor!Undo
  BY <1>11, RestoreIsUndoable DEF Editor!Undo
<1>12. CASE Editor!Redo
  BY <1>12, RestoreIsUndoable DEF Editor!Redo
<1>13. ASSUME NEW f, \/ Editor!OpenBondDetection \/ Editor!PreviewFactor(f)
                    \/ Editor!CancelBondDetection \/ Editor!AcceptBondDetection
       PROVE  Editor!UndoableStep
  BY <1>13, ThresholdIsUndoable
<1> QED BY <1>1, <1>2, <1>3, <1>4, <1>5, <1>6, <1>7, <1>8, <1>9, <1>10, <1>11, <1>12, <1>13
        DEF Editor!Next

\* docs/user_manual/01_getting_started.md:286: whatever changes the geometry of a tab can be
\* undone or redone to exactly what was there, a whole drag at once, whatever the structures,
\* the depth of the history and the order of the edits; only a new structure or a
\* placement starts anew (_push_undo_state, _finish_torsion_drag, _restore_geometry_edit_state).
THEOREM EditIsAlwaysUndoable == WorkbenchSpec => EditIsUndoable
<1>1. EditorAreaInv /\ [WorkbenchNext]_workbench =>
         [area = "editor" => Editor!UndoableStep]_workbench
  <2> SUFFICES ASSUME EditorAreaInv, WorkbenchNext, area = "editor"
               PROVE  Editor!UndoableStep
    OBVIOUS
  <2>1. Editor!Next
    BY DEF WorkbenchNext
  <2> QED BY <2>1, StepIsUndoable DEF EditorAreaInv
<1> QED BY <1>1, EditorSpec, PTL DEF WorkbenchSpec, EditIsUndoable

----------------------------------------------------------------------------
(* What a window shows.                                                    *)

\* tools/molecule_viewer_demo.py (_commit_working_structure), gui/tight_binding_workspace.py
\* (_parameters_changed), gui/density_workspace.py (_request_surface): what is shown beside an
\* input was computed from that input, in a Geometry tab, a tight-binding window and a density
\* result alike, for any structures, molecules, grids and bounds.
THEOREM ShownIsAlwaysCurrent == WorkbenchSpec => []ShownIsCurrent
<1>1. EditorAreaInv /\ BindingAreaInv /\ ResultAreaInv => ShownIsCurrent
  BY EditorInvImplies, BindingInvImplies, ResultInvImplies
     DEF EditorAreaInv, BindingAreaInv, ResultAreaInv, ShownIsCurrent
<1> QED BY <1>1, EditorSpec, BindingSpec, ResultSpec, PTL
=============================================================================
