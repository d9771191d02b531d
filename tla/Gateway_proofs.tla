--------------------------- MODULE Gateway_proofs ---------------------------
(***************************************************************************)
(* Proofs about Gateway, for every number of connections, requests and     *)
(* failures and every size of the channel.                                 *)
(***************************************************************************)
EXTENDS Gateway, TLAPS

-----------------------------------------------------------------------------
(* Types.                                                                  *)

PCs == {"OUT", "HELLO", "MARK", "ADMIT", "READY", "READ", "DISPATCH", "RELEASE", "LEAVING", "GONE"}
Name == Request \cup {NoRequest}
Place == [pc : PCs, req : Name]

\* A goroutine in the middle of a request has one in hand.
HasRequest == \A s \in Session : reader[s].pc \in {"READ", "DISPATCH", "RELEASE"} => reader[s].req \in Request

TypeInv == TypeOK /\ HasRequest

LEMMA TypeInit == Init => TypeInv
  <1> SUFFICES ASSUME Init PROVE TypeInv
    OBVIOUS
  <1>1. reader = [s \in Session |-> [pc |-> "OUT", req |-> NoRequest]]
    BY DEF Init, Idle, At
  <1>2. commands \in Seq(Request \cup {NoRequest}) /\ Len(commands) <= CommandCap
    BY ConstantsAssumption DEF Init
  <1>3. 0 \in 0..MaxFailures /\ {online, newest} \subseteq Session \cup {Nobody}
    BY ConstantsAssumption DEF Init
  <1>4. HasRequest
    BY <1>1 DEF HasRequest
  <1>5. store \in [Request -> {"absent", "pending", "reply"}] /\ effects \in [Request -> 0..2]
        /\ sent \in [Session -> SUBSET Request] /\ alive \subseteq Session
    BY DEF Init
  <1>6. running \cup writing \cup heard \subseteq Request /\ excused \cup lapsed \cup burned \subseteq Request
        /\ faded \in BOOLEAN /\ failures \in 0..MaxFailures
    BY <1>3 DEF Init
  <1>7. reader \in [Session -> [pc : PCs, req : Name]]
    BY <1>1 DEF PCs, Name
  <1> QED
    BY <1>2, <1>3, <1>4, <1>5, <1>6, <1>7 DEF TypeInv, TypeOK, PCs, Name

LEMMA GoType ==
    ASSUME TypeInv, NEW s \in Session, NEW where \in Place, Go(s, where),
           where.pc \in {"READ", "DISPATCH", "RELEASE"} => where.req \in Request
    PROVE  reader' \in [Session -> Place] /\ HasRequest'
  BY DEF TypeInv, TypeOK, HasRequest, Go, Place, PCs, Name

LEMMA IdleType ==
    ASSUME NEW pc \in PCs \ {"READ", "DISPATCH", "RELEASE"}
    PROVE  Idle(pc) \in Place /\ Idle(pc).pc \notin {"READ", "DISPATCH", "RELEASE"}
  BY DEF Idle, At, Place, PCs, Name

LEMMA AtType ==
    ASSUME NEW pc \in PCs, NEW r \in Request
    PROVE  At(pc, r) \in Place /\ At(pc, r).req \in Request
  BY DEF At, Place, PCs, Name

LEMMA TypeStep == TypeInv /\ [Next]_vars => TypeInv'
  <1> SUFFICES ASSUME TypeInv, [Next]_vars PROVE TypeInv'
    OBVIOUS
  <1> USE DEF TypeInv
  <1>0. reader \in [Session -> Place]
    BY DEF TypeOK, Place, PCs, Name
  <1> DEFINE Rest == /\ alive \subseteq Session /\ sent \in [Session -> SUBSET Request]
                     /\ store \in [Request -> {"absent", "pending", "reply"}]
                     /\ {online, newest} \subseteq Session \cup {Nobody}
             Work == /\ commands \in Seq(Name) /\ Len(commands) <= CommandCap
                     /\ effects \in [Request -> 0..2]
                     /\ running \cup writing \subseteq Request
             Past == /\ heard \subseteq Request /\ excused \cup lapsed \cup burned \subseteq Request
                     /\ faded \in BOOLEAN /\ failures \in 0..MaxFailures
  <1>a. Rest /\ Work /\ Past
    BY DEF TypeOK, Name
  <1>b. reader' \in [Session -> Place] /\ HasRequest' /\ Rest' /\ Work' /\ Past' => TypeInv'
    BY DEF TypeOK, Place, PCs, Name
  <1>c. Failing => failures' \in 0..MaxFailures
    BY ConstantsAssumption, <1>a DEF Failing
  <1>d. World => Work'
    BY <1>a DEF World
  <1>e. UNCHANGED lost /\ UNCHANGED heard => Past'
    BY <1>a DEF lost
  <1>f. UNCHANGED reader => reader' \in [Session -> Place] /\ HasRequest'
    BY <1>0 DEF HasRequest
  <1>1. ASSUME NEW s \in Session, Connect(s) PROVE TypeInv'
    BY <1>1, <1>a, <1>b, <1>d, <1>e, GoType, IdleType DEF Connect, Keys, PCs
  <1>2. ASSUME NEW s \in Session, NEW ok \in BOOLEAN, Hello(s, ok) PROVE TypeInv'
    <2>1. Idle(IF ok THEN "MARK" ELSE "GONE") \in Place
          /\ Idle(IF ok THEN "MARK" ELSE "GONE").pc \notin {"READ", "DISPATCH", "RELEASE"}
      BY IdleType DEF PCs
    <2> QED
      BY <1>2, <2>1, <1>a, <1>b, <1>d, <1>e, GoType DEF Hello, Keys
  <1>3. ASSUME NEW s \in Session, NEW fails \in BOOLEAN, MarkOnline(s, fails) PROVE TypeInv'
    BY <1>3, <1>a, <1>b, <1>c, <1>d, GoType, IdleType DEF MarkOnline, PCs
  <1>4. ASSUME NEW s \in Session, NEW ok \in BOOLEAN, Admit(s, ok) PROVE TypeInv'
    <2>1. Idle(IF ok THEN "READY" ELSE "LEAVING") \in Place
          /\ Idle(IF ok THEN "READY" ELSE "LEAVING").pc \notin {"READ", "DISPATCH", "RELEASE"}
      BY IdleType DEF PCs
    <2> QED
      BY <1>4, <2>1, <1>a, <1>b, <1>d, <1>e, GoType DEF Admit, Keys
  <1>5. ASSUME NEW s \in Session, Drop(s) PROVE TypeInv'
    BY <1>5, <1>a, <1>b, <1>d, <1>e, <1>f DEF Drop, Keys
  <1>6. ASSUME NEW s \in Session, Leave(s) PROVE TypeInv'
    BY <1>6, <1>a, <1>b, <1>d, <1>e, GoType, IdleType DEF Leave, Keys, PCs
  <1>7. ASSUME NEW s \in Session, Finish(s) PROVE TypeInv'
    BY <1>7, <1>a, <1>b, <1>d, <1>e, GoType, IdleType DEF Finish, ClearIfSession, PCs
  <1>8. ASSUME NEW s \in Session, NEW r \in Request, Claim(s, r) PROVE TypeInv'
    <2>1. At(IF Reserve(r) THEN "DISPATCH" ELSE "READ", r) \in Place
          /\ At(IF Reserve(r) THEN "DISPATCH" ELSE "READ", r).req \in Request
      BY AtType DEF PCs
    <2>2. reader' \in [Session -> Place] /\ HasRequest'
      BY <1>8, <2>1, GoType DEF Claim
    <2>3. Rest'
      BY <1>8, <1>a DEF Claim, Sends
    <2> QED
      BY <1>8, <2>2, <2>3, <1>b, <1>d, <1>e DEF Claim
  <1>9. ASSUME NEW s \in Session, NEW r \in Request, ClaimFails(s, r) PROVE TypeInv'
    <2>1. reader' \in [Session -> Place] /\ HasRequest'
      BY <1>9, AtType, GoType DEF ClaimFails, PCs
    <2>2. Rest' /\ Past'
      BY <1>9, <1>a, <1>c DEF ClaimFails, Sends, Keys
    <2> QED
      BY <1>9, <2>1, <2>2, <1>b, <1>d DEF ClaimFails
  <1>10. ASSUME NEW s \in Session, Read(s) PROVE TypeInv'
    <2>1. reader[s].req \in Request
      BY <1>10 DEF Read, HasRequest
    <2>2. reader' \in [Session -> Place] /\ HasRequest'
      BY <1>10, <2>1, AtType, IdleType, GoType DEF Read, PCs
    <2>3. Rest' /\ Past'
      BY <1>10, <2>1, <1>a DEF Read, Keys
    <2> QED
      BY <1>10, <2>2, <2>3, <1>b, <1>d DEF Read
  <1>11. ASSUME NEW s \in Session, ReadFails(s) PROVE TypeInv'
    <2>1. reader[s].req \in Request
      BY <1>11 DEF ReadFails, HasRequest
    <2>2. reader' \in [Session -> Place] /\ HasRequest'
      BY <1>11, <2>1, AtType, GoType DEF ReadFails, PCs
    <2>3. Rest' /\ Past'
      BY <1>11, <2>1, <1>a, <1>c DEF ReadFails, Keys
    <2> QED
      BY <1>11, <2>2, <2>3, <1>b, <1>d DEF ReadFails
  <1>12. ASSUME NEW s \in Session, Dispatch(s) PROVE TypeInv'
    <2>1. reader[s].req \in Request
      BY <1>12 DEF Dispatch, HasRequest
    <2>2. reader' \in [Session -> Place] /\ HasRequest'
      BY <1>12, <2>1, AtType, IdleType, GoType DEF Dispatch, Rejected, PCs
    <2>3. Work'
      BY <1>12, <2>1, <1>a, ConstantsAssumption DEF Dispatch, Name
    <2> QED
      BY <1>12, <2>2, <2>3, <1>a, <1>b, <1>e DEF Dispatch, Keys
  <1>13. ASSUME NEW s \in Session, NEW fails \in BOOLEAN, Release(s, fails) PROVE TypeInv'
    <2>1. reader[s].req \in Request
      BY <1>13 DEF Release, HasRequest
    <2>2. reader' \in [Session -> Place] /\ HasRequest'
      BY <1>13, IdleType, GoType DEF Release, PCs
    <2>3. Rest' /\ Past'
      BY <1>13, <2>1, <1>a, <1>c DEF Release
    <2> QED
      BY <1>13, <2>2, <2>3, <1>b, <1>d DEF Release
  <1>14. Crowd => TypeInv'
    <2>1. Crowd => Work'
      BY <1>a, ConstantsAssumption DEF Crowd, Name
    <2> QED
      BY <2>1, <1>a, <1>b, <1>e, <1>f DEF Crowd, Keys
  <1>15. Execute => TypeInv'
    <2>1. ASSUME Execute PROVE Work'
      BY <2>1, <1>a, ConstantsAssumption DEF Execute, Name
    <2> QED
      BY <2>1, <1>a, <1>b, <1>e, <1>f DEF Execute, Keys
  <1>16. ASSUME NEW r \in Request, Answer(r) PROVE TypeInv'
    <2>1. Work' /\ Past'
      BY <1>16, <1>a DEF Answer, lost
    <2> QED
      BY <1>16, <2>1, <1>a, <1>b, <1>f DEF Answer, Keys
  <1>17. ASSUME NEW r \in Request, Expire(r) PROVE TypeInv'
    BY <1>17, <1>a, <1>b, <1>c, <1>d, <1>f DEF Expire
  <1>18. ASSUME NEW r \in Request, NEW fails \in BOOLEAN, Complete(r, fails) PROVE TypeInv'
    BY <1>18, <1>a, <1>b, <1>c, <1>f DEF Complete
  <1>19. PresenceExpires => TypeInv'
    BY <1>a, <1>b, <1>c, <1>d, <1>f DEF PresenceExpires
  <1>20. ASSUME Restart PROVE TypeInv'
    <2>1. Idle("GONE") \in Place /\ Idle("GONE").pc = "GONE"
      BY IdleType DEF PCs, Idle, At
    <2>2. reader' \in [Session -> Place] /\ HasRequest'
      BY <1>20, <2>1, <1>0 DEF Restart, HasRequest
    <2>3. Work' /\ Past' /\ Rest'
      BY <1>20, <1>a, <1>c, ConstantsAssumption DEF Restart
    <2> QED
      BY <2>2, <2>3, <1>b
  <1>21. UNCHANGED vars => TypeInv'
    BY <1>a, <1>b, <1>e, <1>f DEF vars
  <1> QED
    BY <1>1, <1>2, <1>3, <1>4, <1>5, <1>6, <1>7, <1>8, <1>9, <1>10, <1>11, <1>12, <1>13, <1>14,
       <1>15, <1>16, <1>17, <1>18, <1>19, <1>20, <1>21 DEF Next, Serve

\* The model is well typed, for every value of the constants; in particular the
\* channel of commands never holds more than its capacity.
THEOREM GatewayTypeCorrect == Spec => []TypeOK
  <1>1. Spec => []TypeInv
    BY TypeInit, TypeStep, PTL DEF Spec
  <1>2. TypeInv => TypeOK
    BY DEF TypeInv
  <1> QED
    BY <1>1, <1>2, PTL
-----------------------------------------------------------------------------
(* One effect.                                                             *)

\* The turn of a request is in one hand: of a connection that was told to go on
\* with it, of the channel, or of the loop that ran it; and while somebody has it
\* its key is in the store.
AtWork(s, r) == reader[s] \in {At("DISPATCH", r), At("RELEASE", r)}
InLine(i, r) == i \in 1..Len(commands) /\ commands[i] = r

OneHand(r) ==
  /\ store[r] = "absent" => effects[r] = 0 /\ (\A s \in Session : ~AtWork(s, r)) /\ (\A i \in Nat : ~InLine(i, r))
  /\ \A s, t \in Session : AtWork(s, r) /\ AtWork(t, r) => s = t
  /\ \A s \in Session : AtWork(s, r) => effects[r] = 0 /\ \A i \in Nat : ~InLine(i, r)
  /\ \A i, j \in Nat : InLine(i, r) /\ InLine(j, r) => i = j
  /\ \A i \in Nat : InLine(i, r) => effects[r] = 0
  /\ effects[r] <= 1

Single == \A r \in Request : r \notin excused \cup lapsed => OneHand(r)

LEMMA SingleInit == Init => Single
  <1> SUFFICES ASSUME Init, NEW r \in Request PROVE OneHand(r)
    BY DEF Single
  <1>1. effects[r] = 0 /\ \A i \in Nat : ~InLine(i, r)
    BY DEF Init, InLine
  <1>2. \A s \in Session : ~AtWork(s, r)
    BY DEF Init, AtWork, Idle, At
  <1> QED
    BY <1>1, <1>2 DEF OneHand

\* Places that are not the work of r.
LEMMA Elsewhere ==
    ASSUME NEW r \in Request
    PROVE  /\ \A pc : NoRequest \notin Request => Idle(pc) \notin {At("DISPATCH", r), At("RELEASE", r)}
           /\ At("READ", r) \notin {At("DISPATCH", r), At("RELEASE", r)}
           /\ \A pc, q : q # r => At(pc, q) \notin {At("DISPATCH", r), At("RELEASE", r)}
  BY DEF Idle, At

LEMMA GoElsewhere ==
    ASSUME TypeInv, NEW r \in Request, NEW s \in Session, NEW where, Go(s, where),
           where \notin {At("DISPATCH", r), At("RELEASE", r)}
    PROVE  /\ ~AtWork(s, r)'
           /\ \A t \in Session : t # s => (AtWork(t, r)' <=> AtWork(t, r))
  BY DEF TypeInv, TypeOK, Go, AtWork

\* A step that gives nobody a turn, neither in a connection nor in the channel.
LEMMA NoTurnGiven ==
    ASSUME NEW r \in Request, OneHand(r),
           store'[r] = "absent" => store[r] = "absent",
           effects'[r] = effects[r],
           \A s \in Session : AtWork(s, r)' => AtWork(s, r),
           \A i \in Nat : InLine(i, r)' => InLine(i, r)
    PROVE  OneHand(r)'
  BY DEF OneHand

LEMMA SameLine == UNCHANGED commands => \A r : \A i \in Nat : InLine(i, r)' => InLine(i, r)
  BY DEF InLine

LEMMA AppendOther ==
    ASSUME TypeInv, NEW r \in Request, NEW x \in Name, x # r, commands' = Append(commands, x)
    PROVE  \A i \in Nat : InLine(i, r)' => InLine(i, r)
  BY DEF TypeInv, TypeOK, InLine, Name

LEMMA OutsideStep ==
    ASSUME TypeInv, NEW r \in Request, OneHand(r), NEW s \in Session,
           \/ Connect(s) \/ Drop(s) \/ Leave(s) \/ Finish(s)
           \/ \E ok \in BOOLEAN : Hello(s, ok) \/ MarkOnline(s, ~ok) \/ Admit(s, ok)
    PROVE  OneHand(r)'
  <1>1. UNCHANGED <<commands, effects>> /\ UNCHANGED store
    BY DEF Connect, Drop, Leave, Finish, Hello, MarkOnline, Admit, World, Keys
  <1>2. UNCHANGED reader \/ \E pc : Go(s, Idle(pc))
    BY DEF Connect, Drop, Leave, Finish, Hello, MarkOnline, Admit
  <1>3. \A t \in Session : AtWork(t, r)' => AtWork(t, r)
    <2>1. CASE UNCHANGED reader
      BY <2>1 DEF AtWork
    <2>2. CASE \E pc : Go(s, Idle(pc))
      BY <2>2, Elsewhere, GoElsewhere, ConstantsAssumption
    <2> QED
      BY <1>2, <2>1, <2>2
  <1> QED
    BY <1>1, <1>3, SameLine, NoTurnGiven

LEMMA ClaimStep ==
    ASSUME TypeInv, NEW r \in Request, OneHand(r), NEW s \in Session, NEW q \in Request, Claim(s, q)
    PROVE  OneHand(r)'
  <1>1. UNCHANGED <<commands, effects>>
    BY DEF Claim, World
  <1>2. CASE q = r /\ store[r] = "absent"
    <2>1. Go(s, At("DISPATCH", r)) /\ store'[r] = "pending"
      BY <1>2 DEF Claim, Reserve, TypeInv, TypeOK
    <2>2. \A t \in Session : AtWork(t, r)' => t = s
      BY <1>2, <2>1 DEF OneHand, AtWork, Go, TypeInv, TypeOK
    <2>3. effects'[r] = 0 /\ \A i \in Nat : ~InLine(i, r)'
      BY <1>1, <1>2 DEF OneHand, InLine
    <2> QED
      BY <2>1, <2>2, <2>3 DEF OneHand
  <1>3. CASE ~(q = r /\ store[r] = "absent")
    <2>1. store'[r] = store[r]
      BY <1>3 DEF Claim, Reserve, TypeInv, TypeOK
    <2>2. PICK where : Go(s, where) /\ where \notin {At("DISPATCH", r), At("RELEASE", r)}
      BY <1>3, Elsewhere DEF Claim, Reserve
    <2>3. \A t \in Session : AtWork(t, r)' => AtWork(t, r)
      BY <2>2, GoElsewhere
    <2> QED
      BY <1>1, <2>1, <2>3, SameLine, NoTurnGiven
  <1> QED
    BY <1>2, <1>3

\* A call to the store that fails, or finds nothing, tells of its own request only.
LEMMA UnreservedStep ==
    ASSUME TypeInv, NEW r \in Request, r \notin excused' \cup lapsed', OneHand(r), NEW s \in Session,
           (\E q \in Request : ClaimFails(s, q)) \/ Read(s) \/ ReadFails(s)
    PROVE  OneHand(r)'
  <1>1. UNCHANGED <<commands, effects>> /\ UNCHANGED store
    BY DEF ClaimFails, Read, ReadFails, World, Keys
  <1>2. PICK where : Go(s, where) /\ where \notin {At("DISPATCH", r), At("RELEASE", r)}
    <2>1. CASE \E q \in Request : ClaimFails(s, q)
      BY <2>1, Elsewhere DEF ClaimFails
    <2>2. CASE Read(s)
      BY <2>2, Elsewhere, ConstantsAssumption DEF Read
    <2>3. CASE ReadFails(s)
      BY <2>3, Elsewhere DEF ReadFails
    <2> QED
      BY <2>1, <2>2, <2>3
  <1>3. \A t \in Session : AtWork(t, r)' => AtWork(t, r)
    BY <1>2, GoElsewhere
  <1> QED
    BY <1>1, <1>3, SameLine, NoTurnGiven

LEMMA DispatchStep ==
    ASSUME TypeInv, NEW r \in Request, OneHand(r), NEW s \in Session, Dispatch(s)
    PROVE  OneHand(r)'
  <1>1. UNCHANGED <<store, effects>> /\ reader[s].req \in Request /\ reader[s] \in Place
    BY DEF Dispatch, Keys, TypeInv, TypeOK, HasRequest, Place, PCs, Name
  <1>2. CASE Len(commands) >= CommandCap
    <2>1. UNCHANGED commands /\ Go(s, At("RELEASE", reader[s].req))
      BY <1>2, ConstantsAssumption DEF Dispatch, Rejected, TypeInv, TypeOK
    <2>2. reader[s] = At("DISPATCH", reader[s].req)
      BY <1>1 DEF Dispatch, At, Place
    <2>3. \A t \in Session : AtWork(t, r)' => AtWork(t, r)
      BY <2>1, <2>2 DEF AtWork, Go, At, TypeInv, TypeOK
    <2> QED
      BY <1>1, <2>1, <2>3, SameLine, NoTurnGiven
  <1>3. CASE Len(commands) < CommandCap
    <2>1. commands' = Append(commands, reader[s].req) /\ Go(s, Idle("READY"))
      BY <1>3 DEF Dispatch
    <2>2. ~AtWork(s, r)' /\ \A t \in Session : AtWork(t, r)' => AtWork(t, r)
      BY <2>1, Elsewhere, GoElsewhere, ConstantsAssumption
    <2>3. CASE reader[s].req # r
      <3>1. \A i \in Nat : InLine(i, r)' => InLine(i, r)
        BY <1>1, <2>1, <2>3, AppendOther DEF Name
      <3> QED
        BY <1>1, <2>2, <3>1, NoTurnGiven
    <2>4. CASE reader[s].req = r
      <3>1. AtWork(s, r)
        BY <1>1, <2>4 DEF Dispatch, AtWork, At, Place
      <3>2. store[r] # "absent" /\ effects[r] = 0 /\ \A i \in Nat : ~InLine(i, r)
        BY <3>1 DEF OneHand
      <3>3. \A t \in Session : ~AtWork(t, r)'
        BY <2>2, <3>1 DEF OneHand
      <3>4. \A i \in Nat : InLine(i, r)' => i = Len(commands) + 1
        BY <2>1, <3>2, <1>1 DEF InLine, TypeInv, TypeOK, Name
      <3> QED
        BY <1>1, <3>2, <3>3, <3>4 DEF OneHand
    <2> QED
      BY <2>3, <2>4
  <1> QED
    BY <1>2, <1>3, ConstantsAssumption DEF TypeInv, TypeOK

LEMMA ReleaseStep ==
    ASSUME TypeInv, NEW r \in Request, OneHand(r), NEW s \in Session, NEW fails \in BOOLEAN, Release(s, fails)
    PROVE  OneHand(r)'
  <1>1. UNCHANGED <<commands, effects>> /\ Go(s, Idle("READY")) /\ reader[s] \in Place
    BY DEF Release, World, TypeInv, TypeOK, Place, PCs, Name
  <1>2. ~AtWork(s, r)' /\ \A t \in Session : AtWork(t, r)' => AtWork(t, r)
    BY <1>1, Elsewhere, GoElsewhere, ConstantsAssumption
  <1>3. CASE reader[s].req # r
    <2>1. store'[r] = store[r]
      BY <1>3 DEF Release, TypeInv, TypeOK
    <2> QED
      BY <1>1, <1>2, <2>1, SameLine, NoTurnGiven
  <1>4. CASE reader[s].req = r
    <2>1. AtWork(s, r)
      BY <1>1, <1>4 DEF Release, AtWork, At, Place
    <2>2. effects'[r] = 0 /\ \A i \in Nat : ~InLine(i, r)'
      BY <1>1, <2>1 DEF OneHand, InLine
    <2>3. \A t \in Session : ~AtWork(t, r)'
      BY <1>2, <2>1 DEF OneHand
    <2> QED
      BY <2>2, <2>3 DEF OneHand
  <1> QED
    BY <1>3, <1>4

LEMMA ExecuteStep ==
    ASSUME TypeInv, NEW r \in Request, OneHand(r), Execute
    PROVE  OneHand(r)'
  <1>1. UNCHANGED <<store, reader>> /\ commands \in Seq(Name) /\ Len(commands) \in Nat \ {0}
        /\ effects'[r] = IF r = Head(commands) /\ effects[r] < 2 THEN effects[r] + 1 ELSE effects[r]
    BY DEF Execute, Keys, TypeInv, TypeOK, Name
  <1>2. \A i \in Nat : InLine(i, r)' => InLine(i + 1, r)
    BY <1>1 DEF Execute, InLine
  <1>3. \A t \in Session : AtWork(t, r)' <=> AtWork(t, r)
    BY <1>1 DEF AtWork
  <1>4. CASE Head(commands) = r
    <2>1. InLine(1, r)
      BY <1>1, <1>4 DEF InLine
    <2>2. \A i \in Nat : ~InLine(i, r)'
      <3> SUFFICES ASSUME NEW i \in Nat, InLine(i, r)' PROVE FALSE
        OBVIOUS
      <3>1. InLine(i + 1, r) /\ i + 1 = 1
        BY <1>2, <2>1 DEF OneHand
      <3> QED
        BY <3>1 DEF InLine
    <2>3. effects[r] = 0 /\ \A t \in Session : ~AtWork(t, r)'
      BY <1>3, <2>1 DEF OneHand
    <2>4. store'[r] # "absent" /\ effects'[r] = 1
      BY <1>1, <1>4, <2>1, <2>3 DEF OneHand
    <2> QED
      BY <2>2, <2>3, <2>4 DEF OneHand
  <1>5. CASE Head(commands) # r
    <2>1. effects'[r] = effects[r]
      BY <1>1, <1>5
    <2>2. \A i, j \in Nat : InLine(i, r)' /\ InLine(j, r)' => i = j
      <3> SUFFICES ASSUME NEW i \in Nat, NEW j \in Nat, InLine(i, r)', InLine(j, r)' PROVE i = j
        OBVIOUS
      <3>1. i + 1 = j + 1
        BY <1>2 DEF OneHand
      <3> QED
        BY <3>1
    <2>3. \A i \in Nat : InLine(i, r)' => effects[r] = 0 /\ store[r] # "absent" /\ \A t \in Session : ~AtWork(t, r)
      BY <1>2 DEF OneHand
    <2> QED
      BY <1>1, <1>3, <2>1, <2>2, <2>3 DEF OneHand
  <1> QED
    BY <1>4, <1>5

LEMMA SingleStep == TypeInv /\ Single /\ [Next]_vars => Single'
  <1> SUFFICES ASSUME TypeInv, Single, [Next]_vars, NEW r \in Request, r \notin excused' \cup lapsed'
               PROVE  OneHand(r)'
    BY DEF Single
  <1>a. excused \subseteq excused' /\ lapsed \subseteq lapsed'
    BY DEF Next, Serve, Connect, Hello, MarkOnline, Admit, Drop, Leave, Finish, Claim, ClaimFails, Read,
           ReadFails, Dispatch, Release, Crowd, Execute, Answer, Expire, Complete, PresenceExpires, Restart,
           lost, vars
  <1>b. OneHand(r)
    BY <1>a DEF Single
  <1>1. ASSUME NEW s \in Session, Serve(s) PROVE OneHand(r)'
    BY <1>1, <1>b, OutsideStep, ClaimStep, UnreservedStep, DispatchStep, ReleaseStep DEF Serve
  <1>2. Crowd => OneHand(r)'
    <2> SUFFICES ASSUME Crowd PROVE OneHand(r)'
      OBVIOUS
    <2>1. \A i \in Nat : InLine(i, r)' => InLine(i, r)
      BY AppendOther, ConstantsAssumption DEF Crowd, Name
    <2> QED
      BY <1>b, <2>1, NoTurnGiven DEF Crowd, Keys, AtWork
  <1>3. Execute => OneHand(r)'
    BY <1>b, ExecuteStep
  <1>4. ASSUME NEW q \in Request, Answer(q) PROVE OneHand(r)'
    BY <1>4, <1>b, SameLine, NoTurnGiven DEF Answer, Keys, AtWork
  <1>5. ASSUME NEW q \in Request, Expire(q) PROVE OneHand(r)'
    <2>1. q # r /\ store'[r] = store[r]
      BY <1>5 DEF Expire, TypeInv, TypeOK
    <2> QED
      BY <1>5, <1>b, <2>1, SameLine, NoTurnGiven DEF Expire, World, AtWork
  <1>6. ASSUME NEW q \in Request, NEW fails \in BOOLEAN, Complete(q, fails) PROVE OneHand(r)'
    <2>1. store'[r] = "absent" => store[r] = "absent"
      BY <1>6 DEF Complete, TypeInv, TypeOK
    <2> QED
      BY <1>6, <1>b, <2>1, SameLine, NoTurnGiven DEF Complete, AtWork
  <1>7. PresenceExpires => OneHand(r)'
    BY <1>b, SameLine, NoTurnGiven DEF PresenceExpires, World, AtWork
  <1>8. ASSUME Restart PROVE OneHand(r)'
    <2>1. \A s \in Session : ~AtWork(s, r)'
      BY <1>8 DEF Restart, AtWork, At, Idle
    <2>2. \A i \in Nat : ~InLine(i, r)'
      BY <1>8 DEF Restart, InLine
    <2> QED
      BY <1>8, <1>b, <2>1, <2>2, NoTurnGiven DEF Restart
  <1>9. UNCHANGED vars => OneHand(r)'
    BY <1>b, SameLine, NoTurnGiven DEF vars, AtWork
  <1> QED
    BY <1>1, <1>2, <1>3, <1>4, <1>5, <1>6, <1>7, <1>8, <1>9 DEF Next

\* A request is executed at most once however many connections repeat it, unless
\* the store failed or forgot its key, or a Claim found it released between its
\* two calls (claimRequest, IdempotencyStore.Claim, dispatchClaimed).
THEOREM RequestsRunOnce == Spec => []OneEffect
  <1>1. Spec => [](TypeInv /\ Single)
    BY TypeInit, TypeStep, SingleInit, SingleStep, PTL DEF Spec
  <1>2. TypeInv /\ Single => OneEffect
    BY DEF Single, OneHand, OneEffect, TypeInv, TypeOK
  <1> QED
    BY <1>1, <1>2, PTL
-----------------------------------------------------------------------------
(* A reservation is not kept in vain.                                      *)

\* Somebody answers for the reservation of r.
Answered(r) ==
  \/ \E s \in Session : AtWork(s, r)
  \/ \E i \in Nat : InLine(i, r)
  \/ effects[r] > 0
  \/ r \in burned

Kept == \A r \in Request : store[r] = "pending" => Answered(r)

\* A step that reserves nothing, moves no connection away from its work and
\* takes nothing out of the channel.
LEMMA NothingTaken ==
    ASSUME NEW r \in Request, store[r] = "pending" => Answered(r),
           store'[r] = "pending" => store[r] = "pending",
           effects'[r] = effects[r], burned \subseteq burned',
           \A s \in Session : AtWork(s, r) => AtWork(s, r)',
           \A i \in Nat : InLine(i, r) => InLine(i, r)'
    PROVE  store'[r] = "pending" => Answered(r)'
  BY DEF Answered

LEMMA SameReader == UNCHANGED reader => \A s \in Session, r \in Request : AtWork(s, r)' <=> AtWork(s, r)
  BY DEF AtWork

LEMMA LineKept ==
    ASSUME TypeInv, NEW r \in Request,
           UNCHANGED commands \/ \E x \in Name : commands' = Append(commands, x)
    PROVE  \A i \in Nat : InLine(i, r) => InLine(i, r)'
  BY DEF TypeInv, TypeOK, InLine, Name

LEMMA WorkKept ==
    ASSUME TypeInv, NEW r \in Request, NEW s \in Session, NEW where, Go(s, where), ~AtWork(s, r)
    PROVE  \A t \in Session : AtWork(t, r) => AtWork(t, r)'
  BY DEF TypeInv, TypeOK, Go, AtWork

LEMMA KeptByServe ==
    ASSUME TypeInv, NEW r \in Request, store[r] = "pending" => Answered(r), NEW s \in Session, Serve(s)
    PROVE  store'[r] = "pending" => Answered(r)'
  <1>1. ASSUME Connect(s) \/ Drop(s) \/ Leave(s) \/ Finish(s) \/ Read(s) \/ ReadFails(s)
               \/ (\E ok \in BOOLEAN : Hello(s, ok) \/ MarkOnline(s, ~ok) \/ Admit(s, ok))
               \/ \E q \in Request : ClaimFails(s, q)
        PROVE  store'[r] = "pending" => Answered(r)'
    <2>1. UNCHANGED <<store, commands, effects>> /\ UNCHANGED burned
      BY <1>1 DEF Connect, Drop, Leave, Finish, Read, ReadFails, Hello, MarkOnline, Admit, ClaimFails,
                  World, Keys, lost
    <2>2. UNCHANGED reader \/ (~AtWork(s, r) /\ \E where : Go(s, where))
      <3>1. Drop(s) => UNCHANGED reader
        BY DEF Drop
      <3>2. ~Drop(s) => reader[s].pc \notin {"DISPATCH", "RELEASE"}
        BY <1>1 DEF Connect, Leave, Finish, Read, ReadFails, Hello, MarkOnline, Admit, ClaimFails, Sends
      <3>3. ~Drop(s) => \E where : Go(s, where)
        BY <1>1 DEF Connect, Leave, Finish, Read, ReadFails, Hello, MarkOnline, Admit, ClaimFails
      <3>4. AtWork(s, r) => reader[s].pc \in {"DISPATCH", "RELEASE"}
        BY DEF AtWork, At
      <3> QED
        BY <3>1, <3>2, <3>3, <3>4
    <2>3. \A t \in Session : AtWork(t, r) => AtWork(t, r)'
      BY <2>2, WorkKept, SameReader
    <2> QED
      BY <2>1, <2>3, LineKept, NothingTaken
  <1>2. ASSUME NEW q \in Request, Claim(s, q) PROVE store'[r] = "pending" => Answered(r)'
    <2>1. UNCHANGED <<commands, effects, burned>> /\ ~AtWork(s, r)
      BY <1>2 DEF Claim, World, Sends, AtWork, At, lost
    <2>2. CASE q = r /\ store[r] = "absent"
      <3>1. AtWork(s, r)'
        BY <1>2, <2>2 DEF Claim, Reserve, Go, AtWork, TypeInv, TypeOK
      <3> QED
        BY <3>1 DEF Answered
    <2>3. CASE ~(q = r /\ store[r] = "absent")
      <3>1. store'[r] = store[r] /\ \A t \in Session : AtWork(t, r) => AtWork(t, r)'
        BY <1>2, <2>1, <2>3, WorkKept DEF Claim, Reserve, TypeInv, TypeOK
      <3> QED
        BY <2>1, <3>1, LineKept, NothingTaken
    <2> QED
      BY <2>2, <2>3
  <1>3. ASSUME Dispatch(s) PROVE store'[r] = "pending" => Answered(r)'
    <2>1. UNCHANGED <<store, effects, burned>> /\ reader[s].req \in Request /\ reader[s] = At("DISPATCH", reader[s].req)
      BY <1>3 DEF Dispatch, Keys, lost, TypeInv, TypeOK, HasRequest, At
    <2>2. \A i \in Nat : InLine(i, r) => InLine(i, r)'
      BY <1>3, <2>1, LineKept DEF Dispatch, Name
    <2>3. CASE reader[s].req # r
      <3>1. \A t \in Session : AtWork(t, r) => AtWork(t, r)'
        BY <1>3, <2>1, <2>3, WorkKept DEF Dispatch, AtWork, At
      <3> QED
        BY <2>1, <2>2, <3>1, NothingTaken
    <2>4. CASE reader[s].req = r /\ Len(commands) < CommandCap
      <3>1. commands' = Append(commands, r) /\ commands \in Seq(Name) /\ r \in Name
        BY <1>3, <2>4 DEF Dispatch, TypeInv, TypeOK, Name
      <3>2. PICK n \in Nat : n = Len(commands) + 1
        BY <3>1
      <3>3. InLine(n, r)'
        BY <3>1, <3>2 DEF InLine
      <3> QED
        BY <3>3 DEF Answered
    <2>5. CASE reader[s].req = r /\ ~(Len(commands) < CommandCap)
      <3>1. AtWork(s, r)'
        BY <1>3, <2>5 DEF Dispatch, Rejected, Go, AtWork, TypeInv, TypeOK
      <3> QED
        BY <3>1 DEF Answered
    <2> QED
      BY <2>3, <2>4, <2>5
  <1>4. ASSUME NEW fails \in BOOLEAN, Release(s, fails) PROVE store'[r] = "pending" => Answered(r)'
    <2>1. UNCHANGED <<commands, effects>> /\ burned \subseteq burned' /\ reader[s].pc = "RELEASE"
      BY <1>4 DEF Release, World
    <2>2. CASE reader[s].req = r
      BY <1>4, <2>2 DEF Release, Answered, TypeInv, TypeOK
    <2>3. CASE reader[s].req # r
      <3>1. ~AtWork(s, r) /\ store'[r] = store[r]
        BY <1>4, <2>3 DEF Release, AtWork, At, TypeInv, TypeOK
      <3>2. \A t \in Session : AtWork(t, r) => AtWork(t, r)'
        BY <1>4, <3>1, WorkKept DEF Release
      <3> QED
        BY <2>1, <3>1, <3>2, LineKept, NothingTaken
    <2> QED
      BY <2>2, <2>3
  <1> QED
    BY <1>1, <1>2, <1>3, <1>4 DEF Serve

LEMMA KeptStep == TypeInv /\ Kept /\ [Next]_vars => Kept'
  <1> SUFFICES ASSUME TypeInv, Kept, [Next]_vars, NEW r \in Request
               PROVE  store'[r] = "pending" => Answered(r)'
    BY DEF Kept
  <1>a. store[r] = "pending" => Answered(r)
    BY DEF Kept
  <1>1. ASSUME NEW s \in Session, Serve(s) PROVE store'[r] = "pending" => Answered(r)'
    BY <1>1, <1>a, KeptByServe
  <1>2. Crowd => (store'[r] = "pending" => Answered(r)')
    BY <1>a, SameReader, LineKept, NothingTaken DEF Crowd, Keys, lost, Name
  <1>3. ASSUME Execute PROVE store'[r] = "pending" => Answered(r)'
    <2>1. UNCHANGED <<store, reader, burned>> /\ commands \in Seq(Name) /\ Len(commands) \in Nat \ {0}
          /\ effects'[r] = (IF r = Head(commands) /\ effects[r] < 2 THEN effects[r] + 1 ELSE effects[r])
          /\ commands' = Tail(commands) /\ effects[r] \in 0..2
      BY <1>3 DEF Execute, Keys, lost, TypeInv, TypeOK, Name
    <2>2. CASE Head(commands) = r
      BY <2>1, <2>2 DEF Answered
    <2>3. CASE Head(commands) # r
      <3>1. ASSUME NEW i \in Nat, InLine(i, r) PROVE i - 1 \in Nat /\ InLine(i - 1, r)'
        <4>1. i \in 1..Len(commands) /\ commands[i] = r /\ commands[1] # r
          BY <2>1, <2>3, <3>1 DEF InLine
        <4>2. i - 1 \in 1..Len(commands') /\ commands'[i - 1] = r
          BY <2>1, <4>1
        <4> QED
          BY <4>2 DEF InLine
      <3> QED
        BY <1>a, <2>1, <2>3, <3>1, SameReader DEF Answered
    <2> QED
      BY <2>2, <2>3
  <1>4. ASSUME NEW q \in Request, Answer(q) PROVE store'[r] = "pending" => Answered(r)'
    BY <1>4, <1>a, SameReader, LineKept, NothingTaken DEF Answer, Keys, lost
  <1>5. ASSUME NEW q \in Request, Expire(q) PROVE store'[r] = "pending" => Answered(r)'
    <2>1. store'[r] = "pending" => store[r] = "pending"
      BY <1>5 DEF Expire, TypeInv, TypeOK
    <2> QED
      BY <1>5, <1>a, <2>1, SameReader, LineKept, NothingTaken DEF Expire, World
  <1>6. ASSUME NEW q \in Request, NEW fails \in BOOLEAN, Complete(q, fails)
        PROVE  store'[r] = "pending" => Answered(r)'
    <2>1. store'[r] = "pending" => store[r] = "pending"
      BY <1>6 DEF Complete, TypeInv, TypeOK
    <2> QED
      BY <1>6, <1>a, <2>1, SameReader, LineKept, NothingTaken DEF Complete
  <1>7. PresenceExpires => (store'[r] = "pending" => Answered(r)')
    BY <1>a, SameReader, LineKept, NothingTaken DEF PresenceExpires, World
  <1>8. Restart => (store'[r] = "pending" => Answered(r)')
    BY DEF Restart, Answered
  <1>9. UNCHANGED vars => (store'[r] = "pending" => Answered(r)')
    BY <1>a, SameReader, LineKept, NothingTaken DEF vars, lost
  <1> QED
    BY <1>1, <1>2, <1>3, <1>4, <1>5, <1>6, <1>7, <1>8, <1>9 DEF Next

\* Whoever is told that a request is in progress is told the truth: a connection
\* is handing it over or giving it back, it waits in the channel, or it was
\* executed, unless the process or the store failed in between (I-10).
THEOREM NothingReservedInVain == Spec => []ReservationKept
  <1>1. Init => Kept
    BY DEF Init, Kept
  <1>2. Spec => [](TypeInv /\ Kept)
    BY <1>1, TypeInit, TypeStep, KeptStep, PTL DEF Spec
  <1>3. TypeInv /\ Kept => ReservationKept
    BY DEF Kept, Answered, AtWork, InLine, ReservationKept
  <1> QED
    BY <1>2, <1>3, PTL
-----------------------------------------------------------------------------
(* The newest connection is present.                                       *)

\* A connection that has written the key of presence and has not begun to leave.
Stays == {"ADMIT", "READY", "READ", "DISPATCH", "RELEASE"}
Present == newest \in Session /\ reader[newest].pc \in Stays => online = newest \/ faded

LEMMA PresentAfterGo ==
    ASSUME TypeInv, Present, NEW s \in Session, NEW where \in Place, Go(s, where),
           where.pc \in Stays => reader[s].pc \in Stays,
           UNCHANGED <<online, newest>>, faded => faded'
    PROVE  Present'
  BY DEF TypeInv, TypeOK, Present, Go

LEMMA PresentStill ==
    ASSUME Present, UNCHANGED <<reader, online, newest>>, faded => faded'
    PROVE  Present'
  BY DEF Present

LEMMA PresentStep == TypeInv /\ Present /\ [Next]_vars => Present'
  <1> SUFFICES ASSUME TypeInv, Present, [Next]_vars PROVE Present'
    OBVIOUS
  <1>a. UNCHANGED lost => (faded => faded')
    BY DEF lost
  <1>b. \A pc \in PCs : Idle(pc) \in Place /\ Idle(pc).pc = pc
    BY DEF Idle, At, Place, Name
  <1>c. \A pc \in PCs, r \in Request : At(pc, r) \in Place /\ At(pc, r).pc = pc
    BY DEF At, Place, Name
  <1>1. ASSUME NEW s \in Session, Connect(s) PROVE Present'
    BY <1>1, <1>a, <1>b, PresentAfterGo DEF Connect, Keys, Stays, PCs
  <1>2. ASSUME NEW s \in Session, NEW ok \in BOOLEAN, Hello(s, ok) PROVE Present'
    <2>1. PICK pc \in {"MARK", "GONE"} : Go(s, Idle(pc))
      BY <1>2 DEF Hello
    <2> QED
      BY <1>2, <2>1, <1>a, <1>b, PresentAfterGo DEF Hello, Keys, Stays, PCs
  <1>3. ASSUME NEW s \in Session, NEW fails \in BOOLEAN, MarkOnline(s, fails) PROVE Present'
    BY <1>3 DEF MarkOnline, Present
  <1>4. ASSUME NEW s \in Session, NEW ok \in BOOLEAN, Admit(s, ok) PROVE Present'
    <2>1. PICK pc \in {"READY", "LEAVING"} : Go(s, Idle(pc))
      BY <1>4 DEF Admit
    <2> QED
      BY <1>4, <2>1, <1>a, <1>b, PresentAfterGo DEF Admit, Keys, Stays, PCs
  <1>5. ASSUME NEW s \in Session, Leave(s) PROVE Present'
    BY <1>5, <1>a, <1>b, PresentAfterGo DEF Leave, Keys, Stays, PCs
  <1>6. ASSUME NEW s \in Session, Finish(s) PROVE Present'
    <2>1. reader'[s].pc = "GONE" /\ \A t \in Session : t # s => reader'[t] = reader[t]
      BY <1>6, <1>b DEF Finish, Go, TypeInv, TypeOK, PCs
    <2> QED
      BY <1>6, <2>1 DEF Finish, ClearIfSession, Present, Stays, lost
  <1>7. ASSUME NEW s \in Session, NEW r \in Request, Claim(s, r) \/ ClaimFails(s, r) PROVE Present'
    <2>1. PICK pc \in {"DISPATCH", "READ"} : Go(s, At(pc, r))
      BY <1>7 DEF Claim, ClaimFails
    <2>2. UNCHANGED <<online, newest>> /\ (faded => faded') /\ reader[s].pc \in Stays
      BY <1>7, <1>a DEF Claim, ClaimFails, Keys, Sends, Stays
    <2> QED
      BY <2>1, <2>2, <1>c, PresentAfterGo DEF Stays, PCs
  <1>8. ASSUME NEW s \in Session, Read(s) \/ ReadFails(s) \/ Dispatch(s) \/ \E ok \in BOOLEAN : Release(s, ok)
        PROVE  Present'
    <2>1. reader[s].pc \in Stays \cap {"READ", "DISPATCH", "RELEASE"} /\ reader[s].req \in Request
      BY <1>8 DEF Read, ReadFails, Dispatch, Release, HasRequest, TypeInv, Stays
    <2>2. \E where \in Place : Go(s, where)
      BY <1>8, <1>b, <1>c, <2>1 DEF Read, ReadFails, Dispatch, Rejected, Release, PCs
    <2>3. UNCHANGED <<online, newest>> /\ (faded => faded')
      BY <1>8, <1>a DEF Read, ReadFails, Dispatch, Release, Keys
    <2> QED
      BY <2>1, <2>2, <2>3, PresentAfterGo
  <1>9. ASSUME \/ Crowd \/ Execute \/ UNCHANGED vars
               \/ \E s \in Session : Drop(s)
               \/ \E r \in Request : Answer(r) \/ Expire(r) \/ \E fails \in BOOLEAN : Complete(r, fails)
        PROVE  Present'
    BY <1>9, <1>a, PresentStill DEF Crowd, Execute, vars, Drop, Answer, Expire, Complete, Keys
  <1>10. PresenceExpires => Present'
    BY DEF PresenceExpires, Present
  <1>11. ASSUME Restart PROVE Present'
    <2>1. \A s \in Session : reader'[s].pc \in {"OUT", "GONE"}
      BY <1>11, <1>b DEF Restart, PCs
    <2> QED
      BY <1>11, <2>1 DEF Restart, Present, Stays
  <1> QED
    BY <1>1, <1>2, <1>3, <1>4, <1>5, <1>6, <1>7, <1>8, <1>9, <1>10, <1>11 DEF Next, Serve

\* Whatever old connections end, and in whatever order, the player whose newest
\* connection is open is present, unless the key expired or could not be written.
THEOREM NewestStaysPresent == Spec => []NewestPresent
  <1>1. Init => Present
    BY ConstantsAssumption DEF Init, Present
  <1>2. Spec => [](TypeInv /\ Present)
    BY <1>1, TypeInit, TypeStep, PresentStep, PTL DEF Spec
  <1>3. Present => NewestPresent
    BY DEF Present, Stays, NewestPresent, Open
  <1> QED
    BY <1>2, <1>3, PTL
=============================================================================
