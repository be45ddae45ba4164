------------------------- MODULE HookExchangeProofs -------------------------
(***************************************************************************)
(* The exchange of messages between hooks and pmhwndproc, for any number   *)
(* of messages, nested to any depth, and any number of clients that draw,  *)
(* die with the lock or keep it.  What makes it work is that only the      *)
(* innermost call can be in the middle of an exchange: whoever sends is in *)
(* its body or in hook_msg, where the events are back as they were.        *)
(***************************************************************************)
EXTENDS HookExchange, SequenceTheorems, TLAPS

Places == {"lock", "body", "write", "read", "enter", "hookmsg"}
Frames == [call : {"um", "wnd", "hook"}, pc : Places, msg : 1..MaxMsgs, create : BOOLEAN,
           got : BOOLEAN, arg : 0..MaxMsgs, param : 0..MaxMsgs]

(* A call that has called another one is in its body or in hook_msg, and a *)
(* UM_ message is handled only at the bottom of the stack.                 *)
Buried ==
  /\ \A i \in 1 .. Len(stack) - 1 : stack[i].pc \in {"body", "hookmsg"}
  /\ \A i \in 2 .. Len(stack) : stack[i].call # "um"

(* Between WriteMessage and EnterHookMsg the message is the hook's own and *)
(* can be read; at any other time it can be written.                       *)
Exchanged ==
  /\ IF Top.pc \in {"read", "enter"} THEN readAccess /\ msgxchange = Top.msg
     ELSE writeAccess
  /\ Top.pc \in {"write", "read", "enter"} /\ Top.create => msgparameter = Top.msg

(* Each call requests global_lock once at most, and releases it once at    *)
(* least: the daemon never has more requests than calls that have begun.   *)
Begun == Len(stack) - IF Top.pc = "lock" THEN 1 ELSE 0
LockCounted ==
  /\ lock.owner = Nobody <=> lock.count = 0
  /\ lock.owner = Daemon => lock.count <= Begun \/ lockDead

HandledBelow ==
  /\ handled <= nmsgs
  /\ stack # <<>> /\ stack[1].call = "um" => handled < nmsgs

HookInv == TypeOK /\ OwnMessage /\ Buried /\ Exchanged /\ LockCounted /\ HandledBelow
-----------------------------------------------------------------------------
(* The first n elements of a sequence.                                     *)
LEMMA Prefix ==
  ASSUME NEW S, NEW s \in Seq(S), NEW n \in Nat, n <= Len(s)
  PROVE  /\ SubSeq(s, 1, n) \in Seq(S) /\ Len(SubSeq(s, 1, n)) = n
         /\ \A i \in 1 .. n : SubSeq(s, 1, n)[i] = s[i]
OBVIOUS

(* What is left of the stack below its innermost call.                     *)
LEMMA UnderIs ==
  ASSUME stack \in Seq(Frames), stack # <<>>
  PROVE  /\ Len(stack) \in Nat \ {0}
         /\ Under \in Seq(Frames) /\ Len(Under) = Len(stack) - 1
         /\ \A i \in 1 .. Len(stack) - 1 : Under[i] = stack[i]
         /\ Top = stack[Len(stack)] /\ Top \in Frames
<1>1. Len(stack) \in Nat /\ Len(stack) # 0
  BY LenProperties, EmptySeq
<1>2. \A i \in 1 .. Len(stack) : stack[i] \in Frames
  BY ElementOfSeq
<1>3. /\ Under \in Seq(Frames) /\ Len(Under) = Len(stack) - 1
      /\ \A i \in 1 .. Len(stack) - 1 : Under[i] = stack[i]
  <2>1. Len(stack) - 1 \in Nat /\ Len(stack) - 1 <= Len(stack)
    BY <1>1
  <2> QED BY <2>1, Prefix DEF Under
<1>4. Top = stack[Len(stack)] /\ Top \in Frames
  BY <1>1, <1>2 DEF Top
<1> QED BY <1>1, <1>3, <1>4

LEMMA PushIs ==
  ASSUME stack \in Seq(Frames), NEW f \in Frames, Push(f)
  PROVE  /\ stack' \in Seq(Frames) /\ Len(stack') = Len(stack) + 1 /\ Len(stack) \in Nat
         /\ \A i \in 1 .. Len(stack) : stack'[i] = stack[i]
         /\ stack'[Len(stack) + 1] = f /\ Top' = f /\ stack' # <<>>
<1>1. /\ stack' \in Seq(Frames) /\ Len(stack') = Len(stack) + 1 /\ Len(stack) \in Nat
      /\ \A i \in 1 .. Len(stack) : stack'[i] = stack[i]
      /\ stack'[Len(stack) + 1] = f
  BY AppendProperties, LenProperties DEF Push
<1>2. stack' # <<>>
  BY <1>1, EmptySeq
<1>3. Top' = f
  BY <1>1, <1>2 DEF Top
<1> QED BY <1>1, <1>2, <1>3

LEMMA SetTopIs ==
  ASSUME stack \in Seq(Frames), stack # <<>>, NEW f \in Frames, SetTop(f)
  PROVE  /\ stack' \in Seq(Frames) /\ Len(stack') = Len(stack)
         /\ \A i \in 1 .. Len(stack) - 1 : stack'[i] = stack[i]
         /\ stack'[Len(stack)] = f /\ Top' = f /\ stack' # <<>>
<1>1. /\ Len(stack) \in Nat \ {0} /\ Under \in Seq(Frames) /\ Len(Under) = Len(stack) - 1
      /\ \A i \in 1 .. Len(stack) - 1 : Under[i] = stack[i]
  BY UnderIs
<1>2. /\ stack' \in Seq(Frames) /\ Len(stack') = Len(Under) + 1
      /\ \A i \in 1 .. Len(Under) : stack'[i] = Under[i]
      /\ stack'[Len(Under) + 1] = f
  BY <1>1, AppendProperties DEF SetTop
<1>3. Len(stack') = Len(stack) /\ stack'[Len(stack)] = f
  BY <1>1, <1>2
<1>4. \A i \in 1 .. Len(stack) - 1 : stack'[i] = stack[i]
  BY <1>1, <1>2
<1>5. stack' # <<>>
  BY <1>1, <1>3, EmptySeq
<1>6. Top' = f
  BY <1>3, <1>5 DEF Top
<1> QED BY <1>2, <1>3, <1>4, <1>5, <1>6

LEMMA PopIs ==
  ASSUME stack \in Seq(Frames), stack # <<>>, Pop
  PROVE  /\ stack' \in Seq(Frames) /\ Len(stack') = Len(stack) - 1
         /\ \A i \in 1 .. Len(stack) - 1 : stack'[i] = stack[i]
         /\ IF Len(stack) = 1 THEN stack' = <<>> /\ Top' = NoFrame
            ELSE stack' # <<>> /\ Top' = stack[Len(stack) - 1]
<1>1. /\ Len(stack) \in Nat \ {0} /\ Under \in Seq(Frames) /\ Len(Under) = Len(stack) - 1
      /\ \A i \in 1 .. Len(stack) - 1 : Under[i] = stack[i]
  BY UnderIs
<1>2. stack' = Under
  BY DEF Pop
<1>3. CASE Len(stack) = 1
  <2>1. stack' = <<>>
    BY <1>1, <1>2, <1>3, EmptySeq
  <2> QED BY <1>1, <1>2, <1>3, <2>1 DEF Top
<1>4. CASE Len(stack) # 1
  <2>1. stack' # <<>>
    BY <1>1, <1>2, <1>4, EmptySeq
  <2> QED BY <1>1, <1>2, <1>4, <2>1 DEF Top
<1> QED BY <1>3, <1>4
-----------------------------------------------------------------------------
(* The three ways a step changes the stack keep what is said of frames.    *)
LEMMA Pushing ==
  ASSUME HookInv, NEW f \in Frames, Push(f), Top.pc \in {"none", "body", "hookmsg"},
         f.pc \in {"lock", "write"}, f.call = "um" => stack = <<>>
  PROVE  OwnMessage' /\ Buried'
<1>1. stack \in Seq(Frames)
  BY DEF HookInv, TypeOK, Frames, Places
<1>2. /\ Len(stack') = Len(stack) + 1 /\ Len(stack) \in Nat /\ stack'[Len(stack) + 1] = f
      /\ \A i \in 1 .. Len(stack) : stack'[i] = stack[i]
  BY <1>1, PushIs
<1>3. \A i \in 1 .. Len(stack) : stack[i].pc \in {"body", "hookmsg"}
  <2>1. CASE stack = <<>>
    BY <2>1, EmptySeq
  <2>2. CASE stack # <<>>
    <3>1. Top = stack[Len(stack)] /\ Top \in Frames
      BY <1>1, <2>2, UnderIs
    <3>2. Top.pc \in {"body", "hookmsg"}
      BY <3>1 DEF Frames, Places
    <3> QED BY <1>2, <3>1, <3>2 DEF HookInv, Buried
  <2> QED BY <2>1, <2>2
<1>4. OwnMessage'
  BY <1>2 DEF HookInv, OwnMessage
<1>5. f.call = "um" => Len(stack) = 0
  BY EmptySeq
<1>6. Buried'
  BY <1>2, <1>3, <1>5 DEF HookInv, Buried
<1> QED BY <1>4, <1>6

LEMMA SettingTop ==
  ASSUME HookInv, stack # <<>>, NEW f \in Frames, SetTop(f), f.call = Top.call,
         f.pc \in {"enter", "hookmsg"} => f.arg = f.msg,
         f.pc = "hookmsg" /\ f.create => f.param = f.msg
  PROVE  OwnMessage' /\ Buried'
<1>1. stack \in Seq(Frames)
  BY DEF HookInv, TypeOK, Frames, Places
<1>2. /\ Len(stack') = Len(stack) /\ stack'[Len(stack)] = f
      /\ \A i \in 1 .. Len(stack) - 1 : stack'[i] = stack[i]
  BY <1>1, SetTopIs
<1>3. Top = stack[Len(stack)] /\ Len(stack) \in Nat \ {0}
  BY <1>1, UnderIs
<1>4. OwnMessage'
  BY <1>2, <1>3 DEF HookInv, OwnMessage
<1>5. Buried'
  BY <1>2, <1>3 DEF HookInv, Buried
<1> QED BY <1>4, <1>5

LEMMA Popping ==
  ASSUME HookInv, stack # <<>>, Pop
  PROVE  OwnMessage' /\ Buried' /\ Top'.pc \in {"none", "body", "hookmsg"}
<1>1. stack \in Seq(Frames)
  BY DEF HookInv, TypeOK, Frames, Places
<1>2. /\ Len(stack') = Len(stack) - 1 /\ Len(stack) \in Nat \ {0}
      /\ \A i \in 1 .. Len(stack) - 1 : stack'[i] = stack[i]
      /\ IF Len(stack) = 1 THEN stack' = <<>> /\ Top' = NoFrame
         ELSE stack' # <<>> /\ Top' = stack[Len(stack) - 1]
  BY <1>1, PopIs, UnderIs
<1>3. OwnMessage' /\ Buried'
  BY <1>2 DEF HookInv, OwnMessage, Buried
<1>4. Top'.pc \in {"none", "body", "hookmsg"}
  BY <1>2 DEF HookInv, Buried, NoFrame
<1> QED BY <1>3, <1>4

(* A release by its owner takes one request back, any other none.          *)
LockType == [owner : Clients \cup {Daemon, Nobody}, count : Nat]
LEMMA ReleasedIs ==
  ASSUME lock \in LockType, lock.owner = Nobody <=> lock.count = 0,
         NEW who \in Clients \cup {Daemon}
  PROVE  /\ Released(who) \in LockType
         /\ Released(who).owner = Nobody <=> Released(who).count = 0
         /\ Released(who).owner = Daemon =>
              /\ lock.owner = Daemon /\ Released(who).count <= lock.count
              /\ who = Daemon /\ ~lockDead => Released(who).count = lock.count - 1
<1>1. who # Nobody /\ Daemon # Nobody
  BY HookAssumption
<1>2. CASE lockDead \/ lock.owner # who
  BY <1>2 DEF Released, LockType
<1>3. CASE ~(lockDead \/ lock.owner # who) /\ lock.count = 1
  BY <1>1, <1>3 DEF Released, LockType
<1>4. CASE ~(lockDead \/ lock.owner # who) /\ lock.count # 1
  <2>1. Released(who) = [lock EXCEPT !.count = @ - 1]
    BY <1>4 DEF Released
  <2> QED BY <1>1, <1>4, <2>1 DEF LockType
<1> QED BY <1>2, <1>3, <1>4
-----------------------------------------------------------------------------
LEMMA HookInitInv == Init => HookInv
<1> SUFFICES ASSUME Init PROVE HookInv
  OBVIOUS
<1>1. stack = <<>> /\ Len(stack) = 0 /\ Top = NoFrame
  BY EmptySeq DEF Init, Top
<1>2. TypeOK
  <2>1. lock \in [owner : Clients \cup {Daemon, Nobody}, count : Nat]
    BY DEF Init
  <2>2. client \in [Clients -> {"idle", "lock", "draw", "dead"}]
    BY DEF Init
  <2>3. hmtxAccess \in 0..MaxHooked /\ refused \in 0..MaxRefused
        /\ {nmsgs, handled, msgxchange, msgparameter} \subseteq 0..MaxMsgs
    BY HookAssumption DEF Init
  <2>4. {readAccess, writeAccess, lockDead} \subseteq BOOLEAN
    BY DEF Init
  <2>5. stack \in Seq(Frames) /\ Len(stack) <= MaxDepth
    BY <1>1, HookAssumption, EmptySeq
  <2> QED BY <2>1, <2>2, <2>3, <2>4, <2>5 DEF TypeOK, Frames, Places
<1>3. OwnMessage /\ Buried
  BY <1>1 DEF OwnMessage, Buried
<1>4. Exchanged
  BY <1>1 DEF Exchanged, Init, NoFrame
<1>5. LockCounted
  BY HookAssumption DEF Init, LockCounted
<1>6. HandledBelow
  BY <1>1 DEF Init, HandledBelow
<1> QED BY <1>2, <1>3, <1>4, <1>5, <1>6 DEF HookInv

(* A message arrives: f is the frame of its handler, procedure or hook.    *)
LEMMA Arriving ==
  ASSUME HookInv, NEW f \in Frames, Push(f), Len(stack) < MaxDepth,
         Top.pc \in {"none", "body", "hookmsg"}, f.pc \in {"lock", "write"},
         f.call = "um" => stack = <<>>,
         nmsgs < MaxMsgs, nmsgs' = nmsgs + 1, f.msg = nmsgs',
         msgparameter' \in 0..MaxMsgs, f.pc = "write" /\ f.create => msgparameter' = f.msg,
         UNCHANGED <<handled, msgxchange, readAccess, writeAccess, hmtxAccess,
                     lockvars, clientvars>>
  PROVE  HookInv'
<1>1. stack \in Seq(Frames) /\ nmsgs \in 0..MaxMsgs /\ handled \in 0..MaxMsgs
  BY DEF HookInv, TypeOK, Frames, Places
<1>2. /\ stack' \in Seq(Frames) /\ Len(stack') = Len(stack) + 1 /\ Len(stack) \in Nat
      /\ \A i \in 1 .. Len(stack) : stack'[i] = stack[i]
      /\ stack'[Len(stack) + 1] = f /\ Top' = f
  BY <1>1, PushIs
<1>3. TypeOK'
  <2>1. nmsgs' \in 0..MaxMsgs /\ Len(stack') <= MaxDepth
    BY <1>1, <1>2, HookAssumption
  <2> QED BY <1>2, <2>1 DEF HookInv, TypeOK, Frames, Places, lockvars, clientvars
<1>4. OwnMessage' /\ Buried'
  BY Pushing
<1>5. Exchanged'
  BY <1>2 DEF HookInv, Exchanged
<1>6. LockCounted'
  <2>1. Begun' >= Begun /\ Begun \in Int /\ Begun' \in Int
    BY <1>2 DEF Begun
  <2>2. lock.owner = Daemon => lock.count \in Nat
    BY DEF HookInv, TypeOK
  <2>3. lock' = lock /\ lockDead' = lockDead
    BY DEF lockvars
  <2> HIDE DEF Begun
  <2> QED BY <2>1, <2>2, <2>3 DEF HookInv, LockCounted
<1>7. HandledBelow'
  <2>1. handled' < nmsgs' /\ handled' <= nmsgs'
    BY <1>1 DEF HookInv, HandledBelow
  <2> QED BY <2>1 DEF HandledBelow
<1> QED BY <1>3, <1>4, <1>5, <1>6, <1>7 DEF HookInv

LEMMA ArrivalKeeps == ASSUME HookInv, Arrival PROVE HookInv'
<1>1. nmsgs \in 0..MaxMsgs /\ msgparameter \in 0..MaxMsgs
  BY DEF HookInv, TypeOK
<1>2. /\ nmsgs < MaxMsgs => nmsgs + 1 \in 1..MaxMsgs /\ nmsgs + 1 \in 0..MaxMsgs
      /\ 0 \in 0..MaxMsgs
  BY <1>1, HookAssumption
<1>3. CASE UmMessage
  <2>1. Top.pc \in {"none", "body", "hookmsg"} /\ Len(stack) < MaxDepth
    BY <1>3, EmptySeq, HookAssumption DEF UmMessage, Top, NoFrame
  <2>2. Push(Frame("um", "lock", nmsgs', FALSE)) /\ nmsgs < MaxMsgs /\ nmsgs' = nmsgs + 1
    BY <1>3 DEF UmMessage
  <2>0. nmsgs' \in 1..MaxMsgs /\ "lock" \in Places
    BY <1>2, <2>2 DEF Places
  <2> DEFINE f == Frame("um", "lock", nmsgs', FALSE)
  <2>3. f \in Frames /\ f.call = "um" /\ f.pc = "lock" /\ f.msg = nmsgs'
    BY <2>0, <1>2 DEF Frame, NoFrame, Frames, Places
  <2> HIDE DEF f
  <2> QED BY <1>1, <1>3, <2>1, <2>2, <2>3, Arriving DEF UmMessage, exchange, f
<1>4. CASE WindowMessage
  <2>1. Top.pc \in {"none", "body", "hookmsg"} /\ Len(stack) < MaxDepth
    BY <1>4 DEF WindowMessage, CanSend
  <2>2. Push(Frame("wnd", "lock", nmsgs', FALSE)) /\ nmsgs < MaxMsgs /\ nmsgs' = nmsgs + 1
    BY <1>4 DEF WindowMessage
  <2>0. nmsgs' \in 1..MaxMsgs /\ "lock" \in Places
    BY <1>2, <2>2 DEF Places
  <2> DEFINE f == Frame("wnd", "lock", nmsgs', FALSE)
  <2>3. f \in Frames /\ f.call = "wnd" /\ f.pc = "lock" /\ f.msg = nmsgs'
    BY <2>0, <1>2 DEF Frame, NoFrame, Frames, Places
  <2> QED BY <1>1, <1>4, <2>1, <2>2, <2>3, Arriving DEF WindowMessage, exchange
<1>5. CASE Hook
  <2>1. Top.pc \in {"none", "body", "hookmsg"} /\ Len(stack) < MaxDepth
    BY <1>5 DEF Hook, CanHook
  <2>2. Push(Frame("hook", "write", nmsgs', FALSE)) /\ nmsgs < MaxMsgs /\ nmsgs' = nmsgs + 1
    BY <1>5 DEF Hook
  <2>0. nmsgs' \in 1..MaxMsgs /\ "write" \in Places
    BY <1>2, <2>2 DEF Places
  <2> DEFINE f == Frame("hook", "write", nmsgs', FALSE)
  <2>3. f \in Frames /\ f.call = "hook" /\ f.pc = "write" /\ f.msg = nmsgs'
        /\ f.create = FALSE
    BY <2>0, <1>2 DEF Frame, NoFrame, Frames, Places
  <2> QED BY <1>1, <1>5, <2>1, <2>2, <2>3, Arriving DEF Hook, exchange
<1>6. CASE CreateHook
  <2>1. Top.pc \in {"none", "body", "hookmsg"} /\ Len(stack) < MaxDepth
    BY <1>6 DEF CreateHook, CanHook
  <2>2. Push(Frame("hook", "write", nmsgs', TRUE)) /\ nmsgs < MaxMsgs /\ nmsgs' = nmsgs + 1
    BY <1>6 DEF CreateHook
  <2>0. nmsgs' \in 1..MaxMsgs /\ "write" \in Places
    BY <1>2, <2>2 DEF Places
  <2> DEFINE f == Frame("hook", "write", nmsgs', TRUE)
  <2>3. f \in Frames /\ f.call = "hook" /\ f.pc = "write" /\ f.msg = nmsgs'
    BY <2>0, <1>2 DEF Frame, NoFrame, Frames, Places
  <2>4. msgparameter' = nmsgs' /\ msgparameter' \in 0..MaxMsgs
    BY <1>2, <1>6, <2>2 DEF CreateHook
  <2> QED BY <1>6, <2>1, <2>2, <2>3, <2>4, Arriving DEF CreateHook
<1> QED BY <1>3, <1>4, <1>5, <1>6 DEF Arrival
-----------------------------------------------------------------------------
(* The innermost call goes on.                                             *)
LEMMA TopIsFrame ==
  ASSUME HookInv, Top.pc # "none"
  PROVE  /\ stack \in Seq(Frames) /\ stack # <<>> /\ Len(stack) \in Nat \ {0}
         /\ Top \in Frames /\ Top = stack[Len(stack)]
<1>1. stack \in Seq(Frames)
  BY DEF HookInv, TypeOK, Frames, Places
<1>2. stack # <<>>
  BY DEF Top, NoFrame
<1> QED BY <1>1, <1>2, UnderIs

LEMMA Turning ==
  ASSUME HookInv, Top.pc # "none", NEW f \in Frames, SetTop(f), f.call = Top.call,
         f.pc \in {"enter", "hookmsg"} => f.arg = f.msg,
         f.pc = "hookmsg" /\ f.create => f.param = f.msg,
         UNCHANGED <<nmsgs, handled, msgparameter, lockDead, clientvars>>,
         msgxchange' \in 0..MaxMsgs, {readAccess', writeAccess'} \subseteq BOOLEAN,
         hmtxAccess' \in 0..MaxHooked, lock' \in LockType
  PROVE  /\ TypeOK' /\ OwnMessage' /\ Buried' /\ HandledBelow'
         /\ Top' = f /\ Len(stack') = Len(stack)
<1>1. /\ stack \in Seq(Frames) /\ stack # <<>> /\ Len(stack) \in Nat \ {0}
      /\ Top \in Frames /\ Top = stack[Len(stack)]
  BY TopIsFrame
<1>2. /\ stack' \in Seq(Frames) /\ Len(stack') = Len(stack) /\ Top' = f /\ stack' # <<>>
      /\ \A i \in 1 .. Len(stack) - 1 : stack'[i] = stack[i]
      /\ stack'[Len(stack)] = f
  BY <1>1, SetTopIs
<1>3. TypeOK'
  BY <1>2 DEF HookInv, TypeOK, Frames, Places, clientvars, LockType
<1>4. OwnMessage' /\ Buried'
  BY <1>1, SettingTop
<1>5. HandledBelow'
  <2>1. stack'[1].call = stack[1].call
    BY <1>1, <1>2
  <2> QED BY <1>1, <2>1 DEF HookInv, HandledBelow
<1> QED BY <1>2, <1>3, <1>4, <1>5

LEMMA GetHookAccessKeeps == ASSUME HookInv, GetHookAccess PROVE HookInv'
<1>1. Top.pc = "lock" /\ SetTop([Top EXCEPT !.pc = "body", !.got = TRUE])
      /\ UNCHANGED <<nmsgs, handled, exchange, lockDead, clientvars>>
  BY DEF GetHookAccess
<1>2. /\ Top \in Frames /\ Len(stack) \in Nat \ {0}
      /\ [Top EXCEPT !.pc = "body", !.got = TRUE] \in Frames
  <2>1. Top \in Frames /\ Len(stack) \in Nat \ {0}
    BY <1>1, TopIsFrame
  <2> QED BY <2>1 DEF Frames, Places
<1>3. lock \in LockType /\ lock' = [owner |-> Daemon, count |-> lock.count + 1]
      /\ lock.owner \in {Nobody, Daemon} /\ ~lockDead
  BY DEF HookInv, TypeOK, LockType, GetHookAccess, Request
<1>4. lock' \in LockType
  BY <1>3 DEF LockType
<1> DEFINE f == [Top EXCEPT !.pc = "body", !.got = TRUE]
<1>5. f \in Frames /\ f.pc = "body" /\ f.call = Top.call
  BY <1>2 DEF Frames
<1>6. /\ TypeOK' /\ OwnMessage' /\ Buried' /\ HandledBelow'
      /\ Top' = f /\ Len(stack') = Len(stack)
  <2>1. /\ msgxchange' \in 0..MaxMsgs /\ {readAccess', writeAccess'} \subseteq BOOLEAN
        /\ hmtxAccess' \in 0..MaxHooked
    BY <1>1 DEF HookInv, TypeOK, exchange
  <2> QED BY <1>1, <1>4, <1>5, <2>1, Turning DEF exchange
<1>7. Exchanged'
  BY <1>1, <1>5, <1>6 DEF HookInv, Exchanged, exchange
<1>8. LockCounted'
  <2>1. lock.count <= Len(stack) - 1 /\ lock.count \in Nat
    BY <1>1, <1>2, <1>3 DEF HookInv, LockCounted, Begun, LockType
  <2>2. Begun' = Len(stack)
    BY <1>2, <1>5, <1>6 DEF Begun
  <2>3. lock'.owner = Daemon /\ lock'.count = lock.count + 1
    BY <1>3
  <2> QED BY <2>1, <2>2, <2>3, <1>2, HookAssumption DEF LockCounted
<1> QED BY <1>6, <1>7, <1>8 DEF HookInv

LEMMA GetHookAccessFailsKeeps == ASSUME HookInv, GetHookAccessFails PROVE HookInv'
<1>1. Top.pc = "lock" /\ SetTop([Top EXCEPT !.pc = "body", !.got = FALSE])
      /\ CannotRequest(Daemon) /\ UNCHANGED <<nmsgs, handled, exchange, lockvars, clientvars>>
  BY DEF GetHookAccessFails
<1>2. Top \in Frames /\ Len(stack) \in Nat \ {0}
  BY <1>1, TopIsFrame
<1> DEFINE f == [Top EXCEPT !.pc = "body", !.got = FALSE]
<1>3. f \in Frames /\ f.pc = "body" /\ f.call = Top.call
  BY <1>2 DEF Frames, Places
<1>4. /\ TypeOK' /\ OwnMessage' /\ Buried' /\ HandledBelow'
      /\ Top' = f /\ Len(stack') = Len(stack)
  <2>1. /\ msgxchange' \in 0..MaxMsgs /\ {readAccess', writeAccess'} \subseteq BOOLEAN
        /\ hmtxAccess' \in 0..MaxHooked /\ lock' \in LockType
    BY <1>1 DEF HookInv, TypeOK, exchange, lockvars, LockType
  <2> QED BY <1>1, <1>3, <2>1, Turning DEF exchange, lockvars
<1>5. Exchanged'
  BY <1>1, <1>3, <1>4 DEF HookInv, Exchanged, exchange
<1>6. LockCounted'
  <2>1. Begun' >= Begun /\ Begun \in Int /\ Begun' \in Int
    BY <1>2, <1>3, <1>4 DEF Begun
  <2>2. lock' = lock /\ lockDead' = lockDead /\ lock.count \in Nat
    BY <1>1 DEF lockvars, HookInv, TypeOK
  <2> HIDE DEF Begun
  <2> QED BY <2>1, <2>2 DEF HookInv, LockCounted
<1> QED BY <1>4, <1>5, <1>6 DEF HookInv

(* The three steps of an exchange leave the lock alone.                    *)
LEMMA Exchanging ==
  ASSUME HookInv, Len(stack) \in Nat, Len(stack') = Len(stack), Top.pc # "lock",
         Top'.pc # "lock", UNCHANGED lockvars
  PROVE  LockCounted'
<1>1. Begun' = Begun
  BY DEF Begun
<1> QED BY <1>1 DEF HookInv, LockCounted, lockvars

LEMMA WriteMessageKeeps == ASSUME HookInv, WriteMessage PROVE HookInv'
<1>1. /\ Top.pc = "write" /\ SetTop([Top EXCEPT !.pc = "read"])
      /\ msgxchange' = Top.msg /\ writeAccess' = FALSE /\ readAccess' = TRUE
      /\ UNCHANGED <<nmsgs, handled, msgparameter, hmtxAccess, lockvars, clientvars>>
  BY DEF WriteMessage
<1>2. Top \in Frames /\ Len(stack) \in Nat \ {0}
  BY <1>1, TopIsFrame
<1> DEFINE f == [Top EXCEPT !.pc = "read"]
<1>3. f \in Frames /\ f.pc = "read" /\ f.call = Top.call /\ f.msg = Top.msg
      /\ f.create = Top.create
  BY <1>2 DEF Frames, Places
<1>4. /\ TypeOK' /\ OwnMessage' /\ Buried' /\ HandledBelow'
      /\ Top' = f /\ Len(stack') = Len(stack)
  <2>1. Top.msg \in 0..MaxMsgs
    BY <1>2, HookAssumption DEF Frames
  <2>2. /\ msgxchange' \in 0..MaxMsgs /\ {readAccess', writeAccess'} \subseteq BOOLEAN
        /\ hmtxAccess' \in 0..MaxHooked /\ lock' \in LockType
    BY <1>1, <2>1 DEF HookInv, TypeOK, lockvars, LockType
  <2> QED BY <1>1, <1>3, <2>2, Turning DEF lockvars
<1>5. Exchanged'
  BY <1>1, <1>3, <1>4 DEF HookInv, Exchanged
<1>6. LockCounted'
  BY <1>1, <1>2, <1>3, <1>4, Exchanging
<1> QED BY <1>4, <1>5, <1>6 DEF HookInv

LEMMA ReadMessageKeeps == ASSUME HookInv, ReadMessage PROVE HookInv'
<1>1. /\ Top.pc = "read" /\ SetTop([Top EXCEPT !.pc = "enter", !.arg = msgxchange])
      /\ UNCHANGED <<nmsgs, handled, exchange, lockvars, clientvars>>
  BY DEF ReadMessage
<1>2. Top \in Frames /\ Len(stack) \in Nat \ {0}
  BY <1>1, TopIsFrame
<1> DEFINE f == [Top EXCEPT !.pc = "enter", !.arg = msgxchange]
<1>3. msgxchange \in 0..MaxMsgs /\ msgxchange = Top.msg
  BY <1>1 DEF HookInv, TypeOK, Exchanged
<1>4. f \in Frames /\ f.pc = "enter" /\ f.call = Top.call /\ f.msg = Top.msg
      /\ f.create = Top.create /\ f.arg = f.msg
  BY <1>2, <1>3 DEF Frames, Places
<1>5. /\ TypeOK' /\ OwnMessage' /\ Buried' /\ HandledBelow'
      /\ Top' = f /\ Len(stack') = Len(stack)
  <2>1. /\ msgxchange' \in 0..MaxMsgs /\ {readAccess', writeAccess'} \subseteq BOOLEAN
        /\ hmtxAccess' \in 0..MaxHooked /\ lock' \in LockType
    BY <1>1 DEF HookInv, TypeOK, exchange, lockvars, LockType
  <2> QED BY <1>1, <1>4, <2>1, Turning DEF exchange, lockvars
<1>6. Exchanged'
  BY <1>1, <1>4, <1>5 DEF HookInv, Exchanged, exchange
<1>7. LockCounted'
  BY <1>1, <1>2, <1>4, <1>5, Exchanging
<1> QED BY <1>5, <1>6, <1>7 DEF HookInv

LEMMA EnterHookMsgKeeps == ASSUME HookInv, EnterHookMsg PROVE HookInv'
<1> DEFINE f == [Top EXCEPT !.pc = "hookmsg",
                            !.param = IF Top.create THEN msgparameter ELSE 0]
<1>1. /\ Top.pc = "enter" /\ SetTop(f)
      /\ hmtxAccess' = IF hmtxAccess < MaxHooked THEN hmtxAccess + 1 ELSE hmtxAccess
      /\ readAccess' = FALSE /\ writeAccess' = TRUE
      /\ UNCHANGED <<nmsgs, handled, msgxchange, msgparameter, lockvars, clientvars>>
  BY DEF EnterHookMsg
<1>2. Top \in Frames /\ Len(stack) \in Nat \ {0} /\ Top = stack[Len(stack)]
  BY <1>1, TopIsFrame
<1>3. /\ Top.create => msgparameter = Top.msg
      /\ Top.arg = Top.msg /\ msgparameter \in 0..MaxMsgs /\ 0 \in 0..MaxMsgs
  <2>1. Top.arg = Top.msg
    BY <1>1, <1>2 DEF HookInv, OwnMessage
  <2> QED BY <1>1, <2>1, HookAssumption DEF HookInv, TypeOK, Exchanged
<1>4. /\ f \in Frames /\ f.pc = "hookmsg" /\ f.call = Top.call /\ f.msg = Top.msg
      /\ f.create = Top.create /\ f.arg = f.msg
      /\ f.create => f.param = f.msg
  BY <1>2, <1>3 DEF Frames, Places
<1>5. /\ TypeOK' /\ OwnMessage' /\ Buried' /\ HandledBelow'
      /\ Top' = f /\ Len(stack') = Len(stack)
  <2>1. hmtxAccess' \in 0..MaxHooked
    BY <1>1, HookAssumption DEF HookInv, TypeOK
  <2>2. /\ msgxchange' \in 0..MaxMsgs /\ {readAccess', writeAccess'} \subseteq BOOLEAN
        /\ lock' \in LockType
    BY <1>1 DEF HookInv, TypeOK, lockvars, LockType
  <2> HIDE DEF f
  <2> QED BY <1>1, <1>4, <2>1, <2>2, Turning DEF lockvars
<1> HIDE DEF f
<1>6. Exchanged'
  BY <1>1, <1>4, <1>5 DEF Exchanged
<1>7. LockCounted'
  BY <1>1, <1>2, <1>4, <1>5, Exchanging
<1> QED BY <1>5, <1>6, <1>7 DEF HookInv
-----------------------------------------------------------------------------
(* The innermost call ends.                                                *)
LEMMA Returning ==
  ASSUME HookInv, Top.pc \in {"body", "hookmsg"}, Pop, lock' = Released(Daemon),
         handled' = handled \/ (Top.call = "um" /\ handled' = handled + 1),
         UNCHANGED <<nmsgs, exchange, lockDead, clientvars>>
  PROVE  HookInv'
<1>1. /\ stack \in Seq(Frames) /\ stack # <<>> /\ Len(stack) \in Nat \ {0}
      /\ Top \in Frames /\ Top = stack[Len(stack)]
  BY TopIsFrame
<1>2. /\ stack' \in Seq(Frames) /\ Len(stack') = Len(stack) - 1
      /\ \A i \in 1 .. Len(stack) - 1 : stack'[i] = stack[i]
      /\ IF Len(stack) = 1 THEN stack' = <<>> /\ Top' = NoFrame
         ELSE stack' # <<>> /\ Top' = stack[Len(stack) - 1]
  BY <1>1, PopIs
<1>3. OwnMessage' /\ Buried' /\ Top'.pc \in {"none", "body", "hookmsg"}
  BY <1>1, Popping
<1>4. nmsgs \in Nat /\ handled \in Nat /\ nmsgs <= MaxMsgs /\ MaxMsgs \in Nat
  BY HookAssumption DEF HookInv, TypeOK
<1>5. HandledBelow' /\ handled' \in 0..MaxMsgs
  <2>1. CASE Top.call = "um" /\ handled' = handled + 1
    <3>0. \A n \in Nat \ {0} : n # 1 => n \in 2 .. n
      OBVIOUS
    <3>1. Len(stack) # 1 => Len(stack) \in 2 .. Len(stack)
      BY <1>1, <3>0, Zenon
    <3>2. \A i \in 2 .. Len(stack) : stack[i].call # "um"
      BY DEF HookInv, Buried
    <3>3. Len(stack) = 1
      BY <1>1, <2>1, <3>1, <3>2
    <3> QED BY <1>1, <1>2, <1>4, <2>1, <3>3 DEF HookInv, HandledBelow
  <2>2. CASE handled' = handled
    <3>1. stack' # <<>> => stack'[1] = stack[1]
      BY <1>1, <1>2
    <3> QED BY <1>1, <1>4, <2>2, <3>1 DEF HookInv, HandledBelow
  <2> QED BY <2>1, <2>2
<1>6. /\ lock' \in LockType
      /\ lock'.owner = Nobody <=> lock'.count = 0
      /\ lock'.owner = Daemon =>
           /\ lock.owner = Daemon /\ lock'.count <= lock.count
           /\ ~lockDead => lock'.count = lock.count - 1
  <2>1. lock \in LockType /\ (lock.owner = Nobody <=> lock.count = 0)
    BY DEF HookInv, TypeOK, LockType, LockCounted
  <2>2. Daemon \in Clients \cup {Daemon}
    OBVIOUS
  <2> QED BY <2>1, <2>2, ReleasedIs
<1>7. TypeOK'
  <2>1. Len(stack') <= MaxDepth
    BY <1>1, <1>2, HookAssumption DEF HookInv, TypeOK
  <2> QED BY <1>2, <1>5, <1>6, <2>1
          DEF HookInv, TypeOK, Frames, Places, exchange, clientvars, LockType
<1>8. Exchanged'
  BY <1>3 DEF HookInv, Exchanged, exchange
<1>9. LockCounted'
  <2>1. Begun = Len(stack) /\ Begun' = Len(stack) - 1
    BY <1>1, <1>2, <1>3 DEF Begun
  <2>2. lock.count \in Nat /\ lock'.count \in Nat
    BY <1>6 DEF HookInv, TypeOK, LockType
  <2> QED BY <1>1, <1>6, <2>1, <2>2 DEF HookInv, LockCounted
<1> QED BY <1>3, <1>5, <1>7, <1>8, <1>9 DEF HookInv

LEMMA EndHandlerKeeps == ASSUME HookInv, EndHandler PROVE HookInv'
<1>1. /\ Top.pc = "body" /\ UNCHANGED <<nmsgs, exchange, lockDead, clientvars>>
      /\ lock' = Released(Daemon) /\ Pop
      /\ (handled' = handled \/ (Top.call = "um" /\ handled' = handled + 1))
  BY DEF EndHandler
<1> QED BY <1>1, Returning

LEMMA LeaveHookMsgKeeps == ASSUME HookInv, LeaveHookMsg PROVE HookInv'
<1>1. Top.pc = "hookmsg" /\ UNCHANGED <<nmsgs, exchange, lockDead, clientvars>>
      /\ lock' = Released(Daemon) /\ Pop /\ handled' = handled
  BY DEF LeaveHookMsg
<1> QED BY <1>1, Returning
-----------------------------------------------------------------------------
(* Clients touch the lock and nothing of the exchange.                     *)
LEMMA ClientKeeps ==
  ASSUME HookInv, lock' \in LockType, lock'.owner = Nobody <=> lock'.count = 0,
         lock'.owner = Daemon => lock' = lock, lockDead => lockDead',
         client' \in [Clients -> {"idle", "lock", "draw", "dead"}],
         lockDead' \in BOOLEAN, refused' \in 0..MaxRefused,
         UNCHANGED <<stack, nmsgs, handled, exchange>>
  PROVE  HookInv'
<1>1. Top' = Top /\ Begun' = Begun
  BY DEF Top, Begun
<1>2. TypeOK'
  BY DEF HookInv, TypeOK, exchange, LockType
<1>3. OwnMessage' /\ Buried' /\ HandledBelow'
  BY DEF HookInv, OwnMessage, Buried, HandledBelow
<1>4. Exchanged'
  BY <1>1 DEF HookInv, Exchanged, exchange
<1>5. LockCounted'
  BY <1>1 DEF HookInv, LockCounted
<1> QED BY <1>2, <1>3, <1>4, <1>5 DEF HookInv

LEMMA ClientStepKeeps ==
  ASSUME HookInv, NEW c \in Clients, ClientStep(c)
  PROVE  HookInv'
<1>1. /\ lock \in LockType /\ (lock.owner = Nobody <=> lock.count = 0)
      /\ lockDead \in BOOLEAN /\ refused \in 0..MaxRefused
      /\ client \in [Clients -> {"idle", "lock", "draw", "dead"}]
  BY DEF HookInv, TypeOK, LockType, LockCounted
<1>2. c # Daemon /\ c # Nobody /\ Daemon # Nobody
  BY HookAssumption
<1>3. CASE DrawBegin(c)
  BY <1>1, <1>3, ClientKeeps DEF DrawBegin, lockvars
<1>4. CASE DrawLock(c)
  <2>1. lock' = [owner |-> c, count |-> lock.count + 1]
    BY <1>4 DEF DrawLock, Request
  <2>2. lock' \in LockType /\ lock'.count # 0 /\ lock'.owner = c
    BY <1>1, <2>1 DEF LockType
  <2> QED BY <1>1, <1>2, <1>4, <2>2, ClientKeeps DEF DrawLock
<1>5. CASE DrawLockFails(c)
  BY <1>1, <1>5, ClientKeeps DEF DrawLockFails, lockvars
<1>6. CASE DrawEnd(c)
  <2>1. /\ lock' \in LockType /\ (lock'.owner = Nobody <=> lock'.count = 0)
    BY <1>1, <1>6, ReleasedIs DEF DrawEnd
  <2>2. lock'.owner = Daemon => lock' = lock
    BY <1>1, <1>2, <1>6 DEF DrawEnd, Released, LockType
  <2> QED BY <1>1, <1>6, <2>1, <2>2, ClientKeeps DEF DrawEnd
<1>7. CASE CopyPlaneRefused(c)
  <2>1. refused' \in 0..MaxRefused
    BY <1>1, <1>7, HookAssumption DEF CopyPlaneRefused
  <2> QED BY <1>1, <1>7, <2>1, ClientKeeps DEF CopyPlaneRefused, lockvars
<1>8. CASE Die(c)
  <2>1. lockDead' \in BOOLEAN /\ (lockDead => lockDead')
    BY <1>1, <1>8 DEF Die
  <2> QED BY <1>1, <1>8, <2>1, ClientKeeps DEF Die
<1> QED BY <1>3, <1>4, <1>5, <1>6, <1>7, <1>8 DEF ClientStep
-----------------------------------------------------------------------------
LEMMA HookNextInv == HookInv /\ [Next]_vars => HookInv'
<1>1. CASE Next
  <2>1. ASSUME HookInv, GoOn PROVE HookInv'
    BY <2>1, GetHookAccessKeeps, GetHookAccessFailsKeeps, EndHandlerKeeps, WriteMessageKeeps,
       ReadMessageKeeps, EnterHookMsgKeeps, LeaveHookMsgKeeps DEF GoOn
  <2> QED BY <1>1, <2>1, ArrivalKeeps, ClientStepKeeps DEF Next
<1>2. ASSUME HookInv, UNCHANGED vars PROVE HookInv'
  <2>1. lock' = lock /\ lockDead' = lockDead /\ client' = client /\ refused' = refused
        /\ UNCHANGED <<stack, nmsgs, handled, exchange>>
    BY <1>2 DEF vars, lockvars, clientvars, exchange
  <2>2. /\ lock \in LockType /\ (lock.owner = Nobody <=> lock.count = 0)
        /\ lockDead \in BOOLEAN /\ refused \in 0..MaxRefused
        /\ client \in [Clients -> {"idle", "lock", "draw", "dead"}]
    BY <1>2 DEF HookInv, TypeOK, LockType, LockCounted
  <2> QED BY <1>2, <2>1, <2>2, ClientKeeps
<1> QED BY <1>1, <1>2

LEMMA HookInvariant == Spec => []HookInv
BY HookInitInv, HookNextInv, PTL DEF Spec

(* The stack and the exchange keep their types; the stack its bound.       *)
THEOREM HookTypeCorrect == Spec => []TypeOK
<1>1. HookInv => TypeOK
  BY DEF HookInv
<1> QED BY <1>1, HookInvariant, PTL

(* Whatever is nested in whatever, hook_msg works on the message of its    *)
(* own hook, and a WM_CREATE on its own pCtlData.                          *)
THEOREM OwnMessageHolds == Spec => []OwnMessage
<1>1. HookInv => OwnMessage
  BY DEF HookInv
<1> QED BY <1>1, HookInvariant, PTL

(* EbHookGetWriteAccess and EbGetHookDataAccess never wait: the thread     *)
(* that would post what they wait for is the one that waits.               *)
THEOREM NeverWaitsHolds == Spec => []NeverWaitsForItself
<1>1. HookInv => NeverWaitsForItself
  BY DEF HookInv, Exchanged, NeverWaitsForItself
<1> QED BY <1>1, HookInvariant, PTL

(* In its message loop the daemon has no request on global_lock left,      *)
(* though hook_msg releases what it has not requested and requests fail.   *)
THEOREM IdleReleasesLockHolds == Spec => []IdleReleasesLock
<1>1. ASSUME HookInv PROVE IdleReleasesLock
  <2>1. stack = <<>> => Begun <= 0 /\ Begun \in Int
    BY EmptySeq DEF Begun
  <2>2. lock.count \in Nat /\ (lock.owner = Daemon => lock.count # 0)
    BY <1>1, HookAssumption DEF HookInv, TypeOK, LockCounted
  <2> HIDE DEF Begun
  <2> QED BY <1>1, <2>1, <2>2 DEF HookInv, LockCounted, IdleReleasesLock
<1> QED BY <1>1, HookInvariant, PTL
-----------------------------------------------------------------------------
(* Who has got global_lock keeps it.  Messages are numbered from the bottom *)
(* of the stack to its top, and those that a hook has handed over are not   *)
(* newer than msgxchange.                                                   *)
Numbered ==
  /\ msgxchange <= nmsgs
  /\ \A i \in 1 .. Len(stack) :
        /\ stack[i].msg <= nmsgs
        /\ stack[i].got => stack[i].pc = "body"
        /\ stack[i].pc \in {"read", "enter", "hookmsg"} => stack[i].msg <= msgxchange
  /\ \A i, j \in 1 .. Len(stack) : i < j => stack[i].msg < stack[j].msg

(* Above a handler that has the lock and in which no hook has run there are *)
(* only handlers that have requested it again, each of them once.           *)
Undisturbed(i) == stack[i].got /\ msgxchange < stack[i].msg
LockKept ==
  \A i \in 1 .. Len(stack) : Undisturbed(i) =>
    /\ lock.owner = Daemon /\ ~lockDead
    /\ \A j \in i .. Len(stack) :
          /\ stack[j].pc = "body" => stack[j].got
          /\ stack[j].got => j - i < lock.count

KeptInv == HookInv /\ Numbered /\ LockKept

(* What the proofs below need of the types.                                *)
LEMMA KeptTypes ==
  ASSUME HookInv
  PROVE  /\ stack \in Seq(Frames) /\ Len(stack) \in Nat
         /\ msgxchange \in Nat /\ nmsgs \in Nat /\ lock.count \in Nat
         /\ \A i \in 1 .. Len(stack) : /\ stack[i].msg \in Nat /\ stack[i].got \in BOOLEAN
                                       /\ stack[i].pc \in Places
<1>1. stack \in Seq(Frames)
  BY DEF HookInv, TypeOK, Frames, Places
<1>2. \A i \in 1 .. Len(stack) : stack[i] \in Frames
  BY <1>1, ElementOfSeq
<1>3. Len(stack) \in Nat
  BY <1>1, LenProperties
<1>4. msgxchange \in Nat /\ nmsgs \in Nat /\ lock.count \in Nat
  BY HookAssumption DEF HookInv, TypeOK
<1>5. \A i \in 1 .. Len(stack) : /\ stack[i].msg \in Nat /\ stack[i].got \in BOOLEAN
                                 /\ stack[i].pc \in Places
  BY <1>2, HookAssumption DEF Frames
<1> QED BY <1>1, <1>3, <1>4, <1>5

LEMMA ArrivingKept ==
  ASSUME KeptInv, NEW f \in Frames, Push(f), f.pc \in {"lock", "write"}, ~f.got,
         f.msg = nmsgs', nmsgs' = nmsgs + 1, UNCHANGED <<msgxchange, lockvars>>
  PROVE  Numbered' /\ LockKept'
<1>1. HookInv /\ Numbered /\ LockKept
  BY DEF KeptInv
<1>2. /\ stack \in Seq(Frames) /\ Len(stack) \in Nat /\ msgxchange \in Nat /\ nmsgs \in Nat
      /\ \A i \in 1 .. Len(stack) : stack[i].msg \in Nat
  BY <1>1, KeptTypes
<1>3. /\ Len(stack') = Len(stack) + 1 /\ stack'[Len(stack) + 1] = f
      /\ \A i \in 1 .. Len(stack) : stack'[i] = stack[i]
  BY <1>2, PushIs
<1>4. Numbered'
  <2>1. \A i \in 1 .. Len(stack') :
           \/ i \in 1 .. Len(stack) /\ stack'[i] = stack[i] /\ stack'[i].msg <= nmsgs
           \/ i = Len(stack) + 1 /\ stack'[i] = f
    BY <1>1, <1>2, <1>3 DEF Numbered
  <2>2. msgxchange' <= nmsgs'
    BY <1>1, <1>2 DEF Numbered
  <2>3. \A i \in 1 .. Len(stack') :
           /\ stack'[i].msg <= nmsgs'
           /\ stack'[i].got => stack'[i].pc = "body"
           /\ stack'[i].pc \in {"read", "enter", "hookmsg"} => stack'[i].msg <= msgxchange'
    BY <1>1, <1>2, <2>1 DEF Numbered
  <2>4. \A i, j \in 1 .. Len(stack') : i < j => stack'[i].msg < stack'[j].msg
    <3> SUFFICES ASSUME NEW i \in 1 .. Len(stack'), NEW j \in 1 .. Len(stack'), i < j
                 PROVE  stack'[i].msg < stack'[j].msg
      OBVIOUS
    <3>1. i \in 1 .. Len(stack) /\ stack'[i] = stack[i] /\ stack'[i].msg <= nmsgs
      BY <1>2, <1>3, <2>1
    <3>2. CASE j \in 1 .. Len(stack) /\ stack'[j] = stack[j]
      BY <1>1, <3>1, <3>2 DEF Numbered
    <3>3. CASE stack'[j] = f
      BY <1>2, <3>1, <3>3
    <3> QED BY <2>1, <3>2, <3>3
  <2> QED BY <2>2, <2>3, <2>4 DEF Numbered
<1>5. LockKept'
  <2> SUFFICES ASSUME NEW i \in 1 .. Len(stack'), Undisturbed(i)'
               PROVE  /\ lock.owner = Daemon /\ ~lockDead
                      /\ \A j \in i .. Len(stack') :
                            /\ stack'[j].pc = "body" => stack'[j].got
                            /\ stack'[j].got => j - i < lock.count
    BY DEF LockKept, lockvars
  <2>1. i \in 1 .. Len(stack) /\ Undisturbed(i)
    BY <1>2, <1>3 DEF Undisturbed
  <2>2. /\ lock.owner = Daemon /\ ~lockDead
        /\ \A j \in i .. Len(stack) : /\ stack[j].pc = "body" => stack[j].got
                                      /\ stack[j].got => j - i < lock.count
    BY <1>1, <2>1 DEF LockKept
  <2>3. \A j \in i .. Len(stack') :
           \/ j \in i .. Len(stack) /\ stack'[j] = stack[j]
           \/ stack'[j] = f
    BY <1>2, <1>3, <2>1
  <2>4. \A j \in i .. Len(stack') : /\ stack'[j].pc = "body" => stack'[j].got
                                    /\ stack'[j].got => j - i < lock.count
    <3> SUFFICES ASSUME NEW j \in i .. Len(stack')
                 PROVE  /\ stack'[j].pc = "body" => stack'[j].got
                        /\ stack'[j].got => j - i < lock.count
      OBVIOUS
    <3>1. CASE j \in i .. Len(stack) /\ stack'[j] = stack[j]
      BY <2>2, <3>1, Zenon
    <3>2. CASE stack'[j] = f
      <4>1. f.pc # "body" /\ ~f.got
        OBVIOUS
      <4> QED BY <3>2, <4>1, Zenon
    <3> QED BY <2>3, <3>1, <3>2, Zenon
  <2> QED BY <2>2, <2>4
<1> QED BY <1>4, <1>5

(* A hook hands its message over: nobody below it is undisturbed then.     *)
LEMMA ExchangingKept ==
  ASSUME KeptInv, Top.pc \in {"write", "read", "enter"}, NEW f \in Frames, SetTop(f),
         f.msg = Top.msg, f.got = Top.got, f.pc \in {"read", "enter", "hookmsg"},
         msgxchange' = Top.msg, UNCHANGED nmsgs
  PROVE  Numbered' /\ LockKept'
<1>1. HookInv /\ Numbered /\ LockKept
  BY DEF KeptInv
<1>2. /\ stack \in Seq(Frames) /\ Len(stack) \in Nat /\ msgxchange \in Nat /\ nmsgs \in Nat
      /\ \A i \in 1 .. Len(stack) : stack[i].msg \in Nat /\ stack[i].got \in BOOLEAN
  BY <1>1, KeptTypes
<1>3. stack # <<>> /\ Len(stack) \in Nat \ {0} /\ Top = stack[Len(stack)]
  BY <1>1, TopIsFrame
<1>4. /\ Len(stack') = Len(stack) /\ stack'[Len(stack)] = f
      /\ \A i \in 1 .. Len(stack) - 1 : stack'[i] = stack[i]
  BY <1>2, <1>3, SetTopIs
<1>5. \A i \in 1 .. Len(stack) : stack'[i].msg = stack[i].msg /\ stack'[i].got = stack[i].got
  BY <1>3, <1>4
<1>6. ~Top.got /\ Len(stack) \in 1 .. Len(stack)
  BY <1>1, <1>3 DEF Numbered
<1>7. \A i \in 1 .. Len(stack) : stack[i].msg <= Top.msg
  BY <1>1, <1>2, <1>3, <1>6 DEF Numbered
<1>8. \A i \in 1 .. Len(stack) : stack'[i].got => stack'[i].pc = "body"
  BY <1>1, <1>3, <1>4, <1>6 DEF Numbered
<1>9. Numbered'
  <2>1. \A i \in 1 .. Len(stack) : stack'[i].msg <= msgxchange' /\ stack'[i].msg <= nmsgs'
    BY <1>1, <1>5, <1>7 DEF Numbered
  <2>2. msgxchange' <= nmsgs'
    BY <1>1, <1>3, <1>6 DEF Numbered
  <2>3. \A i, j \in 1 .. Len(stack) : i < j => stack'[i].msg < stack'[j].msg
    BY <1>1, <1>5 DEF Numbered
  <2> QED BY <1>4, <1>8, <2>1, <2>2, <2>3 DEF Numbered
<1>10. \A i \in 1 .. Len(stack') : ~Undisturbed(i)'
  BY <1>2, <1>3, <1>4, <1>5, <1>6, <1>7 DEF Undisturbed
<1> QED BY <1>9, <1>10 DEF LockKept

(* The handler on top of the stack has got the lock, perhaps once more.    *)
LEMMA GetHookAccessKept ==
  ASSUME KeptInv, GetHookAccess
  PROVE  Numbered' /\ LockKept'
<1>1. HookInv /\ Numbered /\ LockKept
  BY DEF KeptInv
<1> DEFINE f == [Top EXCEPT !.pc = "body", !.got = TRUE]
<1>2. /\ Top.pc = "lock" /\ SetTop(f) /\ msgxchange' = msgxchange /\ nmsgs' = nmsgs
      /\ lock' = [owner |-> Daemon, count |-> lock.count + 1]
      /\ ~lockDead /\ lockDead' = lockDead
  BY DEF GetHookAccess, Request, exchange
<1>3. /\ stack \in Seq(Frames) /\ Len(stack) \in Nat /\ msgxchange \in Nat /\ nmsgs \in Nat
      /\ lock.count \in Nat
      /\ \A i \in 1 .. Len(stack) : /\ stack[i].msg \in Nat /\ stack[i].got \in BOOLEAN
                                    /\ stack[i].pc \in Places
  BY <1>1, KeptTypes
<1>4. /\ stack # <<>> /\ Len(stack) \in Nat \ {0} /\ Top = stack[Len(stack)]
      /\ Top \in Frames
  BY <1>1, <1>2, TopIsFrame
<1>5. f \in Frames /\ f.msg = Top.msg /\ f.pc = "body" /\ f.got
  BY <1>4 DEF Frames, Places
<1> HIDE DEF f
<1>6. /\ Len(stack') = Len(stack) /\ stack'[Len(stack)] = f
      /\ \A i \in 1 .. Len(stack) - 1 : stack'[i] = stack[i]
  BY <1>2, <1>3, <1>4, <1>5, SetTopIs
<1>7. \A i \in 1 .. Len(stack) : stack'[i].msg = stack[i].msg
  BY <1>4, <1>5, <1>6
<1>8. Numbered'
  <2>1. \A i \in 1 .. Len(stack) : \/ stack'[i] = stack[i]
                                   \/ stack'[i] = f
    BY <1>3, <1>4, <1>6
  <2>2. msgxchange' <= nmsgs' /\ \A i \in 1 .. Len(stack) : stack'[i].msg <= nmsgs'
    BY <1>1, <1>2, <1>7 DEF Numbered
  <2>3. ASSUME NEW i \in 1 .. Len(stack)
        PROVE  /\ stack'[i].got => stack'[i].pc = "body"
               /\ stack'[i].pc \in {"read", "enter", "hookmsg"} => stack'[i].msg <= msgxchange'
    <3>1. CASE stack'[i] = stack[i]
      BY <1>1, <1>2, <3>1 DEF Numbered
    <3>2. CASE stack'[i] = f
      BY <1>5, <3>2
    <3> QED BY <2>1, <3>1, <3>2
  <2>4. \A i, j \in 1 .. Len(stack) : i < j => stack'[i].msg < stack'[j].msg
    BY <1>1, <1>7 DEF Numbered
  <2> QED BY <1>6, <2>2, <2>3, <2>4 DEF Numbered
<1>9. LockKept'
  <2> SUFFICES ASSUME NEW i \in 1 .. Len(stack), Undisturbed(i)', NEW j \in i .. Len(stack)
               PROVE  /\ stack'[j].pc = "body" => stack'[j].got
                      /\ stack'[j].got => j - i < lock.count + 1
    BY <1>2, <1>6 DEF LockKept
  <2>1. CASE i = Len(stack)
    BY <1>3, <1>4, <1>5, <1>6, <2>1
  <2>2. CASE i # Len(stack)
    <3>1. i \in 1 .. Len(stack) - 1 /\ Undisturbed(i)
      BY <1>2, <1>3, <1>6, <2>2 DEF Undisturbed
    <3>2. /\ lock.count \in Nat
          /\ \A k \in i .. Len(stack) : /\ stack[k].pc = "body" => stack[k].got
                                        /\ stack[k].got => k - i < lock.count
      BY <1>1, <1>3, <3>1 DEF LockKept
    <3>3. CASE j # Len(stack)
      <4>1. j \in i .. Len(stack) - 1 /\ stack'[j] = stack[j]
        BY <1>3, <1>6, <3>3
      <4> QED BY <3>2, <4>1
    <3>4. CASE j = Len(stack)
      <4> DEFINE k == Len(stack) - 1
      <4>1. /\ k \in 1 .. Len(stack) - 1 /\ k \in i .. Len(stack) /\ k \in 1 .. Len(stack)
            /\ i \in 1 .. Len(stack) /\ i <= k
        BY <1>4, <3>1
      <4>0. k = Len(stack) - 1
        OBVIOUS
      <4> HIDE DEF k
      <4>2. stack[k].pc \in {"body", "hookmsg"}
        BY <1>1, <4>1 DEF HookInv, Buried
      <4>3. i = k \/ stack[i].msg < stack[k].msg
        BY <1>1, <1>3, <4>1 DEF Numbered
      <4>4. msgxchange < stack[k].msg
        BY <1>3, <3>1, <4>1, <4>3 DEF Undisturbed
      <4>5. stack[k].pc = "body"
        BY <1>1, <1>3, <4>1, <4>2, <4>4 DEF Numbered
      <4>6. k - i < lock.count
        BY <3>2, <4>1, <4>5
      <4> QED BY <1>3, <1>5, <1>6, <3>1, <3>2, <3>4, <4>0, <4>6
    <3> QED BY <3>3, <3>4
  <2> QED BY <2>1, <2>2
<1> QED BY <1>8, <1>9

(* A request fails only where nobody below is undisturbed.                 *)
LEMMA GetHookAccessFailsKept ==
  ASSUME KeptInv, GetHookAccessFails
  PROVE  Numbered' /\ LockKept'
<1>1. HookInv /\ Numbered /\ LockKept
  BY DEF KeptInv
<1> DEFINE f == [Top EXCEPT !.pc = "body", !.got = FALSE]
<1>2. /\ Top.pc = "lock" /\ SetTop(f) /\ msgxchange' = msgxchange /\ nmsgs' = nmsgs
      /\ ~(lock.owner = Daemon /\ ~lockDead)
  BY DEF GetHookAccessFails, CannotRequest, exchange
<1>3. /\ stack \in Seq(Frames) /\ Len(stack) \in Nat /\ msgxchange \in Nat /\ nmsgs \in Nat
      /\ \A i \in 1 .. Len(stack) : stack[i].msg \in Nat
  BY <1>1, KeptTypes
<1>4. /\ stack # <<>> /\ Len(stack) \in Nat \ {0} /\ Top = stack[Len(stack)]
      /\ Top \in Frames
  BY <1>1, <1>2, TopIsFrame
<1>5. f \in Frames /\ f.msg = Top.msg /\ f.pc = "body" /\ ~f.got
  BY <1>4 DEF Frames, Places
<1> HIDE DEF f
<1>6. /\ Len(stack') = Len(stack) /\ stack'[Len(stack)] = f
      /\ \A i \in 1 .. Len(stack) - 1 : stack'[i] = stack[i]
  BY <1>2, <1>3, <1>4, <1>5, SetTopIs
<1>7. \A i \in 1 .. Len(stack) : stack'[i].msg = stack[i].msg
  BY <1>4, <1>5, <1>6
<1>8. Numbered'
  <2>1. \A i \in 1 .. Len(stack) : \/ stack'[i] = stack[i]
                                   \/ stack'[i] = f
    BY <1>3, <1>4, <1>6
  <2>2. msgxchange' <= nmsgs' /\ \A i \in 1 .. Len(stack) : stack'[i].msg <= nmsgs'
    BY <1>1, <1>2, <1>7 DEF Numbered
  <2>3. ASSUME NEW i \in 1 .. Len(stack)
        PROVE  /\ stack'[i].got => stack'[i].pc = "body"
               /\ stack'[i].pc \in {"read", "enter", "hookmsg"} => stack'[i].msg <= msgxchange'
    <3>1. CASE stack'[i] = stack[i]
      BY <1>1, <1>2, <3>1 DEF Numbered
    <3>2. CASE stack'[i] = f
      BY <1>5, <3>2
    <3> QED BY <2>1, <3>1, <3>2
  <2>4. \A i, j \in 1 .. Len(stack) : i < j => stack'[i].msg < stack'[j].msg
    BY <1>1, <1>7 DEF Numbered
  <2> QED BY <1>6, <2>2, <2>3, <2>4 DEF Numbered
<1>9. \A i \in 1 .. Len(stack) : ~Undisturbed(i)
  BY <1>1, <1>2 DEF LockKept
<1>10. \A i \in 1 .. Len(stack') : ~Undisturbed(i)'
  BY <1>2, <1>3, <1>4, <1>5, <1>6, <1>9 DEF Undisturbed
<1> QED BY <1>8, <1>10 DEF LockKept

(* A handler gives back its own request, hook_msg one that is nobody's who *)
(* is undisturbed.                                                         *)
LEMMA ReturningKept ==
  ASSUME KeptInv, Top.pc \in {"body", "hookmsg"}, Pop, lock' = Released(Daemon),
         UNCHANGED <<nmsgs, exchange, lockDead>>
  PROVE  Numbered' /\ LockKept'
<1>1. HookInv /\ Numbered /\ LockKept
  BY DEF KeptInv
<1>2. /\ stack \in Seq(Frames) /\ Len(stack) \in Nat /\ msgxchange \in Nat /\ nmsgs \in Nat
      /\ lock.count \in Nat
      /\ \A i \in 1 .. Len(stack) : stack[i].msg \in Nat
  BY <1>1, KeptTypes
<1>3. stack # <<>> /\ Len(stack) \in Nat \ {0} /\ Top = stack[Len(stack)]
  BY <1>1, TopIsFrame
<1>4. /\ Len(stack') = Len(stack) - 1
      /\ \A i \in 1 .. Len(stack) - 1 : stack'[i] = stack[i]
  BY <1>2, <1>3, PopIs
<1>5. msgxchange' = msgxchange /\ nmsgs' = nmsgs /\ lockDead' = lockDead
  BY DEF exchange
<1>6. Numbered'
  <2>1. \A i \in 1 .. Len(stack') : i \in 1 .. Len(stack) /\ stack'[i] = stack[i]
    BY <1>2, <1>4
  <2> QED BY <1>1, <1>5, <2>1 DEF Numbered
<1>7. LockKept'
  <2> SUFFICES ASSUME NEW i \in 1 .. Len(stack) - 1, Undisturbed(i)'
               PROVE  /\ lock'.owner = Daemon /\ ~lockDead
                      /\ \A j \in i .. Len(stack) - 1 :
                            /\ stack[j].pc = "body" => stack[j].got
                            /\ stack[j].got => j - i < lock'.count
    BY <1>2, <1>4, <1>5 DEF LockKept
  <2>1. Undisturbed(i) /\ i \in 1 .. Len(stack)
    BY <1>2, <1>4, <1>5 DEF Undisturbed
  <2>2. /\ lock.owner = Daemon /\ ~lockDead
        /\ \A j \in i .. Len(stack) : /\ stack[j].pc = "body" => stack[j].got
                                      /\ stack[j].got => j - i < lock.count
    BY <1>1, <2>1 DEF LockKept
  <2>3. Len(stack) \in i .. Len(stack) /\ Len(stack) \in 1 .. Len(stack) /\ i < Len(stack)
    BY <1>3
  <2>4. msgxchange < Top.msg
    BY <1>1, <1>2, <1>3, <2>1, <2>3 DEF Numbered, Undisturbed
  <2>5. Top.pc = "body"
    BY <1>1, <1>2, <1>3, <2>3, <2>4 DEF Numbered
  <2>6. Len(stack) - i < lock.count
    BY <1>3, <2>2, <2>3, <2>5
  <2>7. lock.count # 1
    BY <1>2, <2>3, <2>6
  <2>8. lock' = [lock EXCEPT !.count = @ - 1] /\ lock \in LockType
    BY <1>1, <2>2, <2>7 DEF Released, HookInv, TypeOK, LockType
  <2>9. lock'.owner = Daemon /\ lock'.count = lock.count - 1
    BY <2>2, <2>8 DEF LockType
  <2>10. \A j \in i .. Len(stack) - 1 : j \in i .. Len(stack) /\ j - i < lock'.count
    BY <1>2, <2>6, <2>9
  <2> QED BY <2>2, <2>9, <2>10
<1> QED BY <1>6, <1>7

(* A client takes or releases no lock of the daemon's, nor does one die    *)
(* with it.                                                                *)
LEMMA ClientKept ==
  ASSUME KeptInv, NEW c \in Clients, ClientStep(c)
  PROVE  Numbered' /\ LockKept'
<1>1. HookInv /\ Numbered /\ LockKept
  BY DEF KeptInv
<1>2. stack' = stack /\ nmsgs' = nmsgs /\ msgxchange' = msgxchange
  BY DEF ClientStep, DrawBegin, DrawLock, DrawLockFails, DrawEnd, CopyPlaneRefused, Die,
         exchange
<1>3. c # Daemon /\ Daemon # Nobody
  BY HookAssumption
<1>4. lock.owner = Daemon /\ ~lockDead => lock' = lock /\ ~lockDead'
  BY <1>3 DEF ClientStep, DrawBegin, DrawLock, DrawLockFails, DrawEnd, CopyPlaneRefused,
              Die, Request, Released, lockvars
<1>5. Numbered'
  BY <1>1, <1>2 DEF Numbered
<1>6. LockKept'
  BY <1>1, <1>2, <1>4 DEF LockKept, Undisturbed
<1> QED BY <1>5, <1>6

LEMMA ArrivalKept == ASSUME KeptInv, Arrival PROVE Numbered' /\ LockKept'
<1>1. nmsgs \in 0..MaxMsgs /\ nmsgs < MaxMsgs /\ nmsgs' = nmsgs + 1
      /\ UNCHANGED <<msgxchange, lockvars>>
  BY DEF KeptInv, HookInv, TypeOK, Arrival, UmMessage, WindowMessage, Hook, CreateHook,
         exchange
<1>2. nmsgs' \in 1..MaxMsgs /\ 0 \in 0..MaxMsgs
  BY <1>1, HookAssumption
<1>3. PICK call \in {"um", "wnd", "hook"}, pc \in {"lock", "write"}, create \in BOOLEAN :
        Push(Frame(call, pc, nmsgs', create))
  BY Zenon DEF Arrival, UmMessage, WindowMessage, Hook, CreateHook
<1> DEFINE f == Frame(call, pc, nmsgs', create)
<1>4. f \in Frames /\ f.pc \in {"lock", "write"} /\ ~f.got /\ f.msg = nmsgs'
  BY <1>2 DEF Frame, NoFrame, Frames, Places
<1> HIDE DEF f
<1> QED BY <1>1, <1>3, <1>4, ArrivingKept DEF f

LEMMA GoOnKept == ASSUME KeptInv, GoOn PROVE Numbered' /\ LockKept'
<1>1. HookInv
  BY DEF KeptInv
<1>2. CASE WriteMessage \/ ReadMessage \/ EnterHookMsg
  <2>1. Top.pc \in {"write", "read", "enter"} /\ UNCHANGED nmsgs /\ msgxchange' = Top.msg
    BY <1>1, <1>2 DEF WriteMessage, ReadMessage, EnterHookMsg, exchange, HookInv, Exchanged
  <2>2. Top \in Frames
    BY <1>1, <2>1, TopIsFrame
  <2>3. msgxchange \in 0..MaxMsgs /\ msgparameter \in 0..MaxMsgs /\ 0 \in 0..MaxMsgs
    BY <1>1, HookAssumption DEF HookInv, TypeOK
  <2>4. CASE WriteMessage
    <3> DEFINE f == [Top EXCEPT !.pc = "read"]
    <3>1. f \in Frames /\ f.msg = Top.msg /\ f.got = Top.got /\ f.pc = "read"
      BY <2>2 DEF Frames, Places
    <3>2. SetTop(f)
      BY <2>4 DEF WriteMessage
    <3> HIDE DEF f
    <3> QED BY <2>1, <3>1, <3>2, ExchangingKept
  <2>5. CASE ReadMessage
    <3> DEFINE f == [Top EXCEPT !.pc = "enter", !.arg = msgxchange]
    <3>1. f \in Frames /\ f.msg = Top.msg /\ f.got = Top.got /\ f.pc = "enter"
      BY <2>2, <2>3 DEF Frames, Places
    <3>2. SetTop(f)
      BY <2>5 DEF ReadMessage
    <3> HIDE DEF f
    <3> QED BY <2>1, <3>1, <3>2, ExchangingKept
  <2>6. CASE EnterHookMsg
    <3> DEFINE f == [Top EXCEPT !.pc = "hookmsg",
                                !.param = IF Top.create THEN msgparameter ELSE 0]
    <3>1. f \in Frames /\ f.msg = Top.msg /\ f.got = Top.got /\ f.pc = "hookmsg"
      BY <2>2, <2>3 DEF Frames, Places
    <3>2. SetTop(f)
      BY <2>6 DEF EnterHookMsg
    <3> HIDE DEF f
    <3> QED BY <2>1, <3>1, <3>2, ExchangingKept
  <2> QED BY <1>2, <2>4, <2>5, <2>6
<1>3. CASE EndHandler \/ LeaveHookMsg
  BY <1>3, ReturningKept DEF EndHandler, LeaveHookMsg
<1> QED BY <1>2, <1>3, GetHookAccessKept, GetHookAccessFailsKept DEF GoOn

LEMMA KeptInvariant == Spec => []KeptInv
<1>1. Init => KeptInv
  <2> SUFFICES ASSUME Init PROVE Numbered /\ LockKept
    BY HookInitInv DEF KeptInv
  <2>1. Len(stack) = 0 /\ msgxchange = 0 /\ nmsgs = 0
    BY EmptySeq DEF Init
  <2> QED BY <2>1 DEF Numbered, LockKept
<1>2. KeptInv /\ [Next]_vars => KeptInv'
  <2> SUFFICES ASSUME KeptInv, [Next]_vars PROVE KeptInv'
    OBVIOUS
  <2>1. HookInv'
    BY HookNextInv DEF KeptInv
  <2>2. CASE Next
    BY <2>1, <2>2, ArrivalKept, GoOnKept, ClientKept DEF Next, KeptInv
  <2>3. CASE UNCHANGED vars
    BY <2>1, <2>3 DEF vars, exchange, lockvars, KeptInv, Numbered, LockKept, Undisturbed
  <2> QED BY <2>2, <2>3
<1> QED BY <1>1, <1>2, PTL DEF Spec

(* A handler that has got global_lock keeps it to its end unless a hook    *)
(* has run inside it, for any nesting and whatever clients do or die with. *)
THEOREM HandlerKeepsLockHolds == Spec => []HandlerKeepsLock
<1>1. KeptInv => HandlerKeepsLock
  BY DEF KeptInv, LockKept, Undisturbed, HandlerKeepsLock
<1> QED BY <1>1, KeptInvariant, PTL
=============================================================================
