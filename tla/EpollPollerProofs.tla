-------------------------- MODULE EpollPollerProofs --------------------------
(****************************************************************************)
(* Proofs about EpollPoller, for every set of channels and descriptors.     *)
(****************************************************************************)
EXTENDS EpollPoller, FiniteSetTheorems, SequenceTheorems, TLAPS

USE DEF registration, round

-----------------------------------------------------------------------------
(* Type correctness.                                                        *)

LEMMA InitType == Init => TypeOK
<1> SUFFICES ASSUME Init PROVE TypeOK
  OBVIOUS
<1>1. interest \in [Fds -> [ptr : Channels \cup {NULL}, mask : SUBSET Interest]]
  BY DEF Init, NoEntry
<1>2. current \in [channel : Channels \cup {NULL}, input : BOOLEAN,
                  left : Seq(Kinds)]
  BY EmptySeq DEF Init, Idle
<1> QED
  BY <1>1, <1>2, SizeAssumption DEF Init, TypeOK

LEMMA CallbacksType ==
  ASSUME NEW c \in Channels, NEW revents
  PROVE  Callbacks(c, revents) \in Seq(Kinds)
<1>1. ASSUME NEW k \in Kinds, NEW b
      PROVE  Called(c, k, b) \in Seq(Kinds)
  BY DEF Called
<1> QED
  BY <1>1, ConcatProperties DEF Callbacks, Kinds

LEMMA UpdateType ==
  ASSUME TypeOK, NEW c \in exists, NEW ev \in SUBSET Interest, NEW op,
         Update(op, c, ev)
  PROVE  /\ interest' \in [Fds -> [ptr : Channels \cup {NULL},
                                   mask : SUBSET Interest]]
         /\ fatal' \in BOOLEAN
  BY DEF TypeOK, Update, exists, NoEntry

LEMMA UpdateChannelType ==
  ASSUME TypeOK, NEW c \in Channels, NEW ev \in SUBSET Interest,
         UpdateChannel(c, ev)
  PROVE  TypeOK'
<1>1. c \in exists /\ fd_[c] \in Fds
  BY DEF UpdateChannel, exists, TypeOK
<1>2. /\ interest' \in [Fds -> [ptr : Channels \cup {NULL}, mask : SUBSET Interest]]
      /\ fatal' \in BOOLEAN
  BY <1>1, UpdateType DEF UpdateChannel
<1>3. state_' \in [Channels -> {"initialized", "added", "removed"}]
  BY <1>1, Zenon DEF UpdateChannel, TypeOK
<1>4. channels_' \in [Fds -> Channels \cup {NULL}]
  BY <1>1 DEF UpdateChannel, TypeOK
<1>5. events_' \in [Channels -> SUBSET Interest]
  BY <1>1 DEF UpdateChannel, TypeOK
<1> QED
  BY <1>2, <1>3, <1>4, <1>5 DEF UpdateChannel, TypeOK

LEMMA GoneType ==
  ASSUME TypeOK, NEW c, Gone(c)
  PROVE  /\ fd_' \in [Channels -> Fds \cup {NULL}]
         /\ events_' \in [Channels -> SUBSET Interest]
         /\ interest' \in [Fds -> [ptr : Channels \cup {NULL},
                                   mask : SUBSET Interest]]
         /\ UNCHANGED <<state_, channels_, fatal, size, active>>
         /\ c \in Channels
<1>1. c \in Channels /\ fd_[c] \in Fds
  BY DEF Gone, exists, TypeOK
<1>2. NoEntry \in [ptr : Channels \cup {NULL}, mask : SUBSET Interest]
  BY DEF NoEntry
<1> QED
  BY <1>1, <1>2 DEF Gone, TypeOK

(* Every step keeps the types.                                              *)
LEMMA NextType == TypeOK /\ [Next]_vars => TypeOK'
<1> SUFFICES ASSUME TypeOK, [Next]_vars PROVE TypeOK'
  OBVIOUS
<1>1. ASSUME NEW c \in Channels, NEW fd \in Fds, Create(c, fd)
      PROVE  TypeOK'
  BY <1>1 DEF Create, TypeOK
<1>2. ASSUME NEW c \in Channels, Destroy(c)
      PROVE  TypeOK'
  BY <1>2, GoneType DEF Destroy, TypeOK
<1>3. ASSUME NEW c \in Channels, Change(c)
      PROVE  TypeOK'
  <2>1. ASSUME NEW ev \in SUBSET Interest, UpdateChannel(c, ev)
        PROVE  TypeOK'
    BY <2>1, UpdateChannelType
  <2>2. CASE Remove(c)
    <3>1. c \in exists /\ fd_[c] \in Fds
      BY <2>2 DEF Remove, exists, TypeOK
    <3>2. /\ interest' \in [Fds -> [ptr : Channels \cup {NULL},
                                   mask : SUBSET Interest]]
          /\ fatal' \in BOOLEAN
      <4>1. CASE state_[c] = "added"
        BY <2>2, <3>1, <4>1, UpdateType DEF Remove, TypeOK
      <4>2. CASE state_[c] # "added"
        BY <2>2, <4>2 DEF Remove, TypeOK
      <4> QED
        BY <4>1, <4>2
    <3> QED
      BY <2>2, <3>1, <3>2 DEF Remove, TypeOK
  <2>3. events_[c] \in SUBSET Interest
    BY DEF TypeOK
  <2> QED
    BY <1>3, <2>1, <2>2, <2>3
    DEF Change, enableReadEvent, disableReadEvent, enableWriteEvent,
        disableWriteEvent, disableAllEvent, Interest
<1>4. ASSUME NEW c \in Channels, HandleEvent(c)
      PROVE  TypeOK'
  <2> DEFINE now == [channel |-> c, input |-> active[c] \cap {"IN", "PRI"} # {},
                     left |-> Callbacks(c, active[c])]
  <2>1. now \in [channel : Channels \cup {NULL}, input : BOOLEAN,
                 left : Seq(Kinds)]
    BY CallbacksType
  <2>2. current' = now
    BY <1>4 DEF HandleEvent
  <2> HIDE DEF now
  <2>3. active' \in [Channels -> SUBSET Flags]
    BY <1>4 DEF HandleEvent, TypeOK
  <2>4. running' \in {"user", "dispatch", "callback", "undefined"}
    BY <1>4 DEF HandleEvent, After
  <2> QED
    BY <1>4, <2>1, <2>2, <2>3, <2>4 DEF HandleEvent, TypeOK
<1>5. ASSUME NEW report \in [Registered -> SUBSET Flags], Poll(report)
      PROVE  TypeOK'
  <2>1. active' \in [Channels -> SUBSET Flags]
    BY <1>5 DEF Poll
  <2>2. size' \in Nat \ {0}
    BY <1>5 DEF Poll, Resized, TypeOK
  <2>3. running' \in {"user", "dispatch", "callback", "undefined"}
    BY <1>5 DEF Poll, After
  <2> QED
    BY <1>5, <2>1, <2>2, <2>3 DEF Poll, TypeOK
<1>6. CASE Call \/ EndRound
  BY <1>6 DEF Call, EndRound, TypeOK
<1>7. CASE Return
  <2>1. Idle \in [channel : Channels \cup {NULL}, input : BOOLEAN,
                  left : Seq(Kinds)]
    BY EmptySeq DEF Idle
  <2>2. current' \in [channel : Channels \cup {NULL}, input : BOOLEAN,
                      left : Seq(Kinds)]
    <3>1. CASE Len(current.left) <= 1
      BY <1>7, <2>1, <3>1 DEF Return
    <3>2. CASE ~(Len(current.left) <= 1)
      <4>1. current.left \in Seq(Kinds) /\ current.left # <<>>
        BY <3>2 DEF TypeOK
      <4>2. Tail(current.left) \in Seq(Kinds)
        BY <4>1, HeadTailProperties
      <4> QED
        BY <1>7, <3>2, <4>2 DEF Return, TypeOK
    <3> QED
      BY <3>1, <3>2
  <2>3. running' \in {"user", "dispatch", "callback", "undefined"}
    BY <1>7 DEF Return, After
  <2> QED
    BY <1>7, <2>2, <2>3 DEF Return, TypeOK
<1>8. CASE Release
  <2>1. Idle \in [channel : Channels \cup {NULL}, input : BOOLEAN,
                  left : Seq(Kinds)]
    BY EmptySeq DEF Idle
  <2> QED
    BY <1>8, <2>1, GoneType DEF Release, TypeOK
<1>9. CASE UNCHANGED vars
  BY <1>9 DEF vars, TypeOK
<1> QED
  BY <1>1, <1>2, <1>3, <1>4, <1>5, <1>6, <1>7, <1>8, <1>9 DEF Next

(* The poller's variables keep their types in every behaviour.              *)
THEOREM TypeCorrect == Spec => []TypeOK
  BY InitType, NextType, PTL DEF Spec

-----------------------------------------------------------------------------
(* Registration.                                                            *)

(* No two channels share a descriptor; with it the three registration       *)
(* properties are inductive.                                                *)
DistinctFds == \A c, d \in exists : fd_[c] = fd_[d] => c = d

Registration ==
  /\ DistinctFds
  /\ InterestMirrorsChannels
  /\ MapAgreesWithState
  /\ CtlNeverFatal

LEMMA InitRegistration == Init => Registration
  BY DEF Init, Registration, DistinctFds, InterestMirrorsChannels,
         MapAgreesWithState, CtlNeverFatal, exists, NoEntry

(* Under the invariant epoll_ctl() does what it is asked to do.             *)
LEMMA CtlSucceeds ==
  ASSUME TypeOK, Registration, NEW c \in exists
  PROVE  /\ fd_[c] \in Fds /\ c \in Channels /\ c # NULL
         /\ state_[c] = "added" => /\ ~CtlFails("MOD", fd_[c])
                                  /\ ~CtlFails("DEL", fd_[c])
         /\ state_[c] # "added" => ~CtlFails("ADD", fd_[c])
<1>1. fd_[c] \in Fds /\ c \in Channels /\ c # NULL
  BY NullAssumption DEF exists, TypeOK
<1>2. interest[fd_[c]] = IF state_[c] = "added"
                         THEN [ptr |-> c, mask |-> events_[c]] ELSE NoEntry
  BY DEF Registration, InterestMirrorsChannels
<1>3. state_[c] = "added" => interest[fd_[c]].ptr = c
  BY <1>2
<1>4. state_[c] # "added" => interest[fd_[c]].ptr = NULL
  BY <1>2 DEF NoEntry
<1> QED
  BY <1>1, <1>3, <1>4 DEF CtlFails

(* A step that changes the registration of one channel c, and leaves its    *)
(* state, its events, the map and the interest list in agreement at c,      *)
(* keeps the invariant.                                                     *)
LEMMA OneChannel ==
  ASSUME TypeOK, Registration, NEW c \in exists, NEW st, NEW ev, NEW entry,
         fd_' = fd_, ~fatal',
         state_' = [state_ EXCEPT ![c] = st],
         events_' = [events_ EXCEPT ![c] = ev],
         channels_' = [channels_ EXCEPT ![fd_[c]] = entry],
         entry = IF st = "initialized" THEN NULL ELSE c,
         interest' = [interest EXCEPT ![fd_[c]] =
                        IF st = "added" THEN [ptr |-> c, mask |-> ev] ELSE NoEntry]
  PROVE  Registration'
<1>1. fd_[c] \in Fds /\ c \in Channels /\ c # NULL
  BY CtlSucceeds
<1>2. exists' = exists
  BY DEF exists
<1>3. \A d \in exists : d # c => fd_[d] # fd_[c] /\ fd_[d] \in Fds /\ d \in Channels
  BY <1>1 DEF Registration, DistinctFds, TypeOK, exists
<1>4. DistinctFds'
  BY <1>2 DEF Registration, DistinctFds
<1>5. InterestMirrorsChannels'
  <2> DEFINE new == IF st = "added" THEN [ptr |-> c, mask |-> ev] ELSE NoEntry
  <2>1. interest'[fd_[c]] = new /\ state_'[c] = st /\ events_'[c] = ev
    BY <1>1 DEF TypeOK
  <2>2. \A fd \in Fds : fd # fd_[c] => interest'[fd] = interest[fd]
    BY DEF TypeOK
  <2>3. \A d \in Channels : d # c =>
          state_'[d] = state_[d] /\ events_'[d] = events_[d]
    BY DEF TypeOK
  <2>4. ASSUME NEW d \in exists
        PROVE  interest'[fd_[d]] = IF state_'[d] = "added"
                                   THEN [ptr |-> d, mask |-> events_'[d]]
                                   ELSE NoEntry
    <3>1. CASE d = c
      BY <2>1, <3>1
    <3>2. CASE d # c
      BY <1>3, <2>2, <2>3, <3>2 DEF Registration, InterestMirrorsChannels
    <3> QED
      BY <3>1, <3>2
  <2>5. ASSUME NEW fd \in Fds, interest'[fd] # NoEntry
        PROVE  interest'[fd].ptr \in exists /\ fd_[interest'[fd].ptr] = fd
    <3>1. CASE fd = fd_[c]
      BY <2>1, <2>5, <3>1
    <3>2. CASE fd # fd_[c]
      BY <2>2, <2>5, <3>2 DEF Registration, InterestMirrorsChannels
    <3> QED
      BY <3>1, <3>2
  <2> QED
    BY <1>2, <2>4, <2>5 DEF InterestMirrorsChannels, NoEntry
<1>6. MapAgreesWithState'
  BY <1>1, <1>2, <1>3
  DEF Registration, MapAgreesWithState, TypeOK, isChannelExist
<1> QED
  BY <1>4, <1>5, <1>6 DEF Registration, CtlNeverFatal

(* A step that changes no channel, no registration and no map entry.        *)
LEMMA SameRegistration ==
  ASSUME Registration, UNCHANGED <<fd_, registration>>
  PROVE  Registration'
  BY DEF Registration, DistinctFds, InterestMirrorsChannels,
         MapAgreesWithState, CtlNeverFatal, exists, isChannelExist

LEMMA UpdateChannelRegistration ==
  ASSUME TypeOK, Registration, NEW c \in Channels, NEW ev \in SUBSET Interest,
         UpdateChannel(c, ev)
  PROVE  Registration'
<1>1. c \in exists
  BY DEF UpdateChannel
<1>2. fd_[c] \in Fds /\ c # NULL
  BY <1>1, CtlSucceeds
<1>3. CASE state_[c] # "added"
  <2>1. interest' = [interest EXCEPT ![fd_[c]] = [ptr |-> c, mask |-> ev]] /\ ~fatal'
    BY <1>1, <1>3, CtlSucceeds DEF UpdateChannel, Update
  <2>2. channels_' = [channels_ EXCEPT ![fd_[c]] = c]
    <3>1. CASE state_[c] = "initialized"
      BY <1>3, <3>1 DEF UpdateChannel
    <3>2. CASE state_[c] # "initialized"
      <4>1. channels_[fd_[c]] = c
        BY <1>1, <3>2 DEF Registration, MapAgreesWithState, isChannelExist
      <4> QED
        BY <1>2, <1>3, <3>2, <4>1 DEF UpdateChannel, TypeOK
    <3> QED
      BY <3>1, <3>2
  <2>3. /\ state_' = [state_ EXCEPT ![c] = "added"]
        /\ events_' = [events_ EXCEPT ![c] = ev]
        /\ fd_' = fd_
    BY <1>3 DEF UpdateChannel
  <2> QED
    BY <1>1, <2>1, <2>2, <2>3, OneChannel
<1>4. CASE state_[c] = "added"
  <2>1. channels_[fd_[c]] = c
    BY <1>1, <1>4 DEF Registration, MapAgreesWithState, isChannelExist
  <2>2. channels_' = [channels_ EXCEPT ![fd_[c]] = c]
    BY <1>2, <1>4, <2>1 DEF UpdateChannel, TypeOK
  <2>3. events_' = [events_ EXCEPT ![c] = ev] /\ fd_' = fd_
    BY DEF UpdateChannel
  <2>4. CASE ev = {}
    <3>1. interest' = [interest EXCEPT ![fd_[c]] = NoEntry] /\ ~fatal'
      BY <1>1, <1>4, <2>4, CtlSucceeds DEF UpdateChannel, Update
    <3>2. state_' = [state_ EXCEPT ![c] = "removed"]
      BY <1>4, <2>4 DEF UpdateChannel
    <3> QED
      BY <1>1, <2>2, <2>3, <3>1, <3>2, OneChannel
  <2>5. CASE ev # {}
    <3>1. interest' = [interest EXCEPT ![fd_[c]] = [ptr |-> c, mask |-> ev]] /\ ~fatal'
      BY <1>1, <1>4, <2>5, CtlSucceeds DEF UpdateChannel, Update
    <3>2. state_' = [state_ EXCEPT ![c] = "added"]
      BY <1>4, <2>5 DEF UpdateChannel, TypeOK
    <3> QED
      BY <1>1, <2>2, <2>3, <3>1, <3>2, OneChannel
  <2> QED
    BY <2>4, <2>5
<1> QED
  BY <1>3, <1>4

LEMMA RemoveRegistration ==
  ASSUME TypeOK, Registration, NEW c \in Channels, Remove(c)
  PROVE  Registration'
<1>1. c \in exists /\ fd_[c] \in Fds /\ c # NULL
  BY CtlSucceeds DEF Remove
<1>2. interest' = [interest EXCEPT ![fd_[c]] = NoEntry] /\ ~fatal'
  <2>1. CASE state_[c] = "added"
    BY <1>1, <2>1, CtlSucceeds DEF Remove, Update
  <2>2. CASE state_[c] # "added"
    <3>1. interest[fd_[c]] = NoEntry
      BY <1>1, <2>2 DEF Registration, InterestMirrorsChannels
    <3>2. interest' = interest /\ fatal' = fatal /\ ~fatal
      BY <2>2 DEF Remove, Registration, CtlNeverFatal
    <3> QED
      BY <1>1, <3>1, <3>2 DEF TypeOK
  <2> QED
    BY <2>1, <2>2
<1>3. events_' = [events_ EXCEPT ![c] = events_[c]]
  BY DEF Remove, TypeOK
<1>4. /\ state_' = [state_ EXCEPT ![c] = "initialized"]
      /\ channels_' = [channels_ EXCEPT ![fd_[c]] = NULL]
      /\ fd_' = fd_
  BY DEF Remove
<1> QED
  BY <1>1, <1>2, <1>3, <1>4, OneChannel

LEMMA CreateRegistration ==
  ASSUME TypeOK, Registration, NEW c \in Channels, NEW fd \in Fds, Create(c, fd)
  PROVE  Registration'
<1>1. /\ fd # NULL /\ c # NULL /\ c \notin exists
      /\ exists' = exists \cup {c} /\ fd_'[c] = fd
      /\ \A d \in exists : fd_'[d] = fd_[d] /\ fd_[d] # fd
      /\ \A d \in exists : state_'[d] = state_[d] /\ events_'[d] = events_[d]
      /\ state_'[c] = "initialized"
  BY NullAssumption DEF Create, exists, TypeOK
<1>2. interest' = interest /\ channels_' = channels_ /\ fatal' = fatal
  BY DEF Create
<1>3. interest[fd] = NoEntry /\ channels_[fd] = NULL
  BY <1>1 DEF Registration, InterestMirrorsChannels, MapAgreesWithState
<1>4. DistinctFds'
  BY <1>1 DEF Registration, DistinctFds
<1>5. InterestMirrorsChannels'
  <2>1. ASSUME NEW d \in exists'
        PROVE  interest'[fd_'[d]] = IF state_'[d] = "added"
                                   THEN [ptr |-> d, mask |-> events_'[d]]
                                   ELSE NoEntry
    BY <1>1, <1>2, <1>3, <2>1 DEF Registration, InterestMirrorsChannels
  <2>2. ASSUME NEW e \in Fds, interest'[e] # NoEntry
        PROVE  interest'[e].ptr \in exists' /\ fd_'[interest'[e].ptr] = e
    BY <1>1, <1>2, <2>2 DEF Registration, InterestMirrorsChannels
  <2> QED
    BY <2>1, <2>2 DEF InterestMirrorsChannels, NoEntry
<1>6. MapAgreesWithState'
  BY <1>1, <1>2, <1>3 DEF Registration, MapAgreesWithState, isChannelExist
<1> QED
  BY <1>2, <1>4, <1>5, <1>6 DEF Registration, CtlNeverFatal

LEMMA GoneRegistration ==
  ASSUME TypeOK, Registration, NEW c, Gone(c)
  PROVE  Registration'
<1>1. c \in exists /\ fd_[c] \in Fds /\ c # NULL /\ state_[c] = "initialized"
  BY CtlSucceeds DEF Gone
<1>2. /\ exists' = exists \ {c}
      /\ \A d \in exists' : /\ fd_'[d] = fd_[d] /\ fd_[d] # fd_[c]
                            /\ fd_[d] \in Fds
                            /\ state_'[d] = state_[d] /\ events_'[d] = events_[d]
  BY <1>1 DEF Gone, exists, TypeOK, Registration, DistinctFds
<1>3. channels_' = channels_ /\ fatal' = fatal
  BY DEF Gone
<1>4. interest' = interest
  <2>1. interest[fd_[c]] = NoEntry
    BY <1>1 DEF Registration, InterestMirrorsChannels
  <2> QED
    BY <1>1, <2>1 DEF Gone, TypeOK
<1>5. DistinctFds'
  BY <1>2 DEF Registration, DistinctFds
<1>6. InterestMirrorsChannels'
  <2>1. ASSUME NEW d \in exists'
        PROVE  interest'[fd_'[d]] = IF state_'[d] = "added"
                                   THEN [ptr |-> d, mask |-> events_'[d]]
                                   ELSE NoEntry
    BY <1>2, <1>4, <2>1 DEF Registration, InterestMirrorsChannels
  <2>2. ASSUME NEW e \in Fds, interest'[e] # NoEntry
        PROVE  interest'[e].ptr \in exists' /\ fd_'[interest'[e].ptr] = e
    <3>1. /\ interest[e] # NoEntry /\ interest[e].ptr \in exists
          /\ fd_[interest[e].ptr] = e
      BY <1>4, <2>2 DEF Registration, InterestMirrorsChannels
    <3>2. interest[e].ptr # c
      BY <1>1, <3>1 DEF Registration, InterestMirrorsChannels
    <3> QED
      BY <1>2, <1>4, <3>1, <3>2
  <2> QED
    BY <2>1, <2>2 DEF InterestMirrorsChannels, NoEntry
<1>7. MapAgreesWithState'
  <2>1. channels_[fd_[c]] # c
    BY <1>1 DEF Registration, MapAgreesWithState, isChannelExist
  <2> QED
    BY <1>1, <1>2, <1>3, <2>1
    DEF Registration, MapAgreesWithState, isChannelExist
<1> QED
  BY <1>3, <1>5, <1>6, <1>7 DEF Registration, CtlNeverFatal

(* Every step keeps the registration invariant.                             *)
LEMMA NextRegistration ==
  TypeOK /\ Registration /\ [Next]_vars => Registration'
<1> SUFFICES ASSUME TypeOK, Registration, [Next]_vars PROVE Registration'
  OBVIOUS
<1>1. ASSUME NEW c \in Channels, NEW fd \in Fds, Create(c, fd)
      PROVE  Registration'
  BY <1>1, CreateRegistration
<1>2. ASSUME NEW c \in Channels, Destroy(c)
      PROVE  Registration'
  BY <1>2, GoneRegistration DEF Destroy
<1>3. ASSUME NEW c \in Channels, Change(c)
      PROVE  Registration'
  <2>1. events_[c] \in SUBSET Interest
    BY DEF TypeOK
  <2>2. ASSUME NEW ev \in SUBSET Interest, UpdateChannel(c, ev)
        PROVE  Registration'
    BY <2>2, UpdateChannelRegistration
  <2>3. CASE Remove(c)
    BY <2>3, RemoveRegistration
  <2> QED
    BY <1>3, <2>1, <2>2, <2>3
    DEF Change, enableReadEvent, disableReadEvent, enableWriteEvent,
        disableWriteEvent, disableAllEvent, Interest
<1>4. ASSUME NEW c \in Channels, HandleEvent(c)
      PROVE  Registration'
  BY <1>4, SameRegistration DEF HandleEvent
<1>5. ASSUME NEW report \in [Registered -> SUBSET Flags], Poll(report)
      PROVE  Registration'
  BY <1>5, SameRegistration DEF Poll
<1>6. CASE Call \/ Return \/ EndRound
  BY <1>6, SameRegistration DEF Call, Return, EndRound
<1>7. CASE Release
  BY <1>7, GoneRegistration DEF Release
<1>8. CASE UNCHANGED vars
  BY <1>8, SameRegistration DEF vars
<1> QED
  BY <1>1, <1>2, <1>3, <1>4, <1>5, <1>6, <1>7, <1>8 DEF Next

LEMMA RegistrationHolds == Spec => [](TypeOK /\ Registration)
  BY InitType, NextType, InitRegistration, NextRegistration, PTL DEF Spec

(* Whatever sequence of operations the owners of the channels call, the     *)
(* kernel watches exactly the channels that are added, with their events.   *)
THEOREM KernelMirrorsChannels == Spec => []InterestMirrorsChannels
<1>1. Registration => InterestMirrorsChannels
  BY DEF Registration
<1> QED
  BY <1>1, RegistrationHolds, PTL

(* isChannelExist() is right and the map holds no dead channel.             *)
THEOREM MapIsRight == Spec => []MapAgreesWithState
<1>1. Registration => MapAgreesWithState
  BY DEF Registration
<1> QED
  BY <1>1, RegistrationHolds, PTL

(* epoll_ctl() never fails in a way that ends the process.                  *)
THEOREM NoFatalCtl == Spec => []CtlNeverFatal
<1>1. Registration => CtlNeverFatal
  BY DEF Registration
<1> QED
  BY <1>1, RegistrationHolds, PTL

-----------------------------------------------------------------------------
(* The round.                                                               *)

(* What the loop still points at is there, or a callback took it away; the  *)
(* channel under handleEvent() has no event left, so giving up its last     *)
(* reference leaves no pointer behind.                                      *)
Round ==
  /\ RoundIsLive
  /\ \A c \in Channels : active[c] # {} => c \in exists \cup stale
  /\ running \in {"dispatch", "callback"} /\ current # Idle =>
       /\ current.channel \in Channels
       /\ current.channel \in exists \cup stale
       /\ active[current.channel] = {}
  /\ running = "callback" => current # Idle
  /\ running = "user" => current = Idle /\ \A c \in Channels : active[c] = {}

LEMMA InitRound == Init => Round
  BY DEF Init, Round, RoundIsLive

(* Once its descriptor is given away a channel is the only one that is not  *)
(* there any more.                                                          *)
LEMMA GoneAlone ==
  ASSUME TypeOK, NEW c, Gone(c)
  PROVE  exists' = exists \ {c} /\ active' = active
<1>1. c \in Channels /\ NULL \notin Channels
  BY NullAssumption DEF Gone, exists
<1> QED
  BY <1>1 DEF Gone, exists, TypeOK

LEMMA DestroyRound ==
  ASSUME TypeOK, Round, NEW c \in Channels, Destroy(c)
  PROVE  Round'
<1>1. /\ exists' = exists \ {c} /\ active' = active
      /\ UNCHANGED <<current, running>>
      /\ running # "undefined"
  BY GoneAlone DEF Destroy, UserCode
<1>2. stale \subseteq stale' /\ (PointsAt(c) => c \in stale')
  BY DEF Destroy
<1>3. active[c] # {} => c \in stale'
  BY <1>2 DEF PointsAt
<1>4. c = current.channel => c \in stale'
  BY <1>2 DEF Destroy, PointsAt
<1> QED
  BY <1>1, <1>2, <1>3, <1>4 DEF Round, RoundIsLive

LEMMA ReleaseRound ==
  ASSUME TypeOK, Round, Release
  PROVE  Round'
<1>1. /\ exists' = exists \ {current.channel} /\ active' = active
      /\ stale' = stale /\ current' = Idle /\ running' = "dispatch"
  BY GoneAlone DEF Release
<1>2. current # Idle /\ active[current.channel] = {}
  BY DEF Release, Round
<1> QED
  BY <1>1, <1>2 DEF Round, RoundIsLive

LEMMA HandleEventRound ==
  ASSUME TypeOK, Round, NEW c \in Channels, HandleEvent(c)
  PROVE  Round'
<1>1. exists' = exists /\ stale' = stale /\ c \in exists \cup stale
  BY DEF HandleEvent, Round, exists
<1>2. /\ active'[c] = {}
      /\ \A d \in Channels : active'[d] # {} => active[d] # {}
  BY DEF HandleEvent, TypeOK
<1>3. current'.channel = c
  BY DEF HandleEvent
<1>4. running' = IF c \in exists \ stale THEN "dispatch" ELSE "undefined"
  BY DEF HandleEvent, After
<1>5. running' = "undefined" => stale' # {}
  BY <1>1, <1>4
<1>6. running' \notin {"user", "callback"}
  BY <1>4
<1> QED
  BY <1>1, <1>2, <1>3, <1>5, <1>6 DEF Round, RoundIsLive

LEMMA PollRound ==
  ASSUME TypeOK, Registration, Round,
         NEW report \in [Registered -> SUBSET Flags], Poll(report)
  PROVE  Round'
<1>1. ASSUME NEW fd \in Registered
      PROVE  interest[fd].ptr \in exists
  BY <1>1 DEF Registered, NoEntry, Registration, InterestMirrorsChannels
<1>2. running' = "dispatch"
  BY <1>1 DEF Poll, After
<1>3. ASSUME NEW c \in Channels, active'[c] # {}
      PROVE  c \in exists
  <2>1. PICK fd \in Registered : interest[fd].ptr = c
    BY <1>3 DEF Poll
  <2> QED
    BY <1>1, <2>1
<1>4. exists' = exists /\ stale' = stale /\ current' = Idle
  BY DEF Poll, Round, exists
<1> QED
  BY <1>2, <1>3, <1>4 DEF Round, RoundIsLive

LEMMA ReturnRound ==
  ASSUME TypeOK, Round, Return
  PROVE  Round'
<1>1. /\ exists' = exists /\ stale' = stale /\ active' = active
      /\ current # Idle /\ current.channel \in exists \cup stale
  BY DEF Return, Round, exists
<1>2. current' = Idle \/ current'.channel = current.channel
  BY DEF Return, TypeOK
<1>3. /\ running' \in {"dispatch", "undefined"}
      /\ running' = "undefined" => current.channel \notin exists \ stale
  BY DEF Return, After
<1>4. running' = "undefined" => stale' # {}
  BY <1>1, <1>3
<1> QED
  BY <1>1, <1>2, <1>3, <1>4 DEF Round, RoundIsLive, Return

(* Every step keeps the round's invariant.                                  *)
LEMMA NextRound ==
  TypeOK /\ Registration /\ Round /\ [Next]_vars => Round'
<1> SUFFICES ASSUME TypeOK, Registration, Round, [Next]_vars PROVE Round'
  OBVIOUS
<1>1. ASSUME NEW c \in Channels, NEW fd \in Fds, Create(c, fd)
      PROVE  Round'
  <2>1. exists \subseteq exists'
    BY <1>1, NullAssumption DEF Create, exists, TypeOK
  <2> QED
    BY <1>1, <2>1 DEF Create, Round, RoundIsLive
<1>2. ASSUME NEW c \in Channels, Destroy(c)
      PROVE  Round'
  BY <1>2, DestroyRound
<1>3. ASSUME NEW c \in Channels, Change(c)
      PROVE  Round'
  <2>1. UNCHANGED <<fd_, round>>
    BY <1>3 DEF Change, enableReadEvent, disableReadEvent, enableWriteEvent,
                disableWriteEvent, disableAllEvent, UpdateChannel, Remove
  <2> QED
    BY <2>1 DEF Round, RoundIsLive, exists
<1>4. ASSUME NEW c \in Channels, HandleEvent(c)
      PROVE  Round'
  BY <1>4, HandleEventRound
<1>5. ASSUME NEW report \in [Registered -> SUBSET Flags], Poll(report)
      PROVE  Round'
  BY <1>5, PollRound
<1>6. CASE Call
  <2>1. current # Idle
    BY <1>6 DEF Call, Idle
  <2> QED
    BY <1>6, <2>1 DEF Call, Round, RoundIsLive, exists
<1>7. CASE EndRound
  BY <1>7 DEF EndRound, Round, RoundIsLive, exists
<1>8. CASE Return
  BY <1>8, ReturnRound
<1>9. CASE Release
  BY <1>9, ReleaseRound
<1>10. CASE UNCHANGED vars
  BY <1>10 DEF vars, Round, RoundIsLive, exists
<1> QED
  BY <1>1, <1>2, <1>3, <1>4, <1>5, <1>6, <1>7, <1>8, <1>9, <1>10 DEF Next

(* Whatever channels callbacks create, change and destroy, the loop uses a  *)
(* destroyed one only if a callback destroyed it with an event of the round *)
(* still to be handled, or destroyed an acceptor's inside its own callback. *)
THEOREM RoundStaysLive == Spec => []RoundIsLive
<1>1. Round => RoundIsLive
  BY DEF Round
<1> QED
  BY <1>1, InitType, NextType, InitRegistration, NextRegistration, InitRound,
     NextRound, PTL
  DEF Spec

(* The array for epoll_wait only grows while there are descriptors to fill  *)
(* it.                                                                      *)
THEOREM ArrayStaysBounded == Spec => []ArrayBounded
<1>1. Init => ArrayBounded
  BY SizeAssumption DEF Init, ArrayBounded
<1>2. TypeOK /\ ArrayBounded /\ [Next]_vars => ArrayBounded'
  <2> SUFFICES ASSUME TypeOK, ArrayBounded, [Next]_vars PROVE ArrayBounded'
    OBVIOUS
  <2>1. ASSUME NEW report \in [Registered -> SUBSET Flags], Poll(report)
        PROVE  ArrayBounded'
    <3> DEFINE filled == {fd \in Registered : report[fd] # {}}
    <3>1. /\ Cardinality(filled) \in Nat /\ Cardinality(Fds) \in Nat
          /\ Cardinality(filled) <= Cardinality(Fds)
      <4>1. filled \subseteq Fds
        BY DEF Registered
      <4> QED
        BY <4>1, FdsAssumption, FS_Subset, FS_CardinalityType
    <3>2. size' = Resized(Cardinality(filled))
      BY <2>1 DEF Poll
    <3> QED
      BY <3>1, <3>2 DEF Resized, ArrayBounded, TypeOK
  <2>2. CASE UNCHANGED size
    BY <2>2 DEF ArrayBounded
  <2>3. ASSUME NEW c \in Channels, Change(c)
        PROVE  UNCHANGED size
    BY <2>3 DEF Change, enableReadEvent, disableReadEvent, enableWriteEvent,
                disableWriteEvent, disableAllEvent, UpdateChannel, Remove
  <2> QED
    BY <2>1, <2>2, <2>3
    DEF Next, Create, Destroy, Gone, HandleEvent, Call, Return, Release,
        EndRound, vars
<1> QED
  BY <1>1, <1>2, InitType, NextType, PTL DEF Spec

=============================================================================
