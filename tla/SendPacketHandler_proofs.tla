---------------------- MODULE SendPacketHandler_proofs ----------------------
(***************************************************************************)
(* For every number of channels, packet size and set of requests: types,   *)
(* the frames counted by flow control, and, for an application that is     *)
(* careful after an empty start of burst and whose empty sends do not time *)
(* out, that the packets form a BurstStream.                               *)
(***************************************************************************)
EXTENDS SendPacketHandler, TLAPS

-----------------------------------------------------------------------------
(* Types and counts.                                                       *)

CountInv == TypeOK /\ CountsAgree

\* The metadata of everything that the application may ask is well-formed.
LEMMA SendsTyped ==
    ASSUME TypeOK
    PROVE  \A ask \in Sends : ask.want \in Nat /\ ask.md \in Metadata
<1>1. ASSUME NEW timed \in BOOLEAN, NEW sob \in BOOLEAN, NEW eob \in BOOLEAN
      PROVE  AppMetadata(timed, sob, eob) \in Metadata
  BY <1>1, ConstantsAssumption DEF TypeOK, AppMetadata, Metadata
<1>2. ASSUME NEW ask \in SampleSends
      PROVE  ask.want \in Nat /\ ask.md \in Metadata
  <2>1. PICK want \in Wants, timed \in Timed, eob \in BOOLEAN :
          ask = Ask(want, AppMetadata(timed, Between, eob))
    BY <1>2 DEF SampleSends
  <2>2. want \in Nat /\ timed \in BOOLEAN
    BY ConstantsAssumption
  <2>3. Between \in BOOLEAN
    BY DEF Between
  <2> QED
    BY <2>1, <2>2, <2>3, <1>1 DEF Ask
<1>3. ASSUME NEW ask \in EmptyStarts
      PROVE  ask.want \in Nat /\ ask.md \in Metadata
  <2>1. PICK timed \in Timed : ask = Ask(0, AppMetadata(timed, TRUE, FALSE))
    BY <1>3 DEF EmptyStarts
  <2>2. timed \in BOOLEAN
    BY ConstantsAssumption
  <2> QED
    BY <2>1, <2>2, <1>1 DEF Ask
<1>4. ASSUME NEW ask \in EmptyEnds
      PROVE  ask.want \in Nat /\ ask.md \in Metadata
  <2>1. ask = Ask(0, AppMetadata(FALSE, FALSE, TRUE))
    BY <1>4 DEF EmptyEnds
  <2> QED
    BY <2>1, <1>1 DEF Ask
<1> QED
  BY <1>2, <1>3, <1>4 DEF Sends

\* The metadata kept in the cache can be chosen when there is any.
LEMMA CachedTyped ==
    ASSUME TypeOK, cache # {}
    PROVE  Cached \in Metadata
BY DEF TypeOK, Cached

\* The packet info of the first fragment is well-formed.
LEMMA FirstInfoTyped ==
    ASSUME TypeOK, NEW want \in Nat, NEW md \in Metadata
    PROVE  FirstInfo(want, md) \in PacketInfo
BY CachedTyped, ConstantsAssumption
   DEF FirstInfo, WithCache, Translated, Metadata, PacketInfo

\* A packet holds between one and MaxSamps samples.
LEMMA LengthTyped ==
    ASSUME TypeOK
    PROVE  Length \in 1 .. MaxSamps
<1>1. call.want \in Nat /\ MaxSamps \in Nat \ {0}
  BY ConstantsAssumption DEF TypeOK, Call
<1>2. (call.want - 1) % MaxSamps \in 0 .. MaxSamps - 1
  BY <1>1
<1> QED
  BY <1>1, <1>2 DEF Length, FinalLength

\* What send() returns leaves the application well-formed.
LEMMA ReturnTyped ==
    ASSUME TypeOK, NEW n \in Nat, Return(n)
    PROVE  /\ pc' \in {"idle", "send"}
           /\ call' \in Call
           /\ app' \in [pos : Nat, open : BOOLEAN, declared : BOOLEAN]
<1>1. call' \in Call
  BY DEF Return, NoCall, Call, NoMetadata, Metadata, PacketInfo
<1>2. Told(IF call.pad THEN 0 ELSE n) \in [pos : Nat, open : BOOLEAN, declared : BOOLEAN]
  <2> DEFINE m == IF call.pad THEN 0 ELSE n
  <2>1. m \in Nat /\ app.pos \in Nat /\ app.open \in BOOLEAN
    BY DEF TypeOK, Call
  <2>2. app.pos + m \in Nat
    BY <2>1
  <2>3. (IF m = 0 /\ ~call.pad THEN app.open
         ELSE ~call.md.end_of_burst \/ (~call.pad /\ m < call.want)) \in BOOLEAN
    BY <2>1
  <2>4. (app.declared /\ m = 0) \in BOOLEAN
    OBVIOUS
  <2> QED
    BY <2>2, <2>3, <2>4 DEF Told
<1> QED
  BY <1>1, <1>2 DEF Return

LEMMA CountInit == Init => CountInv
<1> SUFFICES ASSUME Init PROVE CountInv
  OBVIOUS
<1>1. NoCall \in Call
  BY DEF NoCall, Call, NoMetadata, Metadata, PacketInfo
<1>2. Stream!NoPacket \in Stream!Packet
  BY DEF Stream!NoPacket, Stream!Packet
<1> QED
  BY <1>1, <1>2 DEF Init, CountInv, TypeOK, CountsAgree

\* Every step preserves the types and the counts.
LEMMA CountStep == CountInv /\ [Next]_vars => CountInv'
<1> SUFFICES ASSUME CountInv, [Next]_vars PROVE CountInv'
  OBVIOUS
<1> USE DEF CountInv
<1>1. CASE CacheStart
  <2>1. cache' \in SUBSET Metadata
    BY <1>1, SendsTyped DEF CacheStart
  <2> QED
    BY <1>1, <2>1 DEF CacheStart, TypeOK, CountsAgree
<1>2. CASE Send
  <2>1. PICK ask \in Sends :
          /\ call' = [md |-> ask.md, info |-> FirstInfo(ask.want, ask.md),
                      want |-> IF ask.want = 0 THEN 1 ELSE ask.want,
                      pad |-> ask.want = 0, i |-> 0, sent |-> 0]
          /\ cache' = IF ask.want # 0 THEN {} ELSE cache
    BY <1>2 DEF Send
  <2>2. call' \in Call
    BY <2>1, SendsTyped, FirstInfoTyped DEF Call
  <2>3. cache' \in SUBSET Metadata
    BY <2>1 DEF TypeOK
  <2> QED
    BY <1>2, <2>2, <2>3 DEF Send, TypeOK, CountsAgree
<1>3. CASE Commit
  <2>1. Length \in 1 .. MaxSamps /\ MaxSamps \in Nat
    BY LengthTyped, ConstantsAssumption
  <2>2. Packet \in Stream!Packet
    BY <2>1 DEF Packet, Stream!Packet, TypeOK, Call, PacketInfo
  <2>3. call.sent + Length \in Nat
    BY <2>1 DEF TypeOK, Call
  <2>4. /\ pc' \in {"idle", "send"}
        /\ call' \in Call
        /\ app' \in [pos : Nat, open : BOOLEAN, declared : BOOLEAN]
    <3>1. CASE Final /\ Return(call.sent + Length)
      BY <3>1, <2>3, ReturnTyped
    <3>2. CASE ~Final /\ call' = NextFragment /\ UNCHANGED <<pc, app>>
      <4>1. /\ call.md.time_spec + (call.sent + Length) \in Nat
            /\ call.i + 1 \in Nat
            /\ (call.i + 1 = NumFragments /\ call.md.end_of_burst) \in BOOLEAN
        BY <2>3 DEF TypeOK, Call, Metadata
      <4>2. NextFragment \in Call
        BY <4>1, <2>3 DEF NextFragment, TypeOK, Call, PacketInfo
      <4> QED
        BY <3>2, <4>2 DEF TypeOK
    <3> QED
      BY <1>3, <3>1, <3>2 DEF Commit
  <2>5. CountsAgree'
    BY <1>3 DEF Commit, TypeOK, CountsAgree
  <2> QED
    BY <1>3, <2>2, <2>4, <2>5 DEF Commit, TypeOK
<1>4. ASSUME NEW c \in Chan, GetBuff(c)
      PROVE  CountInv'
  BY <1>4 DEF GetBuff, Waiting, TypeOK, CountsAgree
<1>5. ASSUME NEW c \in Chan, GetTimeout(c)
      PROVE  CountInv'
  <2>1. call.sent \in Nat
    BY DEF TypeOK, Call
  <2> QED
    BY <1>5, <2>1, ReturnTyped DEF GetTimeout, TypeOK, CountsAgree
<1>6. CASE UNCHANGED vars
  BY <1>6 DEF vars, TypeOK, CountsAgree
<1> QED
  BY <1>1, <1>2, <1>3, <1>4, <1>5, <1>6 DEF Next

\* The state of the send handler stays well-formed.
THEOREM SendTypeCorrect == Spec => []TypeOK
BY CountInit, CountStep, PTL DEF Spec, CountInv

\* Flow control counts as many frames as packets were sent, plus the frames held.
THEOREM FramesCounted == Spec => []CountsAgree
BY CountInit, CountStep, PTL DEF Spec, CountInv

-----------------------------------------------------------------------------
(* The packets form a BurstStream.                                         *)

\* After an empty start of burst the application sends one packet and waits for
\* it, and it never mistakes a timeout of an empty send for success.
Disciplined == Careful /\ "empty" \notin MayTimeOut

\* Between calls, the application and the wire agree on where the stream is, and
\* the cached metadata is the start of burst that the application declared.
IdleInv ==
    /\ wire.next = app.pos
    /\ wire.eob <=> ~app.open
    /\ cache = {} <=> ~app.declared

CacheInv ==
    app.declared => /\ ~app.open
                    /\ Cached.start_of_burst /\ ~Cached.end_of_burst
                    /\ Cached.has_time_spec => Cached.time_spec = app.pos + Lead

\* The fragments sent so far continue the stream; the info of the one to send is
\* that of its first sample.
PositionInv ==
    /\ wire.next = app.pos + call.sent
    /\ call.want >= 1
    /\ call.i <= NumFragments
    /\ call.sent = call.i * MaxSamps

InfoInv ==
    /\ call.info.sob <=> wire.eob
    /\ call.info.eob <=> (Final /\ call.md.end_of_burst)
    /\ wire.eob <=> (call.i = 0 /\ ~app.open)
    /\ call.info.has_tsf => call.info.tsf = app.pos + call.sent + Lead
    /\ ~Final /\ call.info.has_tsf => call.md.time_spec = app.pos + Lead

\* A padded packet ends a burst; the one after an empty start is a single fragment.
PadInv ==
    /\ cache = {}
    /\ call.pad => /\ call.want = 1 /\ app.open
                   /\ call.md.end_of_burst /\ ~call.info.has_tsf
    /\ app.declared => ~app.open /\ NumFragments = 0

StreamInv ==
    /\ CountInv
    /\ wire.seq = seq - 1
    /\ pc = "idle" => IdleInv /\ CacheInv
    /\ pc = "send" => PositionInv /\ InfoInv /\ PadInv

\* Quotient and remainder; multiplication by a packet's size.
LEMMA Division ==
    ASSUME NEW w \in Nat, NEW m \in Nat \ {0}
    PROVE  /\ w \div m \in Nat /\ w % m \in 0 .. m - 1
           /\ w = (w \div m) * m + (w % m)
OBVIOUS

LEMMA Multiples ==
    ASSUME NEW a \in Nat, NEW b \in Nat, NEW m \in Nat
    PROVE  /\ a * m \in Nat /\ (a + 1) * m = a * m + m
           /\ a <= b => a * m <= b * m
OBVIOUS

\* The final fragment ends where the buffer ends, and only the final one.
LEMMA FragmentsFit ==
    ASSUME TypeOK, PositionInv
    PROVE  /\ Final => call.sent + Length = call.want
           /\ ~Final => call.sent + Length < call.want /\ call.i + 1 <= NumFragments
           /\ ~Final => call.sent + Length = (call.i + 1) * MaxSamps
           /\ NumFragments \in Nat
<1> DEFINE w == call.want - 1
           q == w \div MaxSamps
<1>1. w \in Nat /\ call.i \in Nat /\ MaxSamps \in Nat \ {0} /\ call.sent \in Nat
  BY ConstantsAssumption DEF TypeOK, Call, PositionInv
<1>2. q \in Nat /\ w % MaxSamps \in 0 .. MaxSamps - 1 /\ w = q * MaxSamps + (w % MaxSamps)
  BY <1>1, Division
<1>3. q = NumFragments /\ FinalLength = (w % MaxSamps) + 1
  BY DEF NumFragments, FinalLength
<1>4. call.sent = call.i * MaxSamps /\ call.want = w + 1 /\ call.i <= q
  BY <1>3 DEF PositionInv, TypeOK, Call
<1> HIDE DEF w, q
<1>5. CASE Final
  <2>1. call.i = q /\ Length = (w % MaxSamps) + 1
    BY <1>5, <1>3 DEF Final, Length
  <2> QED
    BY <2>1, <1>1, <1>2, <1>3, <1>4, <1>5
<1>6. CASE ~Final
  <2>1. call.i + 1 <= q /\ Length = MaxSamps
    BY <1>6, <1>1, <1>2, <1>3, <1>4 DEF Final, Length
  <2>2. (call.i + 1) * MaxSamps <= q * MaxSamps
    BY <2>1, <1>1, <1>2, Multiples
  <2>3. (call.i + 1) * MaxSamps = call.i * MaxSamps + MaxSamps
    BY <1>1, Multiples
  <2>4. call.i * MaxSamps \in Nat /\ q * MaxSamps \in Nat /\ (call.i + 1) * MaxSamps \in Nat
    BY <1>1, <1>2, Multiples
  <2> QED
    BY <2>1, <2>2, <2>3, <2>4, <1>1, <1>2, <1>3, <1>4, <1>6
<1> QED
  BY <1>5, <1>6

LEMMA StreamInit == Init => StreamInv
BY CountInit DEF Init, StreamInv, IdleInv, CacheInv, Stream!NoPacket

\* A send with samples starts with a packet info for its first sample.
LEMMA SendStreams ==
    ASSUME Disciplined, StreamInv, Send
    PROVE  PositionInv' /\ InfoInv' /\ PadInv'
<1>1. PICK ask \in Sends :
        /\ ask.want # 0 \/ ~ask.md.start_of_burst
        /\ call' = [md |-> ask.md, info |-> FirstInfo(ask.want, ask.md),
                    want |-> IF ask.want = 0 THEN 1 ELSE ask.want,
                    pad |-> ask.want = 0, i |-> 0, sent |-> 0]
  BY DEF Send
<1>2. TypeOK /\ ask.want \in Nat /\ ask.md \in Metadata /\ MaxSamps \in Nat \ {0}
  BY SendsTyped, ConstantsAssumption DEF StreamInv, CountInv
<1>3. /\ UNCHANGED <<seq, app, wire>> /\ IdleInv /\ CacheInv
      /\ cache' = IF ask.want # 0 THEN {} ELSE cache
  BY <1>1 DEF Send, StreamInv
<1>4. /\ ask.md.start_of_burst <=> Between
      /\ ask.md.has_time_spec => ask.md.time_spec = app.pos + Lead
      /\ ask.want = 0 => app.open /\ ask.md.end_of_burst /\ ~ask.md.has_time_spec
      /\ app.declared => ask.want <= MaxSamps /\ ~ask.md.end_of_burst
  <2>1. CASE ask \in SampleSends
    <3>1. PICK want \in Wants, timed \in Timed, eob \in BOOLEAN :
            /\ ask = Ask(want, AppMetadata(timed, Between, eob))
            /\ app.declared => want <= MaxSamps /\ ~eob
      BY <2>1 DEF SampleSends, TakesCare, Disciplined
    <3>2. want # 0
      BY ConstantsAssumption
    <3> QED
      BY <3>1, <3>2 DEF Ask, AppMetadata
  <2>2. CASE ask \in EmptyEnds
    <3>1. app.open /\ ask = Ask(0, AppMetadata(FALSE, FALSE, TRUE))
      BY <2>2 DEF EmptyEnds
    <3>2. ~app.declared
      BY <3>1, <1>3 DEF CacheInv
    <3> QED
      BY <3>1, <3>2 DEF Ask, AppMetadata, Between
  <2>3. CASE ask \in EmptyStarts
    <3>1. PICK timed \in Timed : ask = Ask(0, AppMetadata(timed, TRUE, FALSE))
      BY <2>3 DEF EmptyStarts
    <3> QED
      BY <1>1, <3>1 DEF Ask, AppMetadata
  <2> QED
    BY <2>1, <2>2, <2>3 DEF Sends
<1> DEFINE info == FirstInfo(ask.want, ask.md)
<1>5. /\ info.sob <=> ~app.open
      /\ info.eob <=> (ask.md.end_of_burst /\ ask.want <= MaxSamps)
      /\ info.has_tsf => info.tsf = app.pos + Lead
      /\ ~app.declared /\ info.has_tsf => ask.md.time_spec = app.pos + Lead
      /\ ask.want = 0 => ~info.has_tsf
  <2>1. CASE ~app.declared
    <3>1. info =
            [has_tsf |-> ask.md.has_time_spec, tsf |-> ask.md.time_spec,
             sob |-> ask.md.start_of_burst,
             eob |-> ask.md.end_of_burst /\ ask.want <= MaxSamps]
      BY <1>3, <2>1 DEF FirstInfo, Translated, IdleInv
    <3>2. ask.md.start_of_burst <=> ~app.open
      BY <1>4, <2>1 DEF Between
    <3> HIDE DEF info
    <3>3. /\ info.sob = ask.md.start_of_burst
          /\ info.eob = (ask.md.end_of_burst /\ ask.want <= MaxSamps)
          /\ info.has_tsf = ask.md.has_time_spec
          /\ info.tsf = ask.md.time_spec
      BY <3>1
    <3> QED
      BY <1>4, <3>2, <3>3
  <2>2. CASE app.declared
    <3>1. ask.want # 0 /\ cache # {} /\ ~app.open
      BY <1>3, <1>4, <2>2 DEF IdleInv, CacheInv
    <3>2. info =
            [has_tsf |-> ask.md.has_time_spec \/ Cached.has_time_spec,
             tsf |-> IF ask.md.has_time_spec THEN ask.md.time_spec ELSE Cached.time_spec,
             sob |-> Cached.start_of_burst,
             eob |-> Cached.end_of_burst /\ ask.want <= MaxSamps]
      BY <3>1 DEF FirstInfo, WithCache
    <3> HIDE DEF info
    <3>3. /\ info.sob = Cached.start_of_burst
          /\ info.eob = (Cached.end_of_burst /\ ask.want <= MaxSamps)
          /\ info.has_tsf = (ask.md.has_time_spec \/ Cached.has_time_spec)
          /\ info.tsf = IF ask.md.has_time_spec THEN ask.md.time_spec ELSE Cached.time_spec
      BY <3>2
    <3> QED
      BY <1>3, <1>4, <2>2, <3>1, <3>3 DEF CacheInv
  <2> QED
    BY <2>1, <2>2
<1>6. /\ call'.want \in Nat \ {0} /\ call'.i = 0 /\ call'.sent = 0
      /\ call'.md = ask.md
      /\ call'.want <= MaxSamps <=> ask.want <= MaxSamps
      /\ call'.want = IF ask.want = 0 THEN 1 ELSE ask.want
      /\ call'.pad = (ask.want = 0)
  BY <1>1, <1>2
<1>7. /\ NumFragments' \in Nat
      /\ NumFragments' = 0 <=> call'.want <= MaxSamps
  <2> DEFINE w == call'.want - 1
             q == w \div MaxSamps
  <2>0. w \in Nat
    BY <1>6
  <2>1. w \in Nat /\ q \in Nat /\ w % MaxSamps \in 0 .. MaxSamps - 1
        /\ w = q * MaxSamps + (w % MaxSamps)
    BY <1>2, <2>0, Division
  <2>2. NumFragments' = q
    BY DEF NumFragments
  <2>6. call'.want = w + 1
    BY <1>6
  <2> HIDE DEF w, q
  <2>3. q >= 1 => q * MaxSamps >= 1 * MaxSamps
    BY <1>2, <2>1, Multiples
  <2>4. q = 0 => q * MaxSamps = 0
    BY <1>2
  <2>5. q * MaxSamps \in Nat
    BY <1>2, <2>1, Multiples
  <2> QED
    <3>1. CASE q = 0
      BY <1>2, <2>1, <2>2, <2>4, <2>6, <3>1
    <3>2. CASE q >= 1
      <4>1. q * MaxSamps >= MaxSamps
        BY <1>2, <2>3, <3>2
      <4> QED
        BY <1>2, <2>1, <2>2, <2>5, <2>6, <3>2, <4>1
    <3> QED
      BY <2>1, <2>2, <3>1, <3>2
<1>8. Final' <=> ask.want <= MaxSamps
  BY <1>6, <1>7 DEF Final
<1>9. PositionInv'
  BY <1>2, <1>3, <1>6, <1>7 DEF PositionInv, IdleInv, TypeOK
<1>10. call'.info = info
  BY <1>1
<1>11. InfoInv'
  <2>1. /\ call'.info.sob <=> ~app.open
        /\ call'.info.eob <=> (ask.md.end_of_burst /\ ask.want <= MaxSamps)
        /\ call'.info.has_tsf => call'.info.tsf = app.pos + Lead
        /\ ~app.declared /\ call'.info.has_tsf => ask.md.time_spec = app.pos + Lead
    BY <1>5, <1>10
  <2>2. /\ wire'.eob <=> ~app'.open
        /\ app.pos \in Nat /\ app' = app
    BY <1>2, <1>3 DEF IdleInv, TypeOK
  <2>3. call'.info.has_tsf => call'.info.tsf = app'.pos + call'.sent + Lead
    BY <1>6, <2>1, <2>2, ConstantsAssumption
  <2>4. call'.info.eob <=> (Final' /\ call'.md.end_of_burst)
    BY <1>6, <1>8, <2>1
  <2>5. ~Final' => ~app.declared
    BY <1>4, <1>8
  <2>6. ~Final' /\ call'.info.has_tsf => call'.md.time_spec = app'.pos + Lead
    BY <1>6, <2>1, <2>2, <2>5
  <2> QED
    BY <1>6, <2>1, <2>2, <2>3, <2>4, <2>6 DEF InfoInv
<1>12. PadInv'
  <2>1. cache' = {}
    BY <1>3, <1>4 DEF IdleInv, CacheInv
  <2>2. ask.want = 0 => ~call'.info.has_tsf
    BY <1>5, <1>10
  <2>3. app.declared => ~app.open /\ NumFragments' = 0
    BY <1>3, <1>4, <1>6, <1>7 DEF CacheInv
  <2> QED
    BY <1>3, <1>4, <1>6, <2>1, <2>2, <2>3 DEF PadInv
<1> QED
  BY <1>9, <1>11, <1>12

\* The packet that is committed continues the stream.
LEMMA CommitStreams ==
    ASSUME StreamInv, Commit
    PROVE  Stream!Next
<1>1. /\ TypeOK /\ PositionInv /\ InfoInv /\ PadInv
      /\ wire.seq = seq - 1 /\ wire' = Packet
  BY DEF Commit, StreamInv, CountInv
<1>2. Length \in 1 .. MaxSamps
  BY <1>1, LengthTyped
<1>3. /\ wire \in Stream!Packet /\ call \in Call /\ seq \in Nat
      /\ call.info \in PacketInfo /\ call.md \in Metadata
  BY <1>1 DEF TypeOK, Call
<1>4. /\ call.info.sob = wire.eob
      /\ call.info.has_tsf => call.info.tsf = wire.next + Lead
      /\ seq = wire.seq + 1 /\ app.pos + call.sent = wire.next
  BY <1>1, <1>3 DEF InfoInv, PositionInv, PacketInfo, Stream!Packet
<1>5. CASE call.pad
  <2>1. ~call.info.has_tsf /\ ~wire.eob /\ call.info.eob
    <3>1. ~call.info.has_tsf /\ ~wire.eob /\ call.md.end_of_burst /\ call.want = 1
      BY <1>1, <1>5 DEF PadInv, InfoInv
    <3>2. Final
      BY <1>1, <1>2, <3>1, FragmentsFit, ConstantsAssumption DEF PositionInv, TypeOK, Call
    <3> QED
      BY <1>1, <3>1, <3>2 DEF InfoInv
  <2>2. Packet = [seq |-> wire.seq + 1, from |-> wire.next, next |-> wire.next + 0,
                  has_tsf |-> FALSE, tsf |-> 0, sob |-> wire.eob, eob |-> TRUE]
    BY <1>3, <1>4, <1>5, <2>1 DEF Packet, PacketInfo
  <2> QED
    BY <1>1, <2>1, <2>2 DEF Stream!Next, Stream!PutEnd, Stream!Put
<1>6. CASE ~call.pad
  <2>1. Packet = [seq |-> wire.seq + 1, from |-> wire.next, next |-> wire.next + Length,
                  has_tsf |-> call.info.has_tsf,
                  tsf |-> IF call.info.has_tsf THEN wire.next + Lead ELSE 0,
                  sob |-> wire.eob, eob |-> call.info.eob]
    BY <1>3, <1>4, <1>6 DEF Packet
  <2>2. call.info.has_tsf \in BOOLEAN /\ call.info.eob \in BOOLEAN
    BY <1>3 DEF PacketInfo
  <2> QED
    BY <1>1, <1>2, <2>1, <2>2 DEF Stream!Next, Stream!PutSamples, Stream!Put
<1> QED
  BY <1>5, <1>6

\* After a commit the stream goes on where it stopped, in the next fragment or
\* for the application.
LEMMA CommitContinues ==
    ASSUME StreamInv, Commit
    PROVE  /\ pc' = "idle" => IdleInv' /\ CacheInv'
           /\ pc' = "send" => PositionInv' /\ InfoInv' /\ PadInv'
<1>1. /\ TypeOK /\ PositionInv /\ InfoInv /\ PadInv /\ pc = "send"
      /\ cache' = {} /\ wire' = Packet
  BY DEF Commit, StreamInv, CountInv, PadInv
<1>2. Length \in 1 .. MaxSamps /\ MaxSamps \in Nat \ {0}
  BY <1>1, LengthTyped, ConstantsAssumption
<1>3. /\ app.pos \in Nat /\ app.open \in BOOLEAN /\ call \in Call
      /\ call.sent \in Nat /\ call.i \in Nat /\ call.want \in Nat
      /\ call.info \in PacketInfo /\ call.md \in Metadata
  BY <1>1 DEF TypeOK, Call
<1>4. /\ wire'.next = app.pos + call.sent + (IF call.pad THEN 0 ELSE Length)
      /\ wire'.eob = call.info.eob
  BY <1>1 DEF Packet
<1>5. CASE Final /\ Return(call.sent + Length)
  <2>1. pc' = "idle" /\ app' = Told(IF call.pad THEN 0 ELSE call.sent + Length)
    BY <1>5 DEF Return
  <2>2. call.sent + Length = call.want
    BY <1>1, <1>5, FragmentsFit
  <2>3. wire'.eob <=> call.md.end_of_burst
    BY <1>1, <1>4, <1>5 DEF InfoInv
  <2>4. CASE call.pad
    <3>1. app'.pos = app.pos + 0 /\ (app'.open <=> ~call.md.end_of_burst) /\ ~app'.declared
      BY <1>1, <2>1, <2>4 DEF Told, PadInv
    <3>2. call.sent = 0
      BY <1>1, <1>2, <1>3, <2>2, <2>4 DEF PadInv
    <3>3. wire'.next = app'.pos
      BY <1>3, <1>4, <2>4, <3>1, <3>2
    <3> QED
      BY <1>1, <2>1, <2>3, <3>1, <3>3 DEF IdleInv, CacheInv
  <2>5. CASE ~call.pad
    <3>1. call.want > 0 /\ ~(call.want < call.want)
      BY <1>2, <1>3, <2>2
    <3>2. app'.pos = app.pos + call.want /\ (app'.open <=> ~call.md.end_of_burst)
          /\ ~app'.declared
      BY <1>1, <2>1, <2>2, <2>5, <3>1 DEF Told
    <3>3. wire'.next = app'.pos
      BY <1>2, <1>3, <1>4, <2>2, <2>5, <3>2
    <3> QED
      BY <1>1, <2>1, <2>3, <3>2, <3>3 DEF IdleInv, CacheInv
  <2> QED
    BY <2>4, <2>5
<1>6. CASE ~Final /\ call' = NextFragment /\ UNCHANGED <<pc, app>>
  <2>1. /\ ~call.pad /\ ~wire'.eob /\ ~app.declared
        /\ call.i + 1 <= NumFragments /\ NumFragments \in Nat
        /\ call.sent + Length = (call.i + 1) * MaxSamps
    <3>1. /\ call.i + 1 <= NumFragments /\ NumFragments \in Nat
          /\ call.sent + Length = (call.i + 1) * MaxSamps
          /\ call.sent + Length < call.want
      BY <1>1, <1>6, FragmentsFit
    <3>2. ~call.pad
      BY <1>1, <1>2, <1>3, <3>1 DEF PadInv
    <3>3. ~wire'.eob
      BY <1>1, <1>4, <1>6 DEF InfoInv
    <3>4. ~app.declared
      BY <1>1, <1>3, <3>1 DEF PadInv
    <3> QED
      BY <3>1, <3>2, <3>3, <3>4
  <2>2. /\ call'.sent = call.sent + Length /\ call'.i = call.i + 1
        /\ call'.want = call.want /\ call'.pad = call.pad /\ call'.md = call.md
        /\ call'.info.has_tsf = call.info.has_tsf
        /\ call'.info.tsf = call.md.time_spec + (call.sent + Length)
        /\ call'.info.sob = FALSE
        /\ call'.info.eob = (call.i + 1 = NumFragments /\ call.md.end_of_burst)
    BY <1>3, <1>6 DEF NextFragment, Call, PacketInfo
  <2>3. NumFragments' = NumFragments
    BY <2>2 DEF NumFragments
  <2>4. PositionInv'
    BY <1>1, <1>2, <1>3, <1>4, <1>6, <2>1, <2>2, <2>3 DEF PositionInv
  <2>5. InfoInv'
    <3>1. call'.info.has_tsf => call'.md.time_spec = app'.pos + Lead
      BY <1>1, <1>6, <2>2 DEF InfoInv
    <3>2. call'.info.has_tsf => call'.info.tsf = app'.pos + call'.sent + Lead
      BY <1>2, <1>3, <1>6, <2>2, <3>1, ConstantsAssumption
    <3>3. call'.info.eob <=> (Final' /\ call'.md.end_of_burst)
      BY <2>2, <2>3 DEF Final
    <3>4. wire'.eob <=> (call'.i = 0 /\ ~app'.open)
      BY <1>3, <2>1, <2>2
    <3> QED
      BY <1>1, <2>1, <2>2, <3>1, <3>2, <3>3, <3>4 DEF InfoInv
  <2>6. PadInv'
    BY <1>1, <1>6, <2>1, <2>2 DEF PadInv
  <2> QED
    BY <1>1, <1>6, <2>4, <2>5, <2>6
<1> QED
  BY <1>5, <1>6 DEF Commit

\* A timeout returns how much went out.
LEMMA TimeoutContinues ==
    ASSUME Disciplined, StreamInv, NEW c \in Chan, GetTimeout(c)
    PROVE  pc' = "idle" /\ IdleInv' /\ CacheInv'
<1>1. /\ TypeOK /\ PositionInv /\ InfoInv /\ ~app.declared /\ cache' = {}
      /\ ~call.pad /\ wire' = wire /\ pc' = "idle" /\ app' = Told(call.sent)
  BY DEF GetTimeout, Waiting, Return, Disciplined, TakesCare, StreamInv, CountInv, PadInv
<1>2. /\ call.sent \in Nat /\ call.i \in Nat /\ call.want \in Nat /\ app.pos \in Nat
      /\ MaxSamps \in Nat \ {0} /\ Length \in 1 .. MaxSamps
  BY <1>1, LengthTyped, ConstantsAssumption DEF TypeOK, Call
<1>3. app'.pos = app.pos + call.sent /\ ~app'.declared
  BY <1>1 DEF Told
<1>4. call.sent < call.want
  BY <1>1, <1>2, FragmentsFit
<1>5. app'.open <=> (app.open \/ call.sent # 0)
  BY <1>1, <1>4 DEF Told
<1>6. call.sent = 0 <=> call.i = 0
  <2>1. call.i # 0 => 1 * MaxSamps <= call.i * MaxSamps
    BY <1>2, Multiples
  <2>2. call.i = 0 => call.i * MaxSamps = 0
    BY <1>2
  <2> QED
    BY <1>1, <1>2, <2>1, <2>2 DEF PositionInv
<1> QED
  BY <1>1, <1>2, <1>3, <1>5, <1>6 DEF IdleInv, CacheInv, InfoInv, PositionInv

\* Every step preserves the invariant and is a step of the stream, or none.
LEMMA StreamStep ==
    ASSUME Disciplined, StreamInv, [Next]_vars
    PROVE  StreamInv' /\ [Stream!Next]_wire
<1>1. CountInv' /\ TypeOK
  BY CountStep DEF StreamInv, CountInv
<1>2. CASE CacheStart
  <2>1. PICK ask \in Sends : ask.want = 0 /\ ask.md.start_of_burst /\ cache' = {ask.md}
    BY <1>2 DEF CacheStart
  <2>2. /\ wire' = wire /\ seq' = seq /\ pc = "idle" /\ pc' = "idle"
        /\ app' = [app EXCEPT !.declared = TRUE] /\ IdleInv
    BY <1>2 DEF CacheStart, StreamInv
  <2>3. ask \in EmptyStarts
    <3>1. ask \notin SampleSends
      BY <2>1, ConstantsAssumption DEF SampleSends, Ask
    <3>2. ask \notin EmptyEnds
      BY <2>1 DEF EmptyEnds, Ask, AppMetadata
    <3> QED
      BY <2>1, <3>1, <3>2 DEF Sends
  <2>4. PICK timed \in Timed : ask = Ask(0, AppMetadata(timed, TRUE, FALSE)) /\ Between
    BY <2>3 DEF EmptyStarts
  <2>5. Cached' = ask.md
    BY <2>1 DEF Cached
  <2>6. app'.pos = app.pos /\ app'.open = app.open /\ app'.declared
    BY <1>1, <2>2 DEF TypeOK
  <2>7. IdleInv'
    BY <2>1, <2>2, <2>6 DEF IdleInv
  <2>8. CacheInv'
    BY <2>4, <2>5, <2>6 DEF CacheInv, Ask, AppMetadata, Between
  <2> QED
    BY <1>1, <2>2, <2>7, <2>8 DEF StreamInv
<1>3. CASE Send
  BY <1>1, <1>3, SendStreams DEF Send, StreamInv
<1>4. CASE Commit
  <2>1. wire'.seq = seq' - 1
    BY <1>1, <1>4 DEF Commit, Packet, TypeOK
  <2> QED
    BY <1>1, <1>4, <2>1, CommitStreams, CommitContinues DEF Commit, StreamInv
<1>5. ASSUME NEW c \in Chan, GetBuff(c)
      PROVE  StreamInv' /\ [Stream!Next]_wire
  BY <1>1, <1>5 DEF GetBuff, Waiting, StreamInv, PositionInv, InfoInv, PadInv,
                    Final, NumFragments
<1>6. ASSUME NEW c \in Chan, GetTimeout(c)
      PROVE  StreamInv' /\ [Stream!Next]_wire
  BY <1>1, <1>6, TimeoutContinues DEF GetTimeout, StreamInv
<1>7. CASE UNCHANGED vars
  BY <1>1, <1>7 DEF vars, StreamInv, PositionInv, InfoInv, PadInv, IdleInv, CacheInv, Cached,
                    Final, NumFragments
<1> QED
  BY <1>2, <1>3, <1>4, <1>5, <1>6, <1>7 DEF Next

\* The packets of a disciplined application form the stream of bursts that the
\* streamer's interface promises, for any buffers, packet size, channels and
\* timeouts.
THEOREM StreamImplemented ==
    ASSUME Disciplined
    PROVE  Spec => ImplementsBurstStream
<1>1. Init => Stream!Init
  BY DEF Init, Stream!Init
<1>2. StreamInv /\ [Next]_vars => StreamInv' /\ [Stream!Next]_wire
  BY StreamStep
<1> QED
  BY <1>1, <1>2, StreamInit, PTL DEF Spec, ImplementsBurstStream, Stream!Spec

\* Between calls, a disciplined application is right about its burst.
THEOREM EndsAgreed ==
    ASSUME Disciplined
    PROVE  Spec => []EndsAgree
<1>1. StreamInv /\ [Next]_vars => StreamInv'
  BY StreamStep
<1>2. StreamInv => EndsAgree
  BY DEF StreamInv, IdleInv, EndsAgree
<1> QED
  BY <1>1, <1>2, StreamInit, PTL DEF Spec
=============================================================================
