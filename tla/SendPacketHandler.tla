------------------------- MODULE SendPacketHandler --------------------------
(***************************************************************************)
(* The transmit side of the host library: send_packet_handler, in          *)
(* host/lib/transport/super_send_packet_handler.hpp.  One thread of the    *)
(* application calls send(), which cuts the buffer into packets; for each  *)
(* packet send_one_packet() gets a frame on every channel and then fills   *)
(* and commits all of them.                                                *)
(*                                                                         *)
(* The application is the environment.  It streams samples 0, 1, 2, ... in *)
(* bursts, sample k meant for the instant k + Lead, and sends again from   *)
(* where the last call says it stopped.                                    *)
(*                                                                         *)
(* Operators named Bug* are faults of the kind the properties are there to *)
(* catch, each put before the operator it would replace; no behaviour of   *)
(* Spec uses them.                                                         *)
(***************************************************************************)
EXTENDS Integers, FiniteSets

CONSTANTS
    NumChan,      \* transport channels of the streamer
    MaxSamps,     \* _max_samples_per_packet
    Wants,        \* sample counts of the application's buffers
    Lead,         \* sample k is meant for the instant k + Lead
    Timed,        \* whether metadata of sends with samples may have a time
    Starts,       \* how bursts start: with "samples", or an "empty" send before
    Ends,         \* how bursts end: with "samples", or an "empty" send after
    Careful,      \* whether after an empty start the application sends one packet
                  \* at most, without end of burst, and waits as long as it takes
    MayTimeOut,   \* sends whose get_buff may time out: "samples", "empty"
    MaxPackets    \* bound: no call of send() after so many packets

Chan == 0 .. NumChan - 1

ASSUME ConstantsAssumption ==
    /\ NumChan \in Nat \ {0}
    /\ MaxSamps \in Nat \ {0}
    /\ Wants \subseteq Nat \ {0}
    /\ Lead \in Nat
    /\ Timed \subseteq BOOLEAN
    /\ Starts \subseteq {"samples", "empty"}
    /\ Ends \subseteq {"samples", "empty"}
    /\ Careful \in BOOLEAN
    /\ MayTimeOut \subseteq {"samples", "empty"}
    /\ MaxPackets \in Nat

\* tx_metadata_t.
Metadata == [has_time_spec : BOOLEAN, time_spec : Nat,
             start_of_burst : BOOLEAN, end_of_burst : BOOLEAN]

\* What if_packet_info_t says of a packet's time and burst.
PacketInfo == [has_tsf : BOOLEAN, tsf : Nat, sob : BOOLEAN, eob : BOOLEAN]

VARIABLES
    seq,     \* _next_packet_seq
    buff,    \* the channels whose _props[].buff holds a frame
    got,     \* per channel: frames that its get_buff has handed out
    cache,   \* {} or {_metadata_cache}: _cached_metadata
    pc,      \* where send() is: "idle", or "send" in send_one_packet()
    call,    \* the arguments and locals of the call in progress
    wire,    \* the last packet committed, on every channel
    app      \* the application: its next sample `pos', whether its burst is
             \* `open', whether it has `declared' a start that has no samples yet

vars == <<seq, buff, got, cache, pc, call, wire, app>>

Stream == INSTANCE BurstStream WITH
    Lead <- Lead, MaxSamps <- MaxSamps, wire <- wire

\* `want' is nsamps_per_buff, 1 if the packet is a `pad'; `i' is the index of the
\* fragment, `sent' is total_num_samps_sent.
Call == [md : Metadata, info : PacketInfo, want : Nat, pad : BOOLEAN, i : Nat, sent : Nat]
NoMetadata == [has_time_spec |-> FALSE, time_spec |-> 0,
               start_of_burst |-> FALSE, end_of_burst |-> FALSE]
NoCall == [md |-> NoMetadata,
           info |-> [has_tsf |-> FALSE, tsf |-> 0, sob |-> FALSE, eob |-> FALSE],
           want |-> 1, pad |-> FALSE, i |-> 0, sent |-> 0]

TypeOK ==
    /\ seq \in Nat
    /\ buff \in SUBSET Chan
    /\ got \in [Chan -> Nat]
    /\ cache \in SUBSET Metadata
    /\ pc \in {"idle", "send"}
    /\ call \in Call
    /\ wire \in Stream!Packet
    /\ app \in [pos : Nat, open : BOOLEAN, declared : BOOLEAN]

Init ==
    /\ seq = 0
    /\ buff = {}
    /\ got = [c \in Chan |-> 0]
    /\ cache = {}
    /\ pc = "idle"
    /\ call = NoCall
    /\ wire = Stream!NoPacket
    /\ app = [pos |-> 0, open |-> FALSE, declared |-> FALSE]

-----------------------------------------------------------------------------
(* The application: the sends it makes, [want, md].                        *)

AppMetadata(timed, sob, eob) ==
    [has_time_spec |-> timed, time_spec |-> IF timed THEN app.pos + Lead ELSE 0,
     start_of_burst |-> sob, end_of_burst |-> eob]

Ask(want, md) == [want |-> want, md |-> md]
Between == ~app.open /\ ~app.declared
TakesCare == Careful /\ app.declared

\* Samples; the first send of a burst says so unless an empty one has.
SampleSends ==
    {Ask(want, AppMetadata(timed, Between, eob)) :
        want \in {w \in Wants : /\ Between => "samples" \in Starts
                                /\ TakesCare => w <= MaxSamps},
        timed \in Timed,
        eob \in {e \in BOOLEAN : e => "samples" \in Ends /\ ~TakesCare}}

EmptyStarts ==
    {Ask(0, AppMetadata(timed, TRUE, FALSE)) :
        timed \in {t \in Timed : Between /\ "empty" \in Starts}}

EmptyEnds == {a \in {Ask(0, AppMetadata(FALSE, FALSE, TRUE))} : app.open /\ "empty" \in Ends}

Sends == SampleSends \cup EmptyStarts \cup EmptyEnds

\* What the application makes of n, the value that send() returns: its burst is
\* closed if all of the last send went out.  An empty send returns 0 in any case.
Told(n) ==
    [pos |-> app.pos + n,
     open |-> IF n = 0 /\ ~call.pad THEN app.open
              ELSE ~call.md.end_of_burst \/ (~call.pad /\ n < call.want),
     declared |-> app.declared /\ n = 0]

-----------------------------------------------------------------------------
(* send().                                                                 *)

Cached == CHOOSE m \in cache : TRUE

\* Metadata to packet info, with the cached metadata for a send with samples.
Translated(md) ==
    [has_tsf |-> md.has_time_spec, tsf |-> md.time_spec,
     sob |-> md.start_of_burst, eob |-> md.end_of_burst]

WithCache(md) ==
    [has_tsf |-> md.has_time_spec \/ Cached.has_time_spec,
     tsf |-> IF md.has_time_spec THEN md.time_spec ELSE Cached.time_spec,
     sob |-> Cached.start_of_burst, eob |-> Cached.end_of_burst]

\* Every fragment of a burst's last buffer is marked as its end.
BugFirstInfoKeepsEnd(want, md) ==
    IF cache # {} /\ want # 0 THEN WithCache(md) ELSE Translated(md)

\* "false until final fragment".
FirstInfo(want, md) ==
    LET info == IF cache # {} /\ want # 0 THEN WithCache(md) ELSE Translated(md)
    IN  [info EXCEPT !.eob = @ /\ want <= MaxSamps]

\* A start of burst without samples is kept for the next send().
CacheStart ==
    /\ pc = "idle" /\ seq < MaxPackets
    /\ \E ask \in Sends :
         /\ ask.want = 0 /\ ask.md.start_of_burst
         /\ cache' = {ask.md}
    /\ app' = [app EXCEPT !.declared = TRUE]
    /\ UNCHANGED <<seq, buff, got, pc, call, wire>>

\* Any other send; "sample counts of zero" are padded to one.
Send ==
    /\ pc = "idle" /\ seq < MaxPackets
    /\ \E ask \in Sends :
         /\ ask.want # 0 \/ ~ask.md.start_of_burst
         /\ call' = [md |-> ask.md, info |-> FirstInfo(ask.want, ask.md),
                     want |-> IF ask.want = 0 THEN 1 ELSE ask.want,
                     pad |-> ask.want = 0, i |-> 0, sent |-> 0]
         /\ cache' = IF ask.want # 0 THEN {} ELSE cache
    /\ pc' = "send"
    /\ UNCHANGED <<seq, buff, got, wire, app>>

NumFragments == (call.want - 1) \div MaxSamps
FinalLength == ((call.want - 1) % MaxSamps) + 1
Final == call.i = NumFragments
Length == IF Final THEN FinalLength ELSE MaxSamps

Return(n) ==
    /\ pc' = "idle"
    /\ app' = Told(IF call.pad THEN 0 ELSE n)
    /\ call' = NoCall

-----------------------------------------------------------------------------
(* send_one_packet().                                                      *)

Waiting(c) == pc = "send" /\ c \notin buff /\ \A d \in 0 .. c - 1 : d \in buff

GetBuff(c) ==
    /\ Waiting(c)
    /\ buff' = buff \cup {c}
    /\ got' = [got EXCEPT ![c] = @ + 1]
    /\ UNCHANGED <<seq, cache, pc, call, wire, app>>

\* The frames of this packet are released.
BugGetTimeoutReleases(c) ==
    /\ Waiting(c)
    /\ (IF call.pad THEN "empty" ELSE "samples") \in MayTimeOut
    /\ ~TakesCare
    /\ Return(call.sent)
    /\ buff' = {}
    /\ UNCHANGED <<seq, got, cache, wire>>

\* The fragments sent before are forgotten.
BugGetTimeoutReturnsZero(c) ==
    /\ Waiting(c)
    /\ (IF call.pad THEN "empty" ELSE "samples") \in MayTimeOut
    /\ ~TakesCare
    /\ Return(0)
    /\ UNCHANGED <<seq, buff, got, cache, wire>>

\* The frames that other channels already hold stay for the next packet.
GetTimeout(c) ==
    /\ Waiting(c)
    /\ (IF call.pad THEN "empty" ELSE "samples") \in MayTimeOut
    /\ ~TakesCare
    /\ Return(call.sent)
    /\ UNCHANGED <<seq, buff, got, cache, wire>>

\* The packet as the packer writes it.
Packet ==
    [seq |-> seq, from |-> app.pos + call.sent,
     next |-> app.pos + call.sent + (IF call.pad THEN 0 ELSE Length),
     has_tsf |-> call.info.has_tsf,
     tsf |-> IF call.info.has_tsf THEN call.info.tsf ELSE 0,
     sob |-> call.info.sob, eob |-> call.info.eob]

\* "setup metadata for the next fragment", with the end of burst of the final one.
NextFragment ==
    LET sent == call.sent + Length
    IN  [call EXCEPT !.sent = sent, !.i = @ + 1,
                     !.info = [@ EXCEPT !.tsf = call.md.time_spec + sent, !.sob = FALSE,
                                        !.eob = call.i + 1 = NumFragments /\ call.md.end_of_burst]]

Commit ==
    /\ pc = "send" /\ buff = Chan
    /\ wire' = Packet
    /\ buff' = {}
    /\ seq' = seq + 1
    /\ \/ Final /\ Return(call.sent + Length)
       \/ ~Final /\ call' = NextFragment /\ UNCHANGED <<pc, app>>
    /\ UNCHANGED <<got, cache>>

Next ==
    \/ CacheStart \/ Send \/ Commit
    \/ \E c \in Chan : GetBuff(c) \/ GetTimeout(c)

Spec == Init /\ [][Next]_vars

-----------------------------------------------------------------------------
(* Properties.                                                             *)

\* The packets of all send() calls together form the stream of bursts that the
\* streamer's interface promises, however buffers are cut, retried and cached.
ImplementsBurstStream == Stream!Spec

\* The number of frames that a channel's get_buff has handed out, which is what
\* the flow controls of the devices count, is the number of packets sent, plus
\* the one frame the channel holds: a channel that had its frame when another
\* timed out is not charged twice for the packet.
CountsAgree == \A c \in Chan : got[c] = seq + (IF c \in buff THEN 1 ELSE 0)

\* Between calls the burst on the wire is open or closed as the return values of
\* send() make the application believe.
EndsAgree == pc = "idle" => (wire.eob <=> ~app.open)

=============================================================================
