--------------------------- MODULE PayloadHandler ---------------------------
(***************************************************************************)
(* The collector of one PID's payload: PaketisedPayloadHandler of          *)
(* src/src/capture/paketisedPayloadHandler.{h,cpp}.  A handler is a record *)
(* with the fields of the class.  The bytes of one transport packet are    *)
(* one element of m_Data (their content is never looked at here), so       *)
(* m_DataSize is Len(m_Data), and the reserve of the vector beyond         *)
(* m_DataSize is left out.                                                 *)
(***************************************************************************)
EXTENDS Naturals, Sequences

CONSTANT CtrMod   \* values of the continuity counter: 16, four bits of the TS header

ASSUME CtrModAssumption == CtrMod \in Nat /\ CtrMod >= 2

Counters == 0 .. CtrMod - 1

Handlers(Payload) == [m_Counter : Counters, m_Error : BOOLEAN,
                      m_PayloadStart : BOOLEAN, m_Data : Seq(Payload)]

\* A new handler is in error: it drops payload until the first unit start.
NewHandler == [m_Counter |-> 0, m_Error |-> TRUE,
               m_PayloadStart |-> FALSE, m_Data |-> <<>>]

\* What reset() hands to the stream: whatever was collected, even nothing.
Supplied(h) == h.m_Data

ResetKeepingData(h) ==   \* faulty: m_DataSize = 0 forgotten
  [h EXCEPT !.m_PayloadStart = TRUE, !.m_Error = FALSE]

\* reset(), after the stream was supplied.  An exception of the stream is
\* caught, so the state is cleared whether or not the stream took the data.
Reset(h) == [h EXCEPT !.m_Data = <<>>, !.m_PayloadStart = TRUE, !.m_Error = FALSE]

NextCounterUnmasked(c) == c + 1   \* faulty: no & 0xf

\* m_Counter++ ; m_Counter &= 0xf.  (incrementCtr is the packet's payload bit,
\* which the only caller has tested before it calls append.)
NextCounter(c) == (c + 1) % CtrMod

Store(h, payload) == [h EXCEPT !.m_Data = Append(@, payload)]

AppendUnchecked(h, payload, ctr) ==   \* faulty: only an equal counter is looked at
  IF ~h.m_PayloadStart /\ (h.m_Error \/ h.m_Counter = ctr) THEN h
  ELSE Store([h EXCEPT !.m_PayloadStart = FALSE, !.m_Counter = ctr], payload)

AppendNoDuplicates(h, payload, ctr) ==   \* faulty: an equal counter is a mismatch
  CASE h.m_PayloadStart \/ (~h.m_Error /\ NextCounter(h.m_Counter) = ctr) ->
         Store([h EXCEPT !.m_PayloadStart = FALSE, !.m_Counter = ctr], payload)
    [] OTHER -> [h EXCEPT !.m_Error = TRUE]

\* append(): the first packet of a unit sets the counter; a later one is
\* dropped after an error or as a duplicate, stored if its counter is the
\* next one, and is an error otherwise.
AppendPacket(h, payload, ctr) ==
  LET next == [h EXCEPT !.m_Counter = NextCounter(h.m_Counter)]
  IN  CASE h.m_PayloadStart ->
             Store([h EXCEPT !.m_PayloadStart = FALSE, !.m_Counter = ctr], payload)
        [] ~h.m_PayloadStart /\ (h.m_Error \/ h.m_Counter = ctr) -> h
        [] OTHER -> IF next.m_Counter = ctr THEN Store(next, payload)
                    ELSE [next EXCEPT !.m_Error = TRUE]

DispatchLate(h, payload, unitStart, ctr) ==   \* faulty: append before reset
  LET appended == AppendPacket(h, payload, ctr)
  IN  IF unitStart THEN Reset(appended) ELSE appended

\* The read loop's dispatch of a packet with payload to its PID's handler.
Dispatch(h, payload, unitStart, ctr) ==
  AppendPacket(IF unitStart THEN Reset(h) ELSE h, payload, ctr)

=============================================================================
