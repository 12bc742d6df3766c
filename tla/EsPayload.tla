------------------------------ MODULE EsPayload ------------------------------
(***************************************************************************)
(* How PaketisedESPayloadHandler (src/src/capture/                         *)
(* paketisedESPayloadHandler.cpp) supplies a payload unit, with the header *)
(* parser dvb_mpeg_pes_init_patched (libdvbv5-patch/mpeg_pes.c).  Units    *)
(* come from a multiplexer and a lossy channel: of any size, with any      *)
(* header, in any order.  The parser looks at the header's bytes whether   *)
(* or not the unit is long enough to have them.  The parsed table lives as *)
(* long as the handler.                                                    *)
(***************************************************************************)
EXTENDS Integers, Sequences

CONSTANTS Sizes,      \* of units, in bytes
          Lengths,    \* of optional headers
          SizeMod,    \* size_t is computed modulo this, far above the sizes
          MaxUnits    \* bound: units supplied

VARIABLES m_PESTable,   \* the flags in PTS_DTS, and the unit they are of (0: never written)
          units,        \* units so far
          frames        \* what the stream got, with the number and size of its unit

vars == <<m_PESTable, units, frames>>

Stamps == {"pts", "dts"}

\* "padding" and "unsupported" are the stream ids that the parser refuses with
\* -1 and with -2.
Headers == [prefix : BOOLEAN, id : {"media", "padding", "unsupported"},
            stamps : SUBSET Stamps, length : Lengths]

Init ==
  /\ \E garbage \in SUBSET Stamps : m_PESTable = [stamps |-> garbage, unit |-> 0]
  /\ units = 0 /\ frames = <<>>

\* Where the payload starts: behind 9 bytes and the optional header.
Parsed(h) == CASE h.id = "padding"     -> -1
               [] h.id = "unsupported" -> -2
               [] h.id = "media"       -> 9 + h.length

IsPes(size, h) == size >= 3 /\ h.prefix

\* The flags, in the table's optional part, are only written by a header that is
\* accepted; the part before them is written by any.
Table(size, h) ==
  IF IsPes(size, h) /\ h.id = "media" THEN [stamps |-> h.stamps, unit |-> units + 1] ELSE m_PESTable

\* PaketisedPayloadHandler::supplyStream: the whole unit, without metadata.
SupplyRaw(size, h) ==
  /\ ~IsPes(size, h) \/ Parsed(h) = -1
  /\ frames' = Append(frames,
       [unit |-> units + 1, from |-> 0, bytes |-> size, size |-> size, stampsOf |-> {}])

\* The payload of a PES unit, with the stamps that the table says it has.
SupplyPayload(size, h) ==
  /\ IsPes(size, h) /\ Parsed(h) # -1 /\ Parsed(h) # size
  /\ frames' = Append(frames,
       [unit |-> units + 1, from |-> Parsed(h), bytes |-> (size - Parsed(h)) % SizeMod,
        size |-> size, stampsOf |-> IF Table(size, h).stamps = {} THEN {} ELSE {Table(size, h).unit}])

SupplyNothing(size, h) ==
  /\ IsPes(size, h) /\ Parsed(h) = size
  /\ UNCHANGED frames

SupplyStream(size, h) ==
  /\ units < MaxUnits
  /\ units' = units + 1
  /\ m_PESTable' = Table(size, h)
  /\ SupplyRaw(size, h) \/ SupplyPayload(size, h) \/ SupplyNothing(size, h)

Next == \E size \in Sizes, h \in Headers : SupplyStream(size, h)

Spec == Init /\ [][Next]_vars

-----------------------------------------------------------------------------

\* "PES table is correct": what is supplied lies inside its unit, and its stamps
\* are its own.  (Violated by a stream id that the parser refuses with -2, which
\* leaves the table of an earlier unit, and by a header longer than its unit.)
FramesAreOwn ==
  \A k \in DOMAIN frames :
    LET f == frames[k]
    IN  f.from >= 0 /\ f.from + f.bytes <= f.size /\ f.stampsOf \subseteq {f.unit}

=============================================================================
