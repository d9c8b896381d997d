------------------------------ MODULE Protobuf ------------------------------
(***************************************************************************)
(* wire/protobuf.go: Validate, which every message of a client passes      *)
(* before it is written to a device, against what a sequence of fields is. *)
(* The buffers are the states: Next appends a byte.                        *)
(***************************************************************************)
EXTENDS Naturals, Sequences, FiniteSets, FiniteSetsExt

CONSTANTS Bytes,                  \* the bytes buffers are made of
          MaxLen,                 \* bound: length of a buffer
          VarintLen,              \* bytes of the longest varint (10: 64 bits)
          MaxFieldSize            \* maxFieldSize

ProtobufAssumption ==
  /\ Bytes \subseteq 0 .. 255
  /\ MaxLen \in Nat /\ VarintLen \in Nat \ {0} /\ MaxFieldSize \in Nat

VARIABLE buf

wireVarint == 0
wireData == 2

Init == buf = << >>

Next == /\ Len(buf) < MaxLen
        /\ \E b \in Bytes : buf' = Append(buf, b)

Spec == Init /\ [][Next]_buf
-----------------------------------------------------------------------------
\* binary.ReadUvarint: seven bits a byte, the lowest first, the last byte
\* below 128; an error (0) at the end of the buffer, after VarintLen bytes
\* and if the last of VarintLen bytes has more than the one bit left
UvarintEnd(i) ==
  LET ends == {k \in i .. Len(buf) : buf[k] < 128 /\ \A j \in i .. k - 1 : buf[j] >= 128}
      tooLong(k) == k - i >= VarintLen \/ (k - i = VarintLen - 1 /\ buf[k] > 1)
  IN  IF \E k \in ends : ~tooLong(k) THEN CHOOSE k \in ends : TRUE ELSE 0

Uvarint(i, k) ==
  MapThenSumSet(LAMBDA j : (buf[j] % 128) * 128 ^ (j - i), i .. k)

TypeAllowed(typ) == typ \in {wireVarint, wireData}

\* the slip that counts the value's bytes from the last byte of the length
SkipShort(i, k, val) == k + val

\* Seek from behind the value; it may go behind the end of the buffer
Skip(i, k, val) == k + 1 + val

\* the loop of Validate from byte i on
Accepts[i \in 1 .. Len(buf) + 1 + MaxFieldSize] ==
  \/ i > Len(buf)
  \/ LET keyEnd == UvarintEnd(i)
         valEnd == UvarintEnd(keyEnd + 1)
         typ == Uvarint(i, keyEnd) % 8
         val == Uvarint(keyEnd + 1, valEnd)
     IN  /\ keyEnd # 0
         /\ TypeAllowed(typ)
         /\ valEnd # 0
         /\ IF typ = wireData
            THEN val <= MaxFieldSize /\ Accepts[Skip(keyEnd + 1, valEnd, val)]
            ELSE Accepts[valEnd + 1]

Validate == Accepts[1]
-----------------------------------------------------------------------------
(* What a protobuf message is: fields one after the other.                 *)

\* bytes i .. k are a varint of at most 7 * (VarintLen - 1) + 1 bits
IsVarint(i, k) ==
  /\ i <= k /\ k - i < VarintLen
  /\ \A j \in i .. k : buf[j] < 128 <=> j = k
  /\ k - i = VarintLen - 1 => buf[k] \in {0, 1}

\* bytes i .. k are a field, of which `missing` bytes were cut off
IsField(i, k, missing) ==
  \E m \in i .. k, n \in i .. k :
    /\ IsVarint(i, m) /\ IsVarint(m + 1, n)
    /\ \/ Uvarint(i, m) % 8 = wireVarint /\ n = k /\ missing = 0
       \/ /\ Uvarint(i, m) % 8 = wireData
          /\ Uvarint(m + 1, n) = k - n + missing
          /\ Uvarint(m + 1, n) <= MaxFieldSize

\* some boundaries cut the buffer into fields, the last one incomplete
IsMessage(missing) ==
  \E S \in SUBSET (1 .. Len(buf) + 1) :
    /\ 1 \in S /\ Len(buf) + 1 \in S
    /\ \A i, k \in S :
         (i < k /\ \A j \in S : j <= i \/ j >= k) =>
           IsField(i, k - 1, IF k = Len(buf) + 1 THEN missing ELSE 0)

(***************************************************************************)
(* "malformed protobuf": Validate accepts the sequences of varint and      *)
(* length-delimited fields, and besides them only what becomes one if the  *)
(* bytes its last field lacks are added.  (It does not notice those: Seek  *)
(* goes behind the end.)                                                   *)
(***************************************************************************)
AcceptsFields ==
  Validate <=> \E missing \in 0 .. MaxFieldSize : IsMessage(missing)
=============================================================================
