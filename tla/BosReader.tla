----------------------------- MODULE BosReader ------------------------------
(***************************************************************************)
(* libusb/c/descriptor.c: descriptors that are read from the device in two *)
(* requests, one for the length or the language and one for the data.  The *)
(* device answers each on its own: it may fail, stop short, or say another *)
(* length the second time.  BOS descriptors are parsed into an array of    *)
(* capabilities, each allocated; strings are cut to the caller's buffer.   *)
(***************************************************************************)
EXTENDS Integers, Sequences, FiniteSets

CONSTANTS MaxCaps,                \* capabilities that are sent
          MaxString,              \* bytes of a string descriptor, 2 per character
          MallocFails

BosAssumption == MaxCaps \in Nat /\ MaxString \in Nat /\ MallocFails \in BOOLEAN

VARIABLES
  sent,                           \* the capabilities of the device
  pc, size,                       \* bos_len or length; what is left to parse
  num,                            \* bNumDeviceCaps
  caps,                           \* _bos->dev_capability, by position
  heap, ret,
  bytes, length, out              \* strings: of the device, the buffer, written

vars == <<sent, pc, size, num, caps, heap, ret, bytes, length, out>>

string == <<bytes, length, out>>
bos == <<num, caps, heap>>

Caps == [t : {"extension", "ss", "container", "none"}, len : {"ok", "bad", "long", "small"}]

TypeOK ==
  /\ pc \in {"start", "bos.header", "bos.alloc", "bos.parse", "bos.cap", "bos.done", "bos.get",
             "string.lang", "string.copy", "end"}
  /\ size \in 0 .. MaxCaps + 1 /\ num \in 0 .. MaxCaps + 1
  /\ caps \in Seq(1 .. MaxCaps) /\ Len(caps) <= num
  /\ heap \subseteq {<<"data">>, <<"bos">>} \cup ({"cap", "copy"} \X (1 .. MaxCaps))
  /\ ret \in {"none", "SUCCESS", "IO", "PIPE", "NO_MEM", "INVALID_PARAM"}
  /\ bytes \in 0 .. MaxString /\ length \in 1 .. MaxString /\ out \in 0 .. MaxString

Init ==
  /\ \E n \in 0 .. MaxCaps : sent \in [1 .. n -> Caps]
  /\ pc = "start" /\ size = 0 /\ num = 0 /\ caps = <<>> /\ heap = {} /\ ret = "none"
  /\ bytes = 0 /\ length \in 1 .. (IF sent = <<>> THEN MaxString ELSE 1) /\ out = 0

End(r) == pc' = "end" /\ ret' = r

\* what a request returns: an error, too little, enough
Answers == {"PIPE", "short", "enough"}

-----------------------------------------------------------------------------
(* libusb_get_bos_descriptor; a unit is the header or a capability *)

BosHeader ==
  /\ pc = "start"
  /\ \E a \in Answers :
       CASE a = "PIPE" -> End("PIPE") /\ UNCHANGED size
         [] a = "short" -> End("IO") /\ UNCHANGED size
         [] a = "enough" -> size' \in 0 .. Len(sent) + 1 /\ pc' = "bos.alloc" /\ UNCHANGED ret
  /\ UNCHANGED <<sent, bos, string>>

BosAlloc ==
  /\ pc = "bos.alloc"
  /\ \/ heap' = heap \cup {<<"data">>} /\ pc' = "bos.parse" /\ UNCHANGED ret
     \/ MallocFails /\ End("NO_MEM") /\ UNCHANGED heap
  /\ UNCHANGED <<sent, size, num, caps, string>>

\* the second answer, of at most size units, and the checks of its header
BosData ==
  /\ pc = "bos.parse"
  /\ \E r \in -1 .. size, n \in 0 .. MaxCaps + 1 :
       IF r < 1
       THEN End(IF r < 0 THEN "PIPE" ELSE "IO") /\ heap' = heap \ {<<"data">>} /\ UNCHANGED <<size, num>>
       ELSE \/ MallocFails /\ End("NO_MEM") /\ heap' = heap \ {<<"data">>} /\ UNCHANGED <<size, num>>
            \/ /\ heap' = heap \cup {<<"bos">>} /\ num' = n /\ size' = r - 1
               /\ pc' = "bos.cap" /\ UNCHANGED ret
  /\ UNCHANGED <<sent, caps, string>>

\* libusb_free_bos_descriptor
Freed == {<<"bos">>, <<"data">>} \cup {<<"cap", k>> : k \in 1 .. Len(caps)}

Here == Len(caps) + 1

\* the array ends at what is no capability or does not fit
CapsEnd ==
  /\ pc = "bos.cap"
  /\ \/ Len(caps) = num
     \/ size = 0
     \/ Len(caps) < num /\ size > 0 /\ (sent[Here].t = "none" \/ sent[Here].len = "long")
  /\ num' = Len(caps) /\ heap' = heap \ {<<"data">>}
  /\ pc' = "bos.done" /\ ret' = "SUCCESS"
  /\ UNCHANGED <<sent, size, caps, string>>

AddCap ==
  /\ pc = "bos.cap" /\ Len(caps) < num /\ size > 0
  /\ sent[Here].t # "none" /\ sent[Here].len \in {"ok", "small"}
  /\ caps' = Append(caps, Here) /\ heap' = heap \cup {<<"cap", Here>>}
  /\ size' = size - 1
  /\ UNCHANGED <<sent, pc, num, ret, string>>

CapFails(r) ==
  /\ pc = "bos.cap" /\ Len(caps) < num /\ size > 0 /\ sent[Here].t # "none"
  /\ End(r) /\ heap' = heap \ Freed
  /\ UNCHANGED <<sent, size, num, caps, string>>

CapInvalid == pc = "bos.cap" /\ Here <= Len(sent) /\ sent[Here].len = "bad" /\ CapFails("IO")
CapNoMem == MallocFails /\ pc = "bos.cap" /\ Here <= Len(sent) /\ sent[Here].len \in {"ok", "small"} /\ CapFails("NO_MEM")

\* libusb_get_usb_2_0_extension_descriptor and its two siblings
GetCap ==
  /\ pc = "bos.done"
  /\ \E k \in 1 .. num, t \in {"extension", "ss", "container"} :
       IF sent[caps[k]].t # t THEN ret' = "INVALID_PARAM" /\ UNCHANGED heap
       ELSE IF sent[caps[k]].len = "small" THEN ret' = "IO" /\ UNCHANGED heap
       ELSE \/ MallocFails /\ ret' = "NO_MEM" /\ UNCHANGED heap
            \/ ret' = "SUCCESS" /\ heap' = heap \cup {<<"copy", caps[k]>>}
  /\ pc' = "bos.get" /\ UNCHANGED <<sent, size, num, caps, string>>

FreeBos ==
  /\ pc \in {"bos.done", "bos.get"} /\ pc' = "end"
  /\ heap' = heap \ ({<<"bos">>} \cup {<<"cap", caps[k]>> : k \in 1 .. num})
  /\ UNCHANGED <<sent, size, num, caps, ret, string>>

-----------------------------------------------------------------------------
(* libusb_get_string_descriptor_ascii *)

StringLanguage ==
  /\ pc = "start" /\ sent = <<>>
  /\ \E a \in Answers :
       CASE a = "PIPE" -> End("PIPE")
         [] a = "short" -> End("IO")
         [] a = "enough" -> pc' = "string.lang" /\ UNCHANGED ret
  /\ UNCHANGED <<sent, size, bos, string>>

\* bLength must not exceed what was read
StringData ==
  /\ pc = "string.lang"
  /\ \E r \in -1 .. MaxString, b \in 0 .. MaxString :
       IF r < 2 \/ b > r
       THEN End(IF r < 0 THEN "PIPE" ELSE "IO") /\ UNCHANGED bytes
       ELSE bytes' = b /\ pc' = "string.copy" /\ UNCHANGED ret
  /\ UNCHANGED <<sent, size, bos, length, out>>

\* one character; the last byte of the buffer is for the end
StringCopy ==
  /\ pc = "string.copy"
  /\ IF 2 + 2 * out < bytes /\ out < length - 1
     THEN out' = out + 1 /\ UNCHANGED <<pc, ret>>
     ELSE End("SUCCESS") /\ UNCHANGED out
  /\ UNCHANGED <<sent, size, bos, bytes, length>>

Next ==
  \/ BosHeader \/ BosAlloc \/ BosData \/ CapsEnd \/ AddCap \/ CapInvalid \/ CapNoMem \/ GetCap \/ FreeBos
  \/ StringLanguage \/ StringData \/ StringCopy

Spec == Init /\ [][Next]_vars

-----------------------------------------------------------------------------
(***************************************************************************)
(* When a call is over, what stays allocated is what the caller frees: a   *)
(* failed read leaves nothing, a freed BOS leaves the copies of its        *)
(* capabilities the caller took (descriptor.c:850).                        *)
(***************************************************************************)
HeapIsCallers ==
  /\ pc = "end" => heap \subseteq {"copy"} \X (1 .. MaxCaps)
  /\ pc = "bos.done" => heap = {<<"bos">>} \cup {<<"cap", k>> : k \in 1 .. num}

(***************************************************************************)
(* bNumDeviceCaps is the length of the array though the device promised    *)
(* more, and a capability is taken for what it is (descriptor.c:846).      *)
(***************************************************************************)
CapsAreSent ==
  /\ pc = "bos.done" => Len(caps) = num /\ \A k \in 1 .. num : sent[k].len \in {"ok", "small"}
  /\ pc = "bos.get" /\ ret = "SUCCESS" => \E k \in 1 .. num : <<"copy", k>> \in heap /\ sent[k].len = "ok"

(***************************************************************************)
(* A string and its end fit the buffer, and its characters were read from  *)
(* the device, but for the second byte of a last character of an odd       *)
(* length (descriptor.c:1130, the "suspicious" length).                    *)
(***************************************************************************)
StringFits == out + 1 <= length /\ (out > 0 => 2 * out + 2 <= bytes + (bytes % 2))

(***************************************************************************)
(* Neither loop goes on for ever, whatever the device sent.                *)
(***************************************************************************)
Looping == pc \in {"bos.cap", "string.copy"}
=============================================================================
