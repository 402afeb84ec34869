-------------------------- MODULE MCRecordingStart --------------------------
(* Files of up to three elements in every order: good ones of one handle    *)
(* with and without a mode of their own, one of another handle, a bad host, *)
(* a bad port.  Of the good hosts one is as long as the check admits and    *)
(* one ends in ":_".  AORs are short or long, so that the text fits with room to  *)
(* spare, fits exactly or is too long, in both stream modes.                *)
EXTENDS RecordingStart, SequencesExt

HostEnding(id, n, ok, closes) ==
  [id |-> id, len |-> n, clean |-> ok, split |-> FALSE, closes |-> closes]
Host(id, n, ok) == HostEnding(id, n, ok, FALSE)
Entry(name, host, port, transport, mode) ==
  [name |-> name, host |-> host, port |-> port, transport |-> transport, separate |-> mode]

MCEntries ==
  {Entry("n1", Host("h1", 9, TRUE), 0, "", -1),
   Entry("n1", Host("h2", 251, TRUE), 5061, "tls", 1),
   Entry("n1", HostEnding("h3", 9, TRUE, TRUE), 65535, "tcp", 0),
   Entry("n2", Host("h4", 9, TRUE), 0, "udp", -1),
   Entry("n1", Host("h5", 9, FALSE), 0, "", -1),
   Entry("n1", Host("h6", 9, TRUE), -1, "", -1)}

Uri(host, n, ok) ==
  [scheme |-> "sip", host |-> host, port |-> 0, transport |-> "", len |-> n,
   clean |-> ok, split |-> FALSE]
MCArgs ==
  {[handle |-> "n1", uri |-> NoUri], [handle |-> "unknown", uri |-> NoUri],
   [handle |-> "", uri |-> NoUri], [handle |-> "n1", uri |-> Uri("adhoc", 255, TRUE)],
   [handle |-> "n1", uri |-> Uri("other", 20, FALSE)],
   [handle |-> "n1", uri |-> Uri("other", 256, TRUE)]}

Uuid == <<"0","1","2","3","4","5","6","7","-","8","9","a","B","-","c","D","e","f","-",
          "f","e","d","c","-","b","a","9","8","7","6","5","4","3","2","1","0">>
Plain == SelectSeq(Uuid, LAMBDA c : c # "-")
CallSid == <<"C", "A">> \o Plain
Other == <<"x">>

Party(user, host) == [scheme |-> "", user |-> user, host |-> host]
Call(name, direction, from, to, fromNumber) ==
  [name |-> name, direction |-> direction, from |-> from, fromNumber |-> fromNumber,
   fromHost |-> "h", to |-> to, toNumber |-> Unset, toHost |-> ""]
MCCalls ==
  {Call(CallSid, "inbound", Party("long", "h"), Party("b", "h"), Unset),
   Call(Other, "outbound", Unset, Unset, Party("a", ""))}

MCAorLen(aor) == IF aor.user \in {"long", "unknown"} THEN 3 ELSE 1

MCFragments ==
  UNION {ToSet(Elements(OptionsOf(c, Aors(c, made), two))) :
           c \in Calls, made \in SUBSET {"caller", "callee"}, two \in BOOLEAN}

(* Each kind of UUID, the same with any one character replaced, what a      *)
(* shorter one is, and a name that is none.                                 *)
Near(name) ==
  {name} \cup {SubSeq(name, 1, n) : n \in 1 .. Len(name) - 1}
         \cup {[name EXCEPT ![i] = c] : i \in 1 .. Len(name), c \in {"-", "x", "7"}}
MCChannelNames == Near(Uuid) \cup Near(Plain) \cup Near(CallSid) \cup {Other}
=============================================================================
