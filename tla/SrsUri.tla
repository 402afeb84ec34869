------------------------------- MODULE SrsUri -------------------------------
(***************************************************************************)
(* The check of an SRS address (siprec_uri.c) and the URI that is built    *)
(* for a configured server (siprec_uri_for, siprec_invite.c).  A text is   *)
(* what these two tell apart: its scheme, its length, whether every        *)
(* character is on the allowlist, and whether it contains ":_:".           *)
(* A host's are those of "sip:<host>" without the scheme's length, and     *)
(* closes says that this ends in ":_", so that a colon makes it a ":_:".   *)
(***************************************************************************)
EXTENDS Integers

UriMaxLen == 255                   \* SIPREC_URI_MAX_LEN
UriBuf == 256                      \* siprec_uri_for's buf

SchemeLen(scheme) == CASE scheme = "sip" -> 4 [] scheme = "sips" -> 5 [] OTHER -> 0

(* siprec_uri_check: "" for an acceptable URI, else the reason it gives. *)
UriCheck(uri) ==
  CASE uri.len = 0                       -> "empty URI"
    [] uri.len > UriMaxLen               -> "URI too long"
    [] uri.scheme \notin {"sip", "sips"} -> "not a sip:/sips: URI"
    [] uri.len = SchemeLen(uri.scheme)   -> "URI has no host"
    [] ~uri.clean                        -> "a character outside the allowed set"
    [] uri.split                         -> "the originate separator ':_:'"
    [] OTHER -> ""

(* A host parameter as the URI "sip:<host>" of the load's check. *)
HostUri(host) ==
  [scheme |-> "sip", len |-> SchemeLen("sip") + host.len,
   clean |-> host.clean, split |-> host.split]

-----------------------------------------------------------------------------
Digits(n) == CHOOSE d \in 1 .. 5 : n < 10 ^ d /\ (d = 1 \/ n >= 10 ^ (d - 1))

(* siprec_uri_for.  An ad hoc URI is used verbatim; otherwise scheme,      *)
(* host, port and transport are printed into a buffer of UriBuf bytes with *)
(* its NUL, and what does not fit is cut off without an error.             *)
SchemeOf(server) == IF server.transport = "tls" THEN "sips" ELSE "sip"
FaultyPortOf(server) == server.port  \* none given is port 0
PortOf(server) == IF server.port > 0 THEN server.port ELSE 5060
SuffixOf(server) == IF server.transport \in {"tcp", "tls"} THEN server.transport ELSE ""

LenToHost(server) == SchemeLen(SchemeOf(server)) + server.host.len
LenToPort(server) == LenToHost(server) + 1 + Digits(PortOf(server))
FullLen(server) ==                 \* 14: the length of ";transport=tls"
  LenToPort(server) + (IF SuffixOf(server) = "" THEN 0 ELSE 14)

Cut == -1                          \* a part of the URI that was cut

UriFor(server) ==
  IF server.adhoc THEN server.uri
  ELSE [scheme    |-> SchemeOf(server),
        host      |-> IF LenToHost(server) < UriBuf THEN server.host.id ELSE "cut",
        port      |-> IF LenToPort(server) < UriBuf THEN PortOf(server) ELSE Cut,
        transport |-> IF FullLen(server) < UriBuf THEN SuffixOf(server) ELSE "cut",
        len       |-> IF FullLen(server) < UriBuf THEN FullLen(server) ELSE UriBuf - 1,
        clean     |-> server.host.clean,
        split     |-> \/ server.host.split
                      \/ server.host.closes /\ LenToHost(server) + 1 < UriBuf]
=============================================================================
