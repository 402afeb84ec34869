----------------------------- MODULE ServerTable -----------------------------
(***************************************************************************)
(* The recording servers of siprec.conf and the table the apps look them   *)
(* up in (mod_siprec.c): load reads the entries in file order, skips the   *)
(* bad ones, and appends each good one to the failover chain of its name;  *)
(* unload frees every entry.  Each holds recording_servers_mutex, so each  *)
(* is one step.  An entry is known by its position in the file.            *)
(***************************************************************************)
EXTENDS SrsUri, Sequences, FiniteSets

CONSTANTS
  Entries,      \* the recording-server elements a file may contain
  MaxEntries    \* bound of the model: elements in a file

MaxPort == 65535                   \* the parse of a port leaves -1 beyond it

ASSUME EntriesAssumption ==
  \A e \in Entries : e.host.len \in Nat /\ e.port \in -1 .. MaxPort

Names == {e.name : e \in Entries}

VARIABLES
  module,       \* "loading", "loaded" or "unloaded"
  config,       \* the elements read so far (history)
  servers,      \* recording_servers_hash: a chain of entries for each name
  pools         \* the entries whose memory pool is live

tableVars == <<module, config, servers, pools>>

TableInit ==
  /\ module = "loading"
  /\ config = << >>
  /\ servers = [n \in Names |-> << >>]
  /\ pools = {}

(* recording_server_config_error: "" for an entry that is loaded.  A port  *)
(* of -1 and a mode of -2 stand for values that did not parse.             *)
ConfigError(e) ==
  CASE e.name = ""                                  -> "missing name attribute"
    [] e.host.len = 0                               -> "missing host param"
    [] UriCheck(HostUri(e.host)) # ""               -> UriCheck(HostUri(e.host))
    [] e.port < 0                                   -> "port is not an integer"
    [] e.transport \notin {"", "udp", "tcp", "tls"} -> "bad transport"
    [] e.separate = -2                              -> "bad separate-streams"
    [] OTHER -> ""

(* load_recording_server: the entry gets a pool of its own; a bad one      *)
(* gives it back, a good one goes to the end of its name's chain.          *)
FaultyLoadEntry(e) ==              \* to the front
  LET id == Len(config) + 1 IN
  /\ module = "loading" /\ id <= MaxEntries
  /\ config' = Append(config, e)
  /\ IF ConfigError(e) # "" THEN UNCHANGED <<servers, pools>>
     ELSE /\ servers' = [servers EXCEPT ![e.name] = <<id>> \o @]
          /\ pools' = pools \cup {id}
  /\ UNCHANGED module

LoadEntry(e) ==
  LET id == Len(config) + 1 IN
  /\ module = "loading" /\ id <= MaxEntries
  /\ config' = Append(config, e)
  /\ IF ConfigError(e) # "" THEN UNCHANGED <<servers, pools>>
     ELSE /\ servers' = [servers EXCEPT ![e.name] = Append(@, id)]
          /\ pools' = pools \cup {id}
  /\ UNCHANGED module

(* do_config fails before it reads an entry or not at all. *)
LoadDone == module = "loading" /\ module' = "loaded" /\ UNCHANGED <<config, servers, pools>>

(* free_recording_servers walks every chain, then destroys the hash. *)
Freed == UNION {{servers[n][i] : i \in 1 .. Len(servers[n])} : n \in Names}

FreeServers ==
  /\ pools' = pools \ Freed
  /\ servers' = [n \in Names |-> << >>]
  /\ module' = "unloaded"
  /\ UNCHANGED config

LoadFails == module = "loading" /\ config = << >> /\ FreeServers

(* mod_siprec_load again, with a file that may have changed. *)
Reload ==
  /\ module = "unloaded"
  /\ module' = "loading"
  /\ config' = << >>
  /\ UNCHANGED <<servers, pools>>

-----------------------------------------------------------------------------
(* copy_server_chain of the chain of a name, and the entry that stands for *)
(* an ad hoc URI: both live in the pool of the recording that starts.      *)

FaultyHome == "server"             \* the table's own entries, in place
Home == "recording"

Copied(id) ==
  LET e == config[id]
  IN [adhoc |-> FALSE, host |-> e.host, port |-> e.port, transport |-> e.transport,
      separate |-> e.separate, entry |-> id, home |-> Home]

FaultySnapshot(name) ==            \* each copy linked in front of the last
  LET n == Len(servers[name]) IN [i \in 1 .. n |-> Copied(servers[name][n + 1 - i])]
Snapshot(name) == [i \in 1 .. Len(servers[name]) |-> Copied(servers[name][i])]

AdHoc(uri) ==
  <<[adhoc |-> TRUE, uri |-> uri, separate |-> -1, entry |-> 0, home |-> "recording"]>>

-----------------------------------------------------------------------------
GoodEntries == {i \in 1 .. Len(config) : ConfigError(config[i]) = ""}
GoodOf(name) == {i \in GoodEntries : config[i].name = name}

(* A sequence has the entries of a set, each once, in the order of the     *)
(* file: it is the only one that does.                                     *)
Lists(s, S) ==
  /\ {s[i] : i \in 1 .. Len(s)} = S
  /\ \A i, j \in 1 .. Len(s) : i < j => s[i] < s[j]

(* The chain of a name is its good entries in the order of the file: a bad *)
(* or a foreign entry in between neither breaks nor reorders it.           *)
ChainIsConfig == module # "unloaded" => \A n \in Names : Lists(servers[n], GoodOf(n))

=============================================================================
