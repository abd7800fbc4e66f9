------------------------------- MODULE McpCall -------------------------------
(***************************************************************************)
(* Calls of an MCP server over its standard streams (tools/mcp_client.py,  *)
(* MCPStdioClient, and the handler of build_mcp_tools): one at a time, a   *)
(* request with a number of its own, then lines until one has the number.  *)
(* Nothing has a time limit.                                               *)
(*                                                                         *)
(* The server is a process with one thread, three pipes and a mind of its  *)
(* own: it blocks on a full pipe, logs, notifies, asks, answers late,      *)
(* out of order or not at all, and dies.                                   *)
(***************************************************************************)
EXTENDS Integers, Sequences

CONSTANTS
    MaxMessages,  \* 50 in _request: messages read for one answer
    MaxNoise,     \* 10 in _read: lines in a row that are no JSON
    OutPipe, ErrPipe, \* lines that fit into the server's stdout, stderr
    Large,        \* a request may be more than its stdin holds
    Asks,         \* the server sends requests of its own
    Mortal,       \* the server may die
    Heirs,        \* a process it has started keeps its stderr
    Chatter, Logs, MaxRequests, \* bounds: lines it sends unasked, lines it logs, requests
    Silent        \* the server is writing nothing

ASSUME McpAssumption ==
    /\ MaxMessages \in Nat \ {0} /\ MaxNoise \in Nat \ {0}
    /\ OutPipe \in Nat \ {0} /\ ErrPipe \in Nat
    /\ Large \in BOOLEAN /\ Asks \in BOOLEAN /\ Mortal \in BOOLEAN /\ Heirs \in BOOLEAN
    /\ Chatter \in Nat /\ Logs \in Nat /\ MaxRequests \in Nat

VARIABLES
    server,        \* up, dead, or dead with an heir
    stdin, stdout, stderr, \* the pipes: requests, lines, a number of lines
    voice,         \* what the server is writing; it does nothing else meanwhile
    owed,          \* requests it has read and not answered
    chatter,       \* lines it has sent unasked
    client,        \* where the client is
    nextId,        \* _next_id
    messages, noise, \* read for this request, and for this message
    got            \* what the handler returns: the request it was answered, or a failure

pipes    == <<stdin, stdout, stderr>>
mcpVars  == <<server, pipes, voice, owed, chatter, client, nextId, messages, noise, got>>

(* result and error are answers; noise is no JSON, odd is JSON but no       *)
(* object; a note has no number; a log goes to stderr.                     *)
Kinds  == {"result", "error", "noise", "odd", "note", "request", "log"}
Line(k, n) == [kind |-> k, id |-> n]
Lines  == [kind : Kinds, id : 0 .. MaxRequests]
Failed == Line("error", 0)

ASSUME SilentIsNoLine == Silent \notin Lines

McpTypeOK ==
    /\ server \in {"up", "dead", "heir"}
    /\ stdin \in Seq(1 .. MaxRequests) /\ stdout \in Seq(Lines) /\ stderr \in 0 .. ErrPipe
    /\ voice \in Lines \cup {Silent} /\ owed \subseteq 1 .. MaxRequests /\ chatter \in 0 .. Chatter
    /\ client \in {"ready", "sending", "reading", "closing"}
    /\ nextId \in 0 .. MaxRequests
    /\ messages \in 0 .. MaxMessages - 1 /\ noise \in 0 .. MaxNoise - 1
    /\ got \in Lines

McpInit ==
    /\ server = "up" /\ stdin = <<>> /\ stdout = <<>> /\ stderr = 0
    /\ voice = Silent /\ owed = {} /\ chatter = 0
    /\ client = "ready" /\ nextId = 0 /\ messages = 0 /\ noise = 0 /\ got = Failed

ServerSleeps == UNCHANGED <<server, stderr, voice, owed, chatter>>

-----------------------------------------------------------------------------
(* The client.                                                             *)

(* _request: to a server that is gone it cannot be written.                *)
Send ==
    /\ client = "ready" /\ nextId < MaxRequests
    /\ nextId' = nextId + 1
    /\ IF server = "up"
       THEN /\ stdin' = Append(stdin, nextId + 1)
            /\ client' \in IF Large THEN {"sending", "reading"} ELSE {"reading"}
            /\ UNCHANGED got
       ELSE got' = Failed /\ UNCHANGED <<stdin, client>>
    /\ UNCHANGED <<stdout, messages, noise>> /\ ServerSleeps

(* A large request is written when the server has read it; if it dies      *)
(* first, the pipe is broken.                                              *)
Sent ==
    /\ client = "sending"
    /\ stdin = <<>>
    /\ IF server = "up" THEN client' = "reading" /\ UNCHANGED got
       ELSE client' = "ready" /\ got' = Failed
    /\ UNCHANGED <<pipes, nextId, messages, noise>> /\ ServerSleeps

Returns(result) == client' = "ready" /\ got' = result /\ messages' = 0 /\ noise' = 0

Awaited_Next == nextId + 1   \* defect: the number is raised before the request is written

Awaited == nextId

Matches_Any(line) == line.kind \in {"result", "error"}   \* defect: the next answer is the answer

Matches(line) == line.kind \notin {"note", "noise", "odd"} /\ line.id = Awaited

(* _read and the loop of _request.  A request of the server has no result; *)
(* with the number awaited it is taken for an answer.                      *)
ReadLine ==
    /\ client = "reading" /\ stdout # <<>>
    /\ stdout' = Tail(stdout)
    /\ LET line == Head(stdout) IN
       CASE line.kind = "noise" ->
              IF noise + 1 = MaxNoise THEN Returns(Failed)
              ELSE noise' = noise + 1 /\ UNCHANGED <<client, got, messages>>
         [] line.kind = "odd" -> Returns(Failed)
         [] Matches(line) -> Returns(line)
         [] OTHER ->
              IF messages + 1 = MaxMessages THEN Returns(Failed)
              ELSE messages' = messages + 1 /\ noise' = 0 /\ UNCHANGED <<client, got>>
    /\ UNCHANGED <<stdin, nextId>> /\ ServerSleeps

EndOfFile_ReadOn ==   \* defect: an empty line is no message, read the next
    /\ client = "reading" /\ stdout = <<>> /\ server # "up"
    /\ UNCHANGED mcpVars

(* The end of the file: the error quotes stderr, which is read to its end. *)
EndOfFile ==
    /\ client = "reading" /\ stdout = <<>> /\ server # "up"
    /\ client' = "closing"
    /\ UNCHANGED <<pipes, nextId, messages, noise, got>> /\ ServerSleeps

ReadStderr ==
    /\ client = "closing" /\ server = "dead"
    /\ Returns(Failed) /\ stderr' = 0
    /\ UNCHANGED <<server, stdin, stdout, voice, owed, chatter, nextId>>

Client == Sent \/ ReadLine \/ EndOfFile \/ ReadStderr

-----------------------------------------------------------------------------
(* The server.                                                             *)

ClientSleeps == UNCHANGED <<client, nextId, messages, noise, got>>

Free == server = "up" /\ voice = Silent

Take ==
    /\ Free /\ stdin # <<>>
    /\ owed' = owed \cup {Head(stdin)} /\ stdin' = Tail(stdin)
    /\ UNCHANGED <<server, stdout, stderr, voice, chatter>> /\ ClientSleeps

(* It answers what it owes, if it answers; late answers included.          *)
Reply ==
    /\ Free
    /\ \E n \in owed, k \in {"result", "error"} : voice' = Line(k, n) /\ owed' = owed \ {n}
    /\ UNCHANGED <<server, pipes, chatter>> /\ ClientSleeps

Unasked ==
    {Line(k, 0) : k \in {"noise", "odd", "note"}} \cup
    (IF Asks THEN {Line("request", n) : n \in 1 .. MaxRequests} ELSE {})

Talk ==
    /\ Free /\ chatter < Chatter
    /\ chatter' = chatter + 1 /\ voice' \in Unasked
    /\ UNCHANGED <<server, pipes, owed>> /\ ClientSleeps

Log ==
    /\ Free /\ stderr < Logs
    /\ voice' = Line("log", 0)
    /\ UNCHANGED <<server, pipes, owed, chatter>> /\ ClientSleeps

Emit ==
    /\ server = "up" /\ voice # Silent
    /\ IF voice.kind = "log" THEN stderr < ErrPipe /\ stderr' = stderr + 1 /\ UNCHANGED stdout
       ELSE Len(stdout) < OutPipe /\ stdout' = Append(stdout, voice) /\ UNCHANGED stderr
    /\ voice' = Silent
    /\ UNCHANGED <<server, stdin, owed, chatter>> /\ ClientSleeps

(* It dies, with what it was writing; the lines in its pipe can be read.   *)
Dies ==
    /\ Mortal /\ server = "up"
    /\ server' \in IF Heirs THEN {"dead", "heir"} ELSE {"dead"}
    /\ voice' = Silent /\ owed' = {} /\ stdin' = <<>>
    /\ UNCHANGED <<stdout, stderr, chatter>> /\ ClientSleeps

Serve == Take \/ Reply \/ Emit

Server == Serve \/ Talk \/ Log \/ Dies

-----------------------------------------------------------------------------
(* The client waits: to write a large request, to read a line, or, as the  *)
(* server's heir has it still, for the end of stderr.                      *)
WaitsForServer ==
    \/ client = "sending" /\ stdin # <<>>
    \/ client = "reading" /\ stdout = <<>> /\ server = "up"
    \/ client = "closing" /\ server = "heir"

(* And the server waits for the client: on stderr, which is read at the end *)
(* only, or on stdout, which is not read while a request is written.       *)
Blocked ==
    \/ voice # Silent /\ voice.kind = "log" /\ stderr = ErrPipe
    \/ client = "sending" /\ voice # Silent /\ voice.kind # "log" /\ Len(stdout) = OutPipe
    \/ client = "closing" /\ server = "heir"

-----------------------------------------------------------------------------
(* Properties.                                                             *)

(* What a call returns as its result is the answer to this very call, not  *)
(* the late answer to one that was given up, however the server talks.     *)
AnswersItsCall == client = "ready" /\ got.kind = "result" => got.id = nextId

(* "loop until we see the matching id", mcp_client.py:135: a result is an  *)
(* answer of the server.                                                   *)
ResultIsAnAnswer == client = "ready" => got.kind # "request"
=============================================================================
