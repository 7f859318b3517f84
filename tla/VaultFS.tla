------------------------------ MODULE VaultFS ------------------------------
(***************************************************************************)
(* The store without its cache: the vault directory behind the TCP server, *)
(* and the clients that call it.                                           *)
(*                                                                         *)
(* A call opens a connection, sends one request and waits for one          *)
(* response.  The server accepts one connection at a time, in the order    *)
(* they were made, and handles it to the end before the next.  A client    *)
(* that stops waiting does not take its request back.                      *)
(***************************************************************************)
EXTENDS Integers, Sequences

CONSTANTS
    Clients,
    Files,      \* the files of one vault directory
    Paths,      \* the spellings of paths that clients send
    FileOf,     \* the file a path resolves to, or NoFile if it is rejected
    Checked,    \* the paths schema_for routes to a schema
    Contents,   \* file contents
    Valid,      \* the contents the schema accepts
    Backlog,    \* how many connections the server's socket holds
    Faults,     \* the kinds of fault that may happen (FaultKinds)
    MaxFaults   \* how many faults may happen in a behaviour

NoClient == "no client"
NoFile == "no file"
Root == "the directory"
Absent == "absent"
Torn == "torn"   \* what an interrupted write leaves in a file

\* timeout: a client stops waiting for its response
\* crash:   the server process dies, and is started again
\* refused: the disk rejects an operation, nothing touched
\* partial: a write fails after the file was truncated
\* edit:    somebody changes a file without the store
FaultKinds == {"timeout", "crash", "refused", "partial", "edit"}

ASSUME PathsAssumption ==
    FileOf \in [Paths -> Files \cup {NoFile}] /\ NoFile \notin Files /\ Checked \subseteq Paths
    /\ Root \notin Paths
ASSUME ContentsAssumption ==
    Valid \subseteq Contents /\ Absent \notin Contents /\ Torn \notin Contents
ASSUME BoundsAssumption ==
    MaxFaults \in Nat /\ Backlog \in Nat \ {0} /\ Faults \subseteq FaultKinds

Verbs == {"READ", "WRITE", "DELETE", "LIST", "nothing"}  \* "nothing": no complete request
Statuses == {"none", "OK", "NOT_FOUND", "BAD_REQUEST", "SCHEMA_ERROR", "SERVER_ERROR"}

VARIABLES
    disk,     \* the contents of each file
    queue,    \* the connections the server has not closed, in order; those
              \* that are live have a client waiting for the response
    reply,    \* the response a client received last, its body as a set: the
              \* contents of one file, the names of a directory, or nothing
    faults    \* number of faults so far

fsvars == <<disk, queue, reply, faults>>

Fault(kind) == kind \in Faults /\ faults < MaxFaults /\ faults' = faults + 1

Init ==
    /\ disk = [f \in Files |-> Absent]
    /\ queue = <<>>
    /\ reply = [to |-> NoClient, status |-> "none", body |-> {}]
    /\ faults = 0

-----------------------------------------------------------------------------
(* Clients.                                                                *)

\* The kernel keeps connections in the order they were made.
Enqueue(q) == Append(queue, q)

Waits(c) == \E i \in DOMAIN queue : queue[i].client = c /\ queue[i].live

\* What a client may ask: a body goes with WRITE only, a path of a file with
\* the verbs on files.
Requests ==
    {q \in [client : Clients, verb : Verbs, path : Paths \cup {Root},
            body : Contents \cup {Absent}, live : BOOLEAN] :
        /\ q.verb = "WRITE" <=> q.body # Absent
        /\ q.verb \in {"READ", "WRITE", "DELETE"} <=> q.path # Root}

Call(q) ==
    /\ ~Waits(q.client) /\ Len(queue) < Backlog
    /\ queue' = Enqueue(q)
    /\ UNCHANGED <<disk, reply, faults>>

Abandon(c, i) ==
    /\ queue[i].client = c /\ queue[i].live
    /\ queue' = [queue EXCEPT ![i].live = FALSE]
    /\ UNCHANGED <<disk, reply>>

\* The client's socket times out and is closed; the server still has the
\* request.
TimeOut(c) == \E i \in DOMAIN queue : Abandon(c, i) /\ Fault("timeout")

\* A client that has sent nothing closes its connection.
HangUp(c) ==
    \E i \in DOMAIN queue : queue[i].verb = "nothing" /\ Abandon(c, i) /\ UNCHANGED faults

-----------------------------------------------------------------------------
(* The server: handle_connection on the connection at the head.            *)

Target(q) == FileOf[q.path]

\* The response reaches the client only if it is still waiting for it.
Answer(q, status, body) ==
    /\ queue' = Tail(queue)
    /\ reply' = IF q.live THEN [to |-> q.client, status |-> status, body |-> body] ELSE reply

\* dispatch validates what is written before the store looks at the path.
SchemaError_Skipped(q) == q.verb = "WRITE" /\ q.path \in Checked /\ FALSE
SchemaError(q) == q.verb = "WRITE" /\ q.path \in Checked /\ q.body \notin Valid

RefuseSchema(q) ==
    /\ SchemaError(q)
    /\ Answer(q, "SCHEMA_ERROR", {})
    /\ UNCHANGED <<disk, faults>>

RefusePath(q) ==
    /\ q.verb \in {"READ", "WRITE", "DELETE"} /\ ~SchemaError(q)
    /\ Target(q) = NoFile
    /\ Answer(q, "BAD_REQUEST", {})
    /\ UNCHANGED <<disk, faults>>

NotFound(q) ==
    /\ q.verb \in {"READ", "DELETE"}
    /\ Target(q) # NoFile /\ disk[Target(q)] = Absent
    /\ Answer(q, "NOT_FOUND", {})
    /\ UNCHANGED <<disk, faults>>

Read(q) ==
    /\ q.verb = "READ"
    /\ Target(q) # NoFile /\ disk[Target(q)] # Absent
    /\ Answer(q, "OK", {disk[Target(q)]})
    /\ UNCHANGED <<disk, faults>>

List(q) ==
    /\ q.verb = "LIST"
    /\ Answer(q, "OK", {f \in Files : disk[f] # Absent})
    /\ UNCHANGED <<disk, faults>>

MayWrite(q) == q.verb = "WRITE" /\ ~SchemaError(q) /\ Target(q) # NoFile

Write(q) ==
    /\ MayWrite(q)
    /\ disk' = [disk EXCEPT ![Target(q)] = q.body]
    /\ Answer(q, "OK", {})
    /\ UNCHANGED faults

\* The call gets as far as the disk.
Touches(q) ==
    q.verb = "LIST" \/ (q.verb \in {"READ", "WRITE", "DELETE"} /\ ~SchemaError(q) /\ Target(q) # NoFile)

\* The disk raises: before anything is done, or, as write_bytes truncates and
\* then writes, after the file was truncated.
DiskFails(q) ==
    /\ \/ Touches(q) /\ Fault("refused") /\ UNCHANGED disk
       \/ MayWrite(q) /\ Fault("partial") /\ disk' = [disk EXCEPT ![Target(q)] = Torn]
    /\ Answer(q, "SERVER_ERROR", {})

MayDelete(q) == q.verb = "DELETE" /\ Target(q) # NoFile /\ disk[Target(q)] # Absent

Delete(q) ==
    /\ MayDelete(q)
    /\ disk' = [disk EXCEPT ![Target(q)] = Absent]
    /\ Answer(q, "OK", {})
    /\ UNCHANGED faults

\* The end of the stream is taken for bytes that have still to come.
Drop_Unseen(q) ==
    /\ q.verb = "nothing" /\ ~q.live
    /\ UNCHANGED <<queue, disk, reply, faults>>
\* ConnectionClosed: the client went away without sending a request.
Drop(q) ==
    /\ q.verb = "nothing" /\ ~q.live
    /\ queue' = Tail(queue)
    /\ UNCHANGED <<disk, reply, faults>>

Refuse(q) == RefuseSchema(q) \/ RefusePath(q) \/ NotFound(q)

Serve(q) ==
    \/ Refuse(q) \/ Read(q) \/ List(q) \/ Write(q) \/ DiskFails(q) \/ Delete(q) \/ Drop(q)

\* The process dies and every connection with it.  The write at the head of
\* the queue may be done, half done or not begun, the delete done or not.
Crash ==
    /\ Fault("crash")
    /\ \/ UNCHANGED disk
       \/ /\ queue # <<>> /\ MayWrite(Head(queue))
          /\ \E v \in {Head(queue).body, Torn} :
                disk' = [disk EXCEPT ![Target(Head(queue))] = v]
       \/ /\ queue # <<>> /\ MayDelete(Head(queue))
          /\ disk' = [disk EXCEPT ![Target(Head(queue))] = Absent]
    /\ queue' = <<>>
    /\ UNCHANGED reply

Edit(f, v) ==
    /\ Fault("edit")
    /\ disk' = [disk EXCEPT ![f] = v]
    /\ UNCHANGED <<queue, reply>>

ClientStep ==
    \/ \E q \in Requests : q.live /\ Call(q)
    \/ \E c \in Clients : TimeOut(c) \/ HangUp(c)

Next ==
    \/ ClientStep
    \/ queue # <<>> /\ Serve(Head(queue))
    \/ Crash
    \/ \E f \in Files, v \in Contents \cup {Absent} : Edit(f, v)

Spec == Init /\ [][Next]_fsvars
=============================================================================
