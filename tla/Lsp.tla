--------------------------------- MODULE Lsp ---------------------------------
(***************************************************************************)
(* The language server (kei_lsp/src/server.rs) and an editor that talks to *)
(* it over the two pipes of a stdio connection.  The server is one loop    *)
(* that takes a message, updates its document store and sends at most one  *)
(* message back before it takes the next; when the loop has returned, the  *)
(* server waits for the two threads that serve the pipes.  The library     *)
(* below it (lsp-server: framing, bounded channels, io threads, shutdown   *)
(* handshake) is external and modelled from the calls run_stdio and        *)
(* main_loop make.  The reader thread ends with the exit message and with  *)
(* the input; the writer thread ends with its channel, of which run_stdio  *)
(* holds the sender until it returns, or when it cannot write.             *)
(***************************************************************************)
EXTENDS Sequences, Naturals

CONSTANTS
    Uri,            \* documents
    Text,           \* texts a document may have
    EmptyText,      \* the empty source
    Closed,         \* the state of a document that is not open
    MaxSent,        \* bound: messages the editor sends
    MaxChanges,     \* bound: content changes in one didChange
    Capacity,       \* messages to the editor that may be under way
    Diagnose(_),    \* compute_diagnostics of a text, a set
    HoverMarkdown(_)  \* hover_markdown of a text at the one cursor modelled, or "null"

ASSUME TextAssumption == /\ EmptyText \in Text /\ Closed \notin Text
                         /\ HoverMarkdown(EmptyText) = "null"
                         /\ \A t \in Text : HoverMarkdown(t) # "none"
ASSUME BoundAssumption == /\ MaxSent \in Nat /\ MaxChanges \in Nat
                          /\ Capacity \in Nat \ {0}

VARIABLES
    text,       \* editor: the text of each document, or Closed
    view,       \* editor: the diagnostics shown for each document
    hovers,     \* editor: its hover requests; the id of a request is its index
    editor,     \* editor: "editing", "leaving" (shutdown sent), "left", "gone" (pipes closed)
    sent,       \* editor: messages sent
    inbox,      \* messages on their way to the server
    outbox,     \* messages on their way to the editor
    docs,       \* server: DocumentStore
    phase,      \* server: "running", "stopping" (awaits exit), "stopped" (main_loop has
                \* returned), "ended" and "failed" (run_stdio has, without or with an error)
    writer      \* server: the writer thread, "up" or "ended"

vars == <<text, view, hovers, editor, sent, inbox, outbox, docs, phase, writer>>

editorVars == <<text, view, hovers, editor, sent>>

Message == [method : {"didOpen"}, uri : Uri, text : Text]
           \cup [method : {"didChange"}, uri : Uri, changes : UNION {[1..n -> Text] : n \in 0..MaxChanges}]
           \cup [method : {"didClose"}, uri : Uri]
           \cup [method : {"hover"}, uri : Uri, id : 1..MaxSent]
           \cup [method : {"shutdown", "exit", "other"}]

Reply == [method : {"publish"}, uri : Uri, diags : {Diagnose(t) : t \in Text} \cup {{}}]
         \cup [method : {"hover"}, id : 1..MaxSent, markdown : {HoverMarkdown(t) : t \in Text}]
         \cup [method : {"shutdown"}]

Init == /\ text = [u \in Uri |-> Closed] /\ view = [u \in Uri |-> {}]
        /\ hovers = <<>> /\ editor = "editing" /\ sent = 0
        /\ inbox = <<>> /\ outbox = <<>>
        /\ docs = [u \in Uri |-> Closed] /\ phase = "running" /\ writer = "up"
-----------------------------------------------------------------------------
(* The editor. *)

Send(m) == /\ sent < MaxSent /\ sent' = sent + 1
           /\ inbox' = Append(inbox, m)
           /\ UNCHANGED <<view, outbox, docs, phase, writer>>

Open(u) == /\ editor = "editing" /\ text[u] = Closed
           /\ \E t \in Text : /\ Send([method |-> "didOpen", uri |-> u, text |-> t])
                              /\ text' = [text EXCEPT ![u] = t]
           /\ UNCHANGED <<hovers, editor>>

\* Full synchronisation: every content change replaces the whole text.
Edit(u) == /\ editor = "editing" /\ text[u] # Closed
           /\ \E n \in 0..MaxChanges : \E changes \in [1..n -> Text] :
                /\ Send([method |-> "didChange", uri |-> u, changes |-> changes])
                /\ text' = [text EXCEPT ![u] = IF n = 0 THEN @ ELSE changes[n]]
           /\ UNCHANGED <<hovers, editor>>

\* Some editors close their documents after they have asked for the shutdown.
Close(u) == /\ editor \in {"editing", "leaving"} /\ text[u] # Closed
            /\ Send([method |-> "didClose", uri |-> u])
            /\ text' = [text EXCEPT ![u] = Closed]
            /\ UNCHANGED <<hovers, editor>>

Hover(u) == /\ editor = "editing"
            /\ Send([method |-> "hover", uri |-> u, id |-> Len(hovers) + 1])
            /\ hovers' = Append(hovers, [asked |-> text[u], answer |-> "none"])
            /\ UNCHANGED <<text, editor>>

\* A method the server does not know, or parameters it cannot decode.
Other == /\ editor = "editing"
         /\ Send([method |-> "other"])
         /\ UNCHANGED <<text, hovers, editor>>

Leave == /\ editor = "editing"
         /\ Send([method |-> "shutdown"])
         /\ editor' = "leaving"
         /\ UNCHANGED <<text, hovers>>

\* Receives the next message; the answer to shutdown is followed by exit.
Receive ==
    /\ editor # "gone" /\ outbox # <<>> /\ outbox' = Tail(outbox)
    /\ LET m == Head(outbox)
       IN  /\ view' = IF m.method = "publish" THEN [view EXCEPT ![m.uri] = m.diags] ELSE view
           /\ hovers' = IF m.method = "hover"
                        THEN [hovers EXCEPT ![m.id].answer = m.markdown] ELSE hovers
           /\ IF m.method = "shutdown"
              THEN editor' = "left" /\ inbox' = Append(inbox, [method |-> "exit"])
              ELSE UNCHANGED <<editor, inbox>>
    /\ UNCHANGED <<text, sent, docs, phase, writer>>

\* The editor dies: the server sees the end of its input, and a message that is
\* being written ends the writer thread.
Vanish == /\ editor # "gone" /\ editor' = "gone"
          /\ outbox' = <<>>
          /\ \/ UNCHANGED writer
             \/ outbox # <<>> /\ writer' = "ended"
          /\ UNCHANGED <<text, view, hovers, sent, inbox, docs, phase>>
-----------------------------------------------------------------------------
(* The server. *)

Take(method) == /\ phase = "running" /\ inbox # <<>> /\ Head(inbox).method = method
                /\ inbox' = Tail(inbox)
                /\ UNCHANGED editorVars

\* Nobody reads: the writer thread takes the message and ends on writing it, and
\* once it has ended there is no receiver.
Lose(m) == writer' = "ended" /\ UNCHANGED outbox

\* Mutant: a send does not wait for room in the channel.
SendToEditorUnbounded(m) ==
    IF editor = "gone" THEN Lose(m) /\ phase' = (IF writer = "up" THEN phase ELSE "failed")
    ELSE outbox' = Append(outbox, m) /\ UNCHANGED <<phase, writer>>

\* sender.send: blocks while the channel is full, and fails, which ends run_stdio
\* with an error, when there is no receiver.
SendToEditor(m) ==
    IF editor = "gone" THEN Lose(m) /\ phase' = (IF writer = "up" THEN phase ELSE "failed")
    ELSE /\ Len(outbox) < Capacity /\ outbox' = Append(outbox, m)
         /\ UNCHANGED <<phase, writer>>

Publish(u, diags) == SendToEditor([method |-> "publish", uri |-> u, diags |-> diags])

DidOpen == /\ Take("didOpen")
           /\ LET m == Head(inbox)
              IN  docs' = [docs EXCEPT ![m.uri] = m.text] /\ Publish(m.uri, Diagnose(m.text))

\* Mutant: the first content change is taken for the text.
DidChangeFirst ==
    /\ Take("didChange")
    /\ LET m == Head(inbox)
       IN  IF m.changes = <<>> THEN UNCHANGED <<docs, outbox, phase, writer>>
           ELSE LET t == m.changes[1]
                IN  docs' = [docs EXCEPT ![m.uri] = t] /\ Publish(m.uri, Diagnose(t))

DidChange == /\ Take("didChange")
             /\ LET m == Head(inbox)
                IN  IF m.changes = <<>> THEN UNCHANGED <<docs, outbox, phase, writer>>
                    ELSE LET t == m.changes[Len(m.changes)]
                         IN  /\ docs' = [docs EXCEPT ![m.uri] = t]
                             /\ Publish(m.uri, Diagnose(t))

\* Mutant: the text of a closed document stays in the store.
DidCloseKeeps == /\ Take("didClose")
                 /\ Publish(Head(inbox).uri, {})
                 /\ UNCHANGED docs

DidClose == /\ Take("didClose")
            /\ LET m == Head(inbox)
               IN  docs' = [docs EXCEPT ![m.uri] = Closed] /\ Publish(m.uri, {})

\* Mutant: a request about an unknown document is dropped.
AnswerHoverKnown ==
    /\ Take("hover")
    /\ LET m == Head(inbox)
       IN  IF docs[m.uri] = Closed THEN UNCHANGED <<outbox, phase, writer>>
           ELSE SendToEditor([method |-> "hover", id |-> m.id,
                        markdown |-> HoverMarkdown(docs[m.uri])])
    /\ UNCHANGED docs

AnswerHover ==
    /\ Take("hover")
    /\ LET m == Head(inbox)
           source == IF docs[m.uri] = Closed THEN EmptyText ELSE docs[m.uri]
       IN  SendToEditor([method |-> "hover", id |-> m.id, markdown |-> HoverMarkdown(source)])
    /\ UNCHANGED docs

\* Unknown requests are never answered, unknown notifications have no effect.
Ignore == /\ Take("other")
          /\ UNCHANGED <<outbox, docs, phase, writer>>

\* Mutant: the loop goes on after the answer.
HandleShutdownGoesOn == /\ Take("shutdown")
                        /\ Len(outbox) < Capacity
                        /\ outbox' = Append(outbox, [method |-> "shutdown"])
                        /\ UNCHANGED <<docs, phase, writer>>

\* handle_shutdown: answers (a failed send is ignored), then awaits exit.
HandleShutdown ==
    /\ Take("shutdown")
    /\ LET m == [method |-> "shutdown"]
       IN  IF editor = "gone" THEN Lose(m)
           ELSE Len(outbox) < Capacity /\ outbox' = Append(outbox, m) /\ UNCHANGED writer
    /\ phase' = "stopping"
    /\ UNCHANGED docs

\* The message after shutdown ends the loop, whatever it is.
AwaitExit == /\ phase = "stopping" /\ inbox # <<>>
             /\ inbox' = Tail(inbox)
             /\ phase' = IF Head(inbox).method = "exit" THEN "stopped" ELSE "failed"
             /\ UNCHANGED <<editorVars, outbox, docs, writer>>

\* 30 seconds have passed, or the input has ended.
ExitTimeout == /\ phase = "stopping" /\ inbox = <<>>
               /\ phase' = "failed"
               /\ UNCHANGED <<editorVars, inbox, outbox, docs, writer>>

\* The receiver is closed and drained: the loop returns.
EndOfInput == /\ phase = "running" /\ editor = "gone" /\ inbox = <<>>
              /\ phase' = "stopped"
              /\ UNCHANGED <<editorVars, inbox, outbox, docs, writer>>

\* io_threads.join, after the loop: the reader thread has ended, and the writer
\* thread is waited for while the sender of its channel is still alive.
Join == /\ phase = "stopped" /\ writer = "ended"
        /\ phase' = "ended"
        /\ UNCHANGED <<editorVars, inbox, outbox, docs, writer>>

Serve == \/ DidOpen \/ DidChange \/ DidClose \/ AnswerHover \/ Ignore
         \/ HandleShutdown \/ AwaitExit \/ ExitTimeout \/ EndOfInput \/ Join

Next == \/ \E u \in Uri : Open(u) \/ Edit(u) \/ Close(u) \/ Hover(u)
        \/ Other \/ Leave \/ Receive \/ Vanish
        \/ Serve

\* The loop runs whenever it can, and the editor reads what it is sent.
Spec == Init /\ [][Next]_vars /\ WF_vars(Serve) /\ WF_vars(Receive)
-----------------------------------------------------------------------------
TypeOK == /\ text \in [Uri -> Text \cup {Closed}] /\ docs \in [Uri -> Text \cup {Closed}]
          /\ DOMAIN view = Uri
          /\ editor \in {"editing", "leaving", "left", "gone"}
          /\ phase \in {"running", "stopping", "stopped", "ended", "failed"}
          /\ writer \in {"up", "ended"}
          /\ \A i \in DOMAIN inbox : inbox[i] \in Message
          /\ Len(outbox) <= Capacity
          /\ \A i \in DOMAIN outbox : outbox[i] \in Reply

Quiet == inbox = <<>> /\ outbox = <<>>

\* Once every message has been handled, the editor shows for each document the
\* diagnostics of the text it has now, and nothing for a closed one, although
\* publishDiagnostics carries no version (publish_for sets version to None).
ViewSettles ==
    Quiet /\ phase = "running" /\ editor # "gone" =>
        \A u \in Uri : view[u] = IF text[u] = Closed THEN {} ELSE Diagnose(text[u])

\* A hover is answered from the text the editor had when it asked, although
\* edits were under way before and after the request; null for a closed file.
HoverIsOfItsText ==
    \A i \in DOMAIN hovers :
        hovers[i].answer # "none" =>
            hovers[i].answer =
                HoverMarkdown(IF hovers[i].asked = Closed THEN EmptyText ELSE hovers[i].asked)

Waiting(i) == i \in DOMAIN hovers /\ hovers[i].answer = "none"

\* Main_loop returns to run_stdio, or run_stdio to main.
Returned == phase \in {"stopped", "ended", "failed"}

\* Every hover is answered, for a known or unknown document, unless the server
\* returns from its loop or the editor leaves first.
HoversAnswered ==
    \A i \in 1..MaxSent : Waiting(i) ~> (~Waiting(i) \/ Returned \/ editor = "gone")

\* io_threads.join waits for a thread that waits for a message: the sender of its
\* channel is dropped when run_stdio returns, and not before.
JoinWaits == phase = "stopped" /\ writer = "up"

\* A server whose editor has asked for the shutdown or is gone returns from its loop,
\* whatever is still under way in both directions, and then ends, unless the join
\* after the loop waits for a writer thread that has lost nothing yet.
EndsUnlessJoinWaits ==
    []<>(editor = "editing" \/ phase \in {"ended", "failed"} \/ JoinWaits)
=============================================================================
