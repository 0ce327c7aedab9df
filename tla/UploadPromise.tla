--------------------------- MODULE UploadPromise ---------------------------
(***************************************************************************)
(* What a chunked upload promises the client that does it.  An upload id   *)
(* opens once, takes chunks until it is closed and never opens again.  Who *)
(* was sure of every chunk when he asked for the file, and has sent none   *)
(* while it was put together, gets the file he sent.                       *)
(***************************************************************************)
EXTENDS Naturals

CONSTANTS Uploads, Chunks, Requests, NoPledge

VARIABLES
    life,       \* "unknown", "opening", "open", "closed"
    sure,       \* the chunks of each upload that its client is sure of
    pledge      \* what each request for a file has promised so far: `sound` is
                \* the guarantee, `file` the outcome

promiseVars == <<life, sure, pledge>>

Init ==
    /\ life = [u \in Uploads |-> "unknown"]
    /\ sure = [u \in Uploads |-> {}]
    /\ pledge = [w \in Requests |-> NoPledge]

Begin(u) ==
    /\ life[u] = "unknown"
    /\ life' = [life EXCEPT ![u] = "opening"]
    /\ UNCHANGED <<sure, pledge>>

Open(u) ==
    /\ life[u] = "opening"
    /\ life' = [life EXCEPT ![u] = "open"]
    /\ UNCHANGED <<sure, pledge>>

\* Completed, cancelled or cleaned away, or given up on while it was opened.
Close(u) ==
    /\ life[u] # "unknown"
    /\ life' = [life EXCEPT ![u] = "closed"]
    /\ UNCHANGED <<sure, pledge>>

\* A chunk is sent, again perhaps: files that are being put together lose their
\* guarantee.
Send(u, i) ==
    /\ life[u] = "open"
    /\ sure' = [sure EXCEPT ![u] = @ \ {i}]
    /\ pledge' = [w \in Requests |->
                     IF pledge[w] # NoPledge /\ pledge[w].upload = u /\ pledge[w].file = "partial"
                     THEN [pledge[w] EXCEPT !.sound = FALSE] ELSE pledge[w]]
    /\ UNCHANGED life

Confirm(u, i) ==
    /\ life[u] # "unknown"
    /\ sure' = [sure EXCEPT ![u] = @ \cup {i}]
    /\ UNCHANGED <<life, pledge>>

Ask(w, u) ==
    /\ pledge[w] = NoPledge
    /\ life[u] = "open"
    /\ \E sound \in BOOLEAN :
        /\ sound => sure[u] = Chunks
        /\ pledge' = [pledge EXCEPT ![w] = [upload |-> u, sound |-> sound, file |-> "partial"]]
    /\ UNCHANGED <<life, sure>>

Assemble(w) ==
    /\ pledge[w] # NoPledge /\ pledge[w].file = "partial"
    /\ \E file \in {"whole", "torn"} :
        /\ pledge[w].sound => file = "whole"
        /\ pledge' = [pledge EXCEPT ![w].file = file]
    /\ UNCHANGED <<life, sure>>

\* The answer, or the error; the upload may be closed with it.
Answer(w) ==
    /\ pledge[w] # NoPledge
    /\ pledge' = [pledge EXCEPT ![w] = NoPledge]
    /\ life' \in {life, [life EXCEPT ![pledge[w].upload] = "closed"]}
    /\ UNCHANGED sure

\* Requests are lost; what was not open yet will not be.
Restart ==
    /\ pledge' = [w \in Requests |-> NoPledge]
    /\ life' = [u \in Uploads |-> IF life[u] = "opening" THEN "closed" ELSE life[u]]
    /\ UNCHANGED sure

Next ==
    \/ \E u \in Uploads :
          \/ Begin(u) \/ Open(u) \/ Close(u)
          \/ \E i \in Chunks : Send(u, i) \/ Confirm(u, i)
          \/ \E w \in Requests : Ask(w, u)
    \/ \E w \in Requests : Assemble(w) \/ Answer(w)
    \/ Restart

Spec == Init /\ [][Next]_promiseVars
=============================================================================
