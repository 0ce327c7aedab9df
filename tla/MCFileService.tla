--------------------------- MODULE MCFileService ---------------------------
(***************************************************************************)
(* The constants of the instances of FileService that TLC checks.          *)
(***************************************************************************)
EXTENDS FileService, TLC

MCSize == [c \in Contents |-> 1]

\* Empty files: where nothing that is checked reads storage_used.
MCEmpty == [c \in Contents |-> 0]

Symmetry == Permutations(Ids) \cup Permutations(Users)
            \cup Permutations(Handlers) \cup Permutations(Names)
            \cup Permutations(Contents) \cup Permutations(Keys)

\* Bound, as a CONSTRAINT: while a chunked upload is under way, all rows and
\* requests are of its user.  Several users meet while none is.
Alone ==
    \A s \in Uploads : req[s] # Idle =>
        /\ \A i \in Ids : Exists(i) => rows[i].owner = req[s].user
        /\ \A w \in Workers : "user" \in DOMAIN req[w] => req[w].user = req[s].user

=============================================================================
