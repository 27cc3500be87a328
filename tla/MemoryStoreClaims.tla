------------------------ MODULE MemoryStoreClaims ------------------------
(* A sentence of the documentation that the memory store does not keep.   *)
EXTENDS MCMemoryStore

\* backend.go:35-38 says of the version: "A caller that wants to mutate a
\* record must pass back the version it read; a mismatch is reported as
\* ErrConflict so concurrent writers cannot silently clobber each other."  An
\* accepted Update then always replaces the record its caller read.
NoSilentClobber ==
    [][\A c \in Clients, edit \in Edits :
        Update(c, edit) => copy[c].birth = births[copy[c].id]]_vars
===========================================================================
