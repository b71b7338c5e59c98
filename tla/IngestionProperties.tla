------------------------ MODULE IngestionProperties ------------------------
(***************************************************************************)
(* What the two stores owe each other and what is owed to a caller.        *)
(***************************************************************************)
EXTENDS Ingestion

OnList(k) == k \in Range(dead)

\* A full list drops its oldest entry at each push: a row that was pushed is on
\* the list as long as the list is not full.
Kept(k) == rows[k].mark # "none" \/ OnList(k) \/ (k \in buried /\ Len(dead) >= DeadletterMax)

\* A passage of an ingest that was answered with success stays in Chroma or is
\* on the dead-letter list (_deadletter_orphan before the purge, and a rollback
\* that only takes the request's own rows), unless the list is full and the
\* passage was on it, a dead-letter push failed, or two writers met at the
\* artifact.
AnsweredIsKept ==
    {"overlapped", "unburied"} \cap excused = {} => \A k \in answered : Kept(k)

\* Every passage an artifact's node lists in chunk_ids is in Chroma or on the
\* dead-letter list, with the same exceptions: neither _rollback_chromadb nor
\* the recovery's purge may take a row from under a node.
ListedIsStored ==
    {"overlapped", "unburied"} \cap excused = {} =>
        \A a \in Contents : There(a) => \A x \in nodes[a].listed : Kept(<<a, x>>)

Settled ==
    /\ job.at = "idle" /\ \A t \in Threads : thread[t].at = "idle"
    /\ \A k \in Keys : rows[k].mark # "pending"
    /\ buried = {}

\* What the retrieval gate lets through: not pending, not closed.
Shown(a) == {x \in Texts : rows[<<a, x>>].mark \in {"bare", "committed"} /\ ~rows[<<a, x>>].closed}

\* Once requests and recovery have come to rest, retrieval shows exactly the
\* passages the artifact's node lists, and nothing of an artifact without a
\* node; and the node lists the passages of the content whose hash it has: the
\* pending/committed protocol and the closing and reopening of rows across
\* versions, through every failed call and death, while nothing was
\* dead-lettered and no event but "forwarded" has happened.
StoresAgree ==
    Settled /\ excused \subseteq {"forwarded"} =>
        \A a \in Contents :
            /\ Shown(a) = IF There(a) THEN nodes[a].listed ELSE {}
            /\ There(a) /\ nodes[a].hash # Blank /\ "forwarded" \notin excused
                   => nodes[a].listed = TextsOf[nodes[a].hash]

\* Once requests stop, the recovery job leaves no row hidden as pending, closed
\* rows of an older version included (scan_orphans and its retry budget).
PendingResolves == <>[](\A k \in Keys : rows[k].mark # "pending")
=============================================================================
