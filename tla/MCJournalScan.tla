---------------------------- MODULE MCJournalScan ---------------------------
(***************************************************************************)
(* JournalScan next to the state of module Journal that it stands for.     *)
(***************************************************************************)
EXTENDS JournalScan

\* RecordLevel of the current state, held in a variable so that TLC computes it
\* once per state.
VARIABLE level

MCInit == Init /\ level = RecordLevel(cells, synced, w)
MCNext == Next /\ level' = RecordLevel(cells', synced', w')
mcVars == <<vars, level>>

Rec == INSTANCE Journal
         WITH file <- level.file, tail <- level.tail, durable <- level.durable,
              w <- level.w, MaxRecords <- MaxCells

\* Module Journal is what the bytes do on a medium that keeps what it was given:
\* wherever a write is cut and whatever a power loss keeps, the scan finds
\* exactly the records of the record-level session, and a torn tail where that
\* has one (reader.go:26, journaled.go:27).
ImplementsJournal ==
  /\ Rec!Init
  /\ [][~env.holes => [Rec!Next]_(Rec!vars)]_mcVars
=============================================================================
