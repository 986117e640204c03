---------------------------- MODULE SessionTree ----------------------------
(***************************************************************************)
(* SessionManager (packages/coding-agent/src/core/session-manager.ts): a   *)
(* conversation is a tree of entries, kept in memory by one manager and in *)
(* an append-only JSONL file by its process.  The file is created late,    *)
(* with the first assistant message; later entries are appended to it one  *)
(* line at a time.  Every operation is synchronous, so the only thing that *)
(* can fall into one is a write that fails or the death of the process,    *)
(* and both may leave a part of what was to be written.                    *)
(*                                                                         *)
(* An entry is its kind ("other" stands for every kind that is neither an  *)
(* assistant message nor a label), its id, its parent's and, for a label,  *)
(* its target's; 0 is no entry.  Left out: the contents, the migration of  *)
(* old files, the usage entries a fork adds, sessions without a file, and  *)
(* a second process on the same file.                                      *)
(***************************************************************************)
EXTENDS Integers, Sequences, FiniteSets

CONSTANTS
  Files,        \* the paths of session files
  NoFile,       \* what a manager that is not there has open
  MaxEntries,   \* bound: entries ever created
  MaxSetbacks   \* bound: writes that fail and processes that quit or die

ASSUME TreeAssumption ==
  NoFile \notin Files /\ {MaxEntries, MaxSetbacks} \subseteq Nat

VARIABLES
  disk,      \* the files: the lines that parse, and how the last one ends
  running,   \* a process with a manager is up
  current,   \* sessionFile
  memory,    \* fileEntries, without the header
  leaf,      \* leafId
  flushed,   \* the file is known to be written
  nextId, setbacks,  \* counted for the bounds
  said,      \* history: what preceded each entry when it was created
  piece,     \* history: a failed append left a piece of a line in the file
  spoiled    \* history: files with an entry written onto such a piece, and
             \* forks made of them

manager == <<running, current, memory, leaf, flushed>>
historyVars == <<said, piece, spoiled>>
vars == <<disk, manager, nextId, setbacks, historyVars>>

Header == [kind |-> "session", id |-> 0, parent |-> 0, target |-> 0]

\* After the last newline of a file comes nothing, a piece of a line that does
\* not parse, or a line that lacks nothing but its newline and counts as one.
Missing == [exists |-> FALSE, lines |-> <<>>, end |-> "newline"]
File(lines, end) == [exists |-> TRUE, lines |-> lines, end |-> end]
Empty(file) == file.lines = <<>> /\ file.end = "newline"

IsLabel(entry) == entry.kind \in {"label", "unlabel"}
Ids(entries) == {entries[i].id : i \in DOMAIN entries}
Front(entries) == SubSeq(entries, 1, Len(entries) - 1)
Last(entries) == entries[Len(entries)]
HasAssistant(entries) == \E i \in DOMAIN entries : entries[i].kind = "assistant"

Init ==
  /\ disk = [f \in Files |-> Missing]
  /\ running = FALSE /\ current = NoFile /\ memory = <<>> /\ leaf = 0
  /\ flushed = FALSE
  /\ nextId = 1 /\ setbacks = 0
  /\ said = [i \in 1 .. MaxEntries |-> {}]
  /\ piece = FALSE /\ spoiled = {}
----------------------------------------------------------------------------
(* Reading.                                                                *)

\* loadEntriesFromFile skips lines that do not parse; the first that does has
\* to be the header.
Valid(file) == file.lines # <<>> /\ Head(file.lines) = Header
Loaded(file) == Tail(file.lines)

\* Mutant of Ended: the last line is left as it is.
Unended(file) == IF Empty(file) THEN File(<<Header>>, "newline") ELSE file

\* What opening a session does to its file: a last line without a newline gets
\* one, an empty file gets a header.
Ended(file) == File(IF Empty(file) THEN <<Header>> ELSE file.lines, "newline")

\* buildSessionPath and getBranch go from an entry to its parent up to a root:
\* they meet what every set that holds the entry, and the parents of its
\* elements, has to hold.
Parents(entries, k) == {j \in 1 .. k - 1 : entries[j].id = entries[k].parent}
Lineage(entries, i) ==
  {j \in 1 .. i : \A S \in SUBSET (1 .. i) :
                    i \in S /\ (\A k \in S : Parents(entries, k) \subseteq S) => j \in S}

\* The entries at these places, in the order of the file.
InOrder(entries, places) ==
  [k \in 1 .. Cardinality(places) |->
     entries[CHOOSE p \in places : Cardinality(places \cap (1 .. p)) = k]]

\* What was said on the way to an entry.
Conversation(entries, i) == {j \in Lineage(entries, i) : ~IsLabel(entries[j])}

\* labelsById: the targets whose latest label entry sets one.
Labelled(entries) ==
  {t \in Ids(entries) : \E i \in DOMAIN entries :
     /\ entries[i].kind = "label" /\ entries[i].target = t
     /\ \A j \in i + 1 .. Len(entries) : IsLabel(entries[j]) => entries[j].target # t}
----------------------------------------------------------------------------
(* Writing.  A write that stops in the middle leaves some whole lines and  *)
(* perhaps a piece of the next; a crash may also leave a line that lacks   *)
(* nothing but its newline.                                                *)

\* appendFileSync: whatever has no newline yet becomes one line with what
\* follows, and that line does not parse.
Joined(file) == IF file.end = "line" THEN Front(file.lines) ELSE file.lines
Appended(file, line) ==
  File(IF file.end = "newline" THEN Append(file.lines, line) ELSE Joined(file), "newline")
PartlyAppended(file) == {file, File(Joined(file), "piece")}

\* Lines written to a new or truncated file.
PartlyCreated(lines) ==
  {File(SubSeq(lines, 1, k), end) : k \in 0 .. Len(lines) - 1, end \in {"newline", "piece"}}

\* _persist: what the file of the session becomes with the entries and, in the
\* middle of it, may become.  An existing file is never created again.
FirstWrite(entries) == HasAssistant(entries) /\ ~flushed
Deferred(entries) == ~HasAssistant(entries) /\ ~flushed
Refused(entries) == FirstWrite(entries) /\ disk[current].exists
Persisted(entries) ==
  IF Deferred(entries) THEN disk[current]
  ELSE IF FirstWrite(entries) THEN File(<<Header>> \o entries, "newline")
  ELSE Appended(disk[current], Last(entries))
PartlyPersisted(entries) ==
  IF Deferred(entries) THEN {}
  ELSE IF FirstWrite(entries) THEN {Missing} \cup PartlyCreated(<<Header>> \o entries)
  ELSE PartlyAppended(disk[current])
Unterminated(entries) ==
  IF FirstWrite(entries) \/ disk[current].end = "newline"
  THEN {File(Persisted(entries).lines, "line")} ELSE {}

\* The file of the session becomes this; whatever is written onto a piece of a
\* line is lost.
Becomes(file) ==
  /\ disk' = [disk EXCEPT ![current] = file]
  /\ spoiled' = IF piece /\ file # disk[current] THEN spoiled \cup {current} ELSE spoiled

\* What has been said up to an entry, labels aside.
Before(parent) == IF parent = 0 THEN {} ELSE said[parent]
SaidBy(entry) == Before(entry.parent) \cup (IF IsLabel(entry) THEN {} ELSE {entry.id})

SetBack == setbacks < MaxSetbacks /\ setbacks' = setbacks + 1

\* The process ends, in the middle of a write or not; its memory is gone.
Die ==
  /\ SetBack
  /\ running' = FALSE /\ current' = NoFile /\ memory' = <<>> /\ leaf' = 0
  /\ flushed' = FALSE /\ piece' = FALSE

\* A write failed in a process that goes on.
WriteFails == SetBack /\ UNCHANGED manager

\* _appendEntry of a new entry; from is the leaf it found.
Activate(entry) == memory' = Append(memory, entry) /\ leaf' = entry.id

RolledBack(entry, from) == leaf' = from /\ UNCHANGED memory

AppendSucceeds(entry) ==
  LET entries == Append(memory, entry) IN
  /\ ~Refused(entries)
  /\ Becomes(Persisted(entries))
  /\ piece' = (piece /\ Deferred(entries))
  /\ flushed' = ~Deferred(entries)
  /\ Activate(entry)
  /\ nextId' = nextId + 1 /\ said' = [said EXCEPT ![nextId] = SaidBy(entry)]
  /\ UNCHANGED <<running, current, setbacks>>

AppendFails(entry, from) ==
  LET entries == Append(memory, entry) IN
  /\ \/ /\ Refused(entries)
        /\ UNCHANGED <<disk, setbacks, piece, spoiled>>
     \/ /\ ~Refused(entries) /\ SetBack
        /\ \E partial \in PartlyPersisted(entries) :
             /\ Becomes(partial)
             /\ piece' = (flushed /\ partial.end # "newline")
  /\ RolledBack(entry, from)
  /\ UNCHANGED <<running, current, flushed, nextId, said>>

AppendDies(entry) ==
  LET entries == Append(memory, entry) IN
  /\ ~Refused(entries) /\ ~Deferred(entries)
  /\ \E partial \in PartlyPersisted(entries) \cup Unterminated(entries) :
       Becomes(partial)
  /\ Die
  /\ nextId' = nextId + 1 /\ said' = [said EXCEPT ![nextId] = SaidBy(entry)]

AppendEntry(kind, parent, target) ==
  LET entry == [kind |-> kind, id |-> nextId, parent |-> parent, target |-> target] IN
  /\ running /\ nextId =< MaxEntries
  /\ AppendSucceeds(entry) \/ AppendFails(entry, parent) \/ AppendDies(entry)
----------------------------------------------------------------------------
(* The operations of a manager.                                            *)

\* appendMessage, appendCompaction, appendCustomEntry and their like.
AppendMessage == \E kind \in {"assistant", "other"} : AppendEntry(kind, leaf, 0)

\* A label is set or cleared; a needless change of one would add an entry that
\* counts for nothing and is not asked for.
AppendLabelChange ==
  \E target \in Ids(memory) :
    AppendEntry(IF target \in Labelled(memory) THEN "unlabel" ELSE "label", leaf, target)

\* branchWithSummary moves the leaf before it appends: a failed write leaves
\* it there.
BranchWithSummary == \E from \in Ids(memory) \cup {0} : AppendEntry("other", from, 0)

\* branch and resetLeaf: where the leaf is goes to no file, and matters only to
\* an entry still to come.
MoveLeaf ==
  /\ running /\ nextId =< MaxEntries
  /\ leaf' \in Ids(memory) \cup {0}
  /\ UNCHANGED <<disk, running, current, memory, flushed, nextId, setbacks, historyVars>>

\* persistNewSessionHeader: the file is created before the first answer.
PersistNewSessionHeader ==
  LET lines == <<Header>> \o memory IN
  /\ running /\ ~flushed /\ ~disk[current].exists
  /\ \/ /\ disk' = [disk EXCEPT ![current] = File(lines, "newline")]
        /\ flushed' = TRUE
        /\ UNCHANGED <<running, current, memory, leaf, setbacks>>
     \/ /\ \E partial \in PartlyCreated(lines) :
             disk' = [disk EXCEPT ![current] = partial]
        /\ WriteFails \/ Die
  /\ UNCHANGED <<nextId, historyVars>>

Fresh == {f \in Files \ {current} : ~disk[f].exists}

\* create and newSession: a session that has no file yet.
NewSession ==
  /\ current' \in Fresh
  /\ running' = TRUE /\ memory' = <<>> /\ leaf' = 0 /\ flushed' = FALSE
  /\ piece' = FALSE
  /\ UNCHANGED <<disk, nextId, setbacks, said, spoiled>>

\* _setSessionFile and _buildIndex: the leaf is the last entry of the file.  A
\* file that is neither empty nor a session is refused and left as it is.
Open ==
  /\ ~running
  /\ \E f \in Files :
       /\ disk[f].exists /\ (Empty(disk[f]) \/ Valid(disk[f]))
       /\ disk' = [disk EXCEPT ![f] = Ended(disk[f])]
       /\ current' = f
       /\ memory' = Loaded(Ended(disk[f]))
       /\ leaf' = IF memory' = <<>> THEN 0 ELSE Last(memory').id
  /\ running' = TRUE /\ flushed' = TRUE
  /\ UNCHANGED <<nextId, setbacks, historyVars>>

Quit ==
  /\ running /\ Die
  /\ UNCHANGED <<disk, nextId, said, spoiled>>
----------------------------------------------------------------------------
(* A fork opens the session's file once more, takes the branch of one      *)
(* entry out of it and makes it a session of its own.                      *)

\* Mutant of Rechained: the entries keep their parents.
Unchained(kept) == kept

\* createBranchedSession drops the labels of the branch, which later entries
\* may hang on, and so chains what remains anew.
Rechained(kept) ==
  [k \in DOMAIN kept |->
     [kept[k] EXCEPT !.parent = IF k = 1 THEN 0 ELSE kept[k - 1].id]]

\* The labels still set in it follow at its end, here in the order of their
\* targets: no property looks at the order of labels.
Relabelled(kept, labelled) ==
  LET targets == InOrder(kept, {k \in DOMAIN kept : kept[k].id \in labelled})
  IN  [k \in DOMAIN targets |->
         [kind |-> "label", id |-> nextId + k - 1, target |-> targets[k].id,
          parent |-> IF k > 1 THEN nextId + k - 2 ELSE Last(kept).id]]

\* The manager of the fork takes over once its file is written, or, without an
\* answer in the branch, before there is a file; if it cannot be written the
\* session goes on in the old one.
Fork ==
  /\ running /\ disk[current].exists /\ Valid(disk[current])
  /\ \E i \in DOMAIN Loaded(disk[current]), f \in Fresh :
       LET source == Loaded(disk[current])
           kept == InOrder(source, Conversation(source, i))
           labels == Relabelled(kept, Labelled(source))
           copy == Rechained(kept) \o labels
           opened == [disk EXCEPT ![current] = Ended(disk[current])]
       IN
       /\ source[i].id \in Ids(memory)
       /\ nextId' = nextId + Len(labels) /\ nextId' =< MaxEntries + 1
       /\ said' = [x \in DOMAIN said |->
                     IF x \in Ids(labels) THEN Before(Last(kept).id) ELSE said[x]]
       /\ \/ /\ disk' = IF HasAssistant(copy)
                        THEN [opened EXCEPT ![f] = File(<<Header>> \o copy, "newline")]
                        ELSE opened
             /\ current' = f /\ memory' = copy /\ flushed' = HasAssistant(copy)
             /\ leaf' = IF copy = <<>> THEN 0 ELSE Last(copy).id
             /\ UNCHANGED <<running, setbacks>>
          \/ /\ HasAssistant(copy)
             /\ \E partial \in PartlyCreated(<<Header>> \o copy) :
                  disk' = [opened EXCEPT ![f] = partial]
             /\ WriteFails \/ Die
       /\ piece' = FALSE
       /\ spoiled' = IF current \in spoiled THEN spoiled \cup {f} ELSE spoiled
----------------------------------------------------------------------------
Next ==
  \/ AppendMessage
  \/ AppendLabelChange
  \/ BranchWithSummary
  \/ MoveLeaf
  \/ PersistNewSessionHeader
  \/ NewSession
  \/ Open
  \/ Quit
  \/ Fork

Spec == Init /\ [][Next]_vars
----------------------------------------------------------------------------
(* Properties.                                                             *)

\* What was acknowledged is what a restart would read: once a session has its
\* file, memory and file agree entry by entry and in order, whichever writes
\* failed and whatever a crash left for this process to open or to fork.  In a
\* spoiled file an acknowledged entry is lost with the piece it was written onto.
MemoryIsFile ==
  running /\ flushed /\ current \notin spoiled =>
    Valid(disk[current]) /\ Loaded(disk[current]) = memory

\* An entry that can be read at all is read with everything that was said
\* before it: no crash, failed write or fork cuts or rearranges a branch.  It
\* holds of every entry on the way as well, and so of the order.
ConversationKept ==
  \A f \in Files \ spoiled : disk[f].exists /\ Valid(disk[f]) =>
    LET entries == Loaded(disk[f])
    IN  \A i \in DOMAIN entries :
          said[entries[i].id] = {entries[j].id : j \in Conversation(entries, i)}
=============================================================================
