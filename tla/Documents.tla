------------------------------ MODULE Documents ------------------------------
(***************************************************************************)
(* The versioned prompt documents of a creator and the prompt compiled     *)
(* from them for a live reply.  A process start copies the legacy texts    *)
(* into the store once; operators save drafts and activate revisions from  *)
(* several dashboard threads.  A transaction is READ COMMITTED: an UPDATE  *)
(* sees the rows committed when it began, waits for those another          *)
(* transaction has changed, and looks at their status again.               *)
(***************************************************************************)
EXTENDS Integers, Sequences, FiniteSets, FiniteSetsExt, SequencesExt

CONSTANTS
    Operators,
    Bootstrap,    \* what bootstrap creates, in order: [type, status]
    Order,        \* the document types in the order of a prompt, sales left out
    Size,         \* the size of a document, by type
    Rules, Label, Budget,   \* runtime_rules, a block's label, the prompt's budget
    TurnSizes,    \* of a fan's newest turn with its label
    MaxDocs       \* the bound on rows

\* bootstrap's originals: a dictionary, by document type.  Sizes are lengths; the types are
\* not the labels of the other blocks.
ASSUME DocumentsAssumption ==
    /\ Order \in Seq(STRING) /\ Range(Order) \cap {"rules", "turn", "example"} = {}
    /\ Size \in [Range(Order) -> Nat] /\ TurnSizes \subseteq Nat
    /\ Rules \in Nat /\ Label \in Nat /\ Budget \in Nat
    /\ Bootstrap \in Seq([type : Range(Order) \cup {"sales_playbook"}, status : {"active", "draft"}])
    /\ \A i, j \in DOMAIN Bootstrap :
          Bootstrap[i].type = Bootstrap[j].type /\ {Bootstrap[i].status, Bootstrap[j].status} = {"active"}
              => i = j

VARIABLES
    docs,         \* conversation_documents, committed: [type, rev, status]
    boot,         \* documents bootstrap has created in this process, -1 when it is over
    tx,           \* the transaction of each operator
    raced,        \* types last published over a publication it did not see (history)
    prompt        \* the prompt compiled last

documentVars == <<docs, boot, tx, raced, prompt>>

NoTx == [pc |-> "none", doc |-> 0, sees |-> {}, holds |-> {}, overtaken |-> FALSE]
NoPrompt == [made |-> FALSE, turn |-> 0, has |-> {}, used |-> 0]

DocumentsInit ==
    /\ docs = <<>>
    /\ boot = 0
    /\ tx = [o \in Operators |-> NoTx]
    /\ raced = {}
    /\ prompt = NoPrompt

-----------------------------------------------------------------------------
Active(type) == {d \in DOMAIN docs : docs[d].type = type /\ docs[d].status = "active"}
Revision(type) == 1 + Max({0} \cup {docs[d].rev : d \in {e \in DOMAIN docs : docs[e].type = type}})
New(type, status) == [type |-> type, rev |-> Revision(type), status |-> status]

\* What is active is archived, then the revision is active.
Published(d, sees) ==
    [e \in DOMAIN docs |->
        IF e = d THEN [docs[e] EXCEPT !.status = "active"]
        ELSE IF e \in sees /\ docs[e].status = "active" THEN [docs[e] EXCEPT !.status = "archived"]
        ELSE docs[e]]

\* Rows another open transaction has locked.
Locked(o) == UNION {tx[p].holds : p \in Operators \ {o}}

\* bootstrap, one transaction per document; a store that holds any is left alone.
Boot ==
    /\ boot >= 0
    /\ IF boot = Len(Bootstrap) \/ (boot = 0 /\ docs # <<>>)
       THEN boot' = -1 /\ docs' = docs
       ELSE /\ boot' = boot + 1
            /\ docs' = Append(docs, New(Bootstrap[boot + 1].type, Bootstrap[boot + 1].status))
    /\ UNCHANGED <<tx, raced, prompt>>

\* The process stops; what it had not committed is rolled back.
StopProcess ==
    /\ boot' = 0
    /\ tx' = [o \in Operators |-> NoTx]
    /\ UNCHANGED <<docs, raced, prompt>>

\* create_revision from the dashboard saves a draft.
SaveDraft(type) ==
    /\ boot = -1 /\ Len(docs) < MaxDocs
    /\ docs' = Append(docs, New(type, "draft"))
    /\ UNCHANGED <<boot, tx, raced, prompt>>

\* activate: SELECT ... FOR UPDATE of the revision; the playbook is refused.
Select(o, d) ==
    /\ boot = -1
    /\ tx[o].pc = "none"
    /\ docs[d].type # "sales_playbook"
    /\ d \notin Locked(o)
    /\ tx' = [tx EXCEPT ![o] = [NoTx EXCEPT !.pc = "selected", !.doc = d, !.holds = {d}]]
    /\ UNCHANGED <<docs, boot, raced, prompt>>

\* Its UPDATE of the active revisions begins: it holds what no other transaction holds.
Archive(o) ==
    /\ tx[o].pc = "selected"
    /\ LET sees == Active(docs[tx[o].doc].type)
       IN tx' = [tx EXCEPT ![o].pc = "archiving", ![o].sees = sees,
                           ![o].holds = tx[o].holds \cup (sees \ Locked(o))]
    /\ UNCHANGED <<docs, boot, raced, prompt>>

\* Mutant: what is active already is not archived.
CommitPlain(o) ==
    /\ tx[o].pc = "archiving"
    /\ docs' = Published(tx[o].doc, {})
    /\ tx' = [tx EXCEPT ![o] = NoTx]
    /\ UNCHANGED <<boot, raced, prompt>>

\* The rows it waited for are free; the revision is active and the transaction commits.
Commit(o) ==
    /\ tx[o].pc = "archiving"
    /\ tx[o].sees \cap Locked(o) = {}
    /\ LET type == docs[tx[o].doc].type IN
       /\ docs' = Published(tx[o].doc, tx[o].sees)
       /\ tx' = [p \in Operators |->
                    IF p = o THEN NoTx
                    ELSE IF tx[p].pc = "archiving" /\ docs[tx[p].doc].type = type
                         THEN [tx[p] EXCEPT !.overtaken = TRUE]
                         ELSE tx[p]]
       /\ raced' = IF tx[o].overtaken THEN raced \cup {type} ELSE raced \ {type}
    /\ UNCHANGED <<boot, prompt>>

\* An error, or the database ends a deadlock.
RollBack(o) ==
    /\ tx[o].pc # "none"
    /\ tx' = [tx EXCEPT ![o] = NoTx]
    /\ UNCHANGED <<docs, boot, raced, prompt>>

-----------------------------------------------------------------------------
\* PromptCompiler.compile: a block is taken when it fits; all but the two required ones
\* leave room for the newest turn.  A document that is not active gives no block.
Block(name, size) == [name |-> name, size |-> size, required |-> name \in {"rules", "turn"}]
Blocks(newest) ==
    <<Block("rules", Rules + Label)>>
        \o [i \in DOMAIN Order |-> Block(Order[i], Size[Order[i]] + Label)]
        \o <<Block("turn", newest), Block("example", 1 + Label)>>

\* Mutant: no block leaves room for the turn.
CeilingWhole(block, newest) == Budget
Ceiling(block, newest) == IF block.required THEN Budget ELSE Budget - newest
Add(have, newest, got, block) ==
    IF (block.name \in Range(Order) => block.name \in have)
       /\ got.used + block.size <= Ceiling(block, newest)
    THEN [has |-> got.has \cup {block.name}, used |-> got.used + block.size]
    ELSE got

\* What the prompt holds after each of its blocks.
Parts(have, newest) ==
    LET blocks == Blocks(newest)
        parts[i \in 0..Len(blocks)] ==
            IF i = 0 THEN [has |-> {}, used |-> 0] ELSE Add(have, newest, parts[i - 1], blocks[i])
    IN  parts
Compiled(have, newest) == Parts(have, newest)[Len(Blocks(newest))]

\* compile_live_context: one read of the active documents.  The rules and the turn alone
\* are measured without the rules' label.
Compile(newest) ==
    /\ boot = -1
    /\ LET have == {type \in Range(Order) : Active(type) # {}}
           got == Compiled(have, newest)
       IN prompt' = IF Rules + newest > Budget THEN NoPrompt
                    ELSE [made |-> TRUE, turn |-> newest, has |-> got.has, used |-> got.used]
    /\ UNCHANGED <<docs, boot, tx, raced>>

DocumentsNext ==
    \/ Boot \/ StopProcess
    \/ \E type \in Range(Order) : SaveDraft(type)
    \/ \E o \in Operators : Archive(o) \/ Commit(o) \/ RollBack(o) \/ \E d \in DOMAIN docs : Select(o, d)
    \/ \E newest \in TurnSizes : Compile(newest)

DocumentsSpec == DocumentsInit /\ [][DocumentsNext]_documentVars

-----------------------------------------------------------------------------
\* A type has one active revision at most, after any interleaving of activations, unless
\* one was published over another that its UPDATE could not see (DocumentRepository.activate).
OneActive ==
    \A type \in Range(Order) : Cardinality(Active(type)) > 1 => type \in raced

\* However long the documents are, a compiled prompt keeps to its budget and has the fan's
\* newest turn, but for the edge where the rules' label alone takes its room
\* (PromptCompiler.compile).
PromptKeepsTurn ==
    prompt.made =>
        /\ "turn" \in prompt.has \/ Rules + Label + prompt.turn > Budget
        /\ prompt.used <= Budget
=============================================================================
