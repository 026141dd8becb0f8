---------------------------- MODULE IPFIXDecoder ----------------------------
(***************************************************************************)
(* Decode of ipfix/decoder.go: one worker decodes one datagram of one      *)
(* exporter while other workers and the template RPC insert templates of   *)
(* the same exporter.  The content of the datagram is chosen when it is    *)
(* read, so the behaviours are those for every datagram whose header       *)
(* fields are in the sets below.  A template is its lists of field         *)
(* specifiers; of a specifier the length matters and whether the table of  *)
(* information elements knows it; of a data field only that it was read.   *)
(***************************************************************************)
EXTENDS Reader, Sequences

CONSTANTS
    Totals,       \* lengths of the datagram
    SetIDs,       \* ids of sets
    SetLengths,   \* Length fields of set headers
    TemplateIDs,  \* ids in template records; 0 is padding
    FieldCounts, ScopeCounts,  \* FieldCount and ScopeFieldCount fields
    FieldLengths, \* Length fields of specifiers
    MaxRecords    \* bound: records of a set are counted up to this number

U16 == 256 * 256

DecoderAssumption ==
    /\ Totals \subseteq 0..(U16 - 1)
    /\ SetIDs \subseteq 0..(U16 - 1) /\ SetLengths \subseteq 0..(U16 - 1)
    /\ TemplateIDs \subseteq 0..(U16 - 1) /\ FieldLengths \subseteq 0..(U16 - 1)
    /\ FieldCounts \subseteq 0..(U16 - 1) /\ ScopeCounts \subseteq 0..(U16 - 1)
    /\ MaxRecords \in Nat

VARIABLES
    pc,         \* where Decode is
    set,        \* the set header, and startCount
    err,        \* err of decodeSet: "nil", "nonfatal", "fatal"
    tr,         \* the template record in use
    todo,       \* specifiers of tr that are still to be read
    rec,        \* the data record being read: template, fields, first byte
    last,       \* the record appended to msg.DataSets last
    records,    \* the number of records appended in this set
    decodeErrors,  \* is an error reported
    mem,        \* mem[id]: template of this exporter in the cache
    rpcChan     \* template ids in the request channel

setVars == <<set, err>>
outVars == <<rec, last, records>>
shared == <<mem, rpcChan>>
vars == <<reader, pc, setVars, tr, todo, outVars, shared, decodeErrors>>

Specifiers == [Length : FieldLengths, known : BOOLEAN]
NoTemplate == [TemplateID |-> 0, FieldCount |-> 0, ScopeFieldCount |-> 0,
               FieldSpecifiers |-> <<>>, ScopeFieldSpecifiers |-> <<>>]
NoSet == [SetID |-> 0, Length |-> 0, start |-> 0]
NoRecord == [tr |-> NoTemplate, fields |-> 0]

(* The order in which decodeData reads the fields. *)
Fields(t) == t.FieldSpecifiers \o t.ScopeFieldSpecifiers

Init ==
    /\ total \in Totals
    /\ count = 0
    /\ pc = "header"
    /\ set = NoSet /\ err = "nil"
    /\ tr = NoTemplate /\ todo = 0
    /\ rec = NoRecord /\ last = NoRecord /\ records = 0
    /\ decodeErrors = FALSE
    /\ mem = [id \in TemplateIDs |-> NoTemplate]
    /\ rpcChan = <<>>
-----------------------------------------------------------------------------
(* MessageHeader: two words of 16 bits and three of 32, and the version.   *)
(* Without them Decode returns no message, and the reader is gone.         *)
MessageHeader ==
    /\ pc = "header"
    /\ Read(16)
    /\ pc' \in {"sets", "done"}
    /\ UNCHANGED <<setVars, tr, todo, outVars, decodeErrors, shared>>

MessageHeaderFails ==
    /\ pc = "header"
    /\ ReadFails(16)
    /\ pc' = "done"
    /\ UNCHANGED <<setVars, tr, todo, outVars, decodeErrors, shared>>

(* The loop over the sets ends. *)
NoMoreSets ==
    /\ pc = "sets"
    /\ Unread <= 4
    /\ pc' = "done"
    /\ UNCHANGED <<reader, setVars, tr, todo, outVars, decodeErrors, shared>>

(* The start of decodeSet.  A Length below 4 is an error.  The template    *)
(* of a data set is retrieved here, once; when there is none it is asked   *)
(* for, unless a request is waiting already.                               *)
SetHeader(id, len) ==
    /\ pc = "sets"
    /\ Unread > 4
    /\ Read(4)
    /\ set' = [SetID |-> id, Length |-> len, start |-> count]
    /\ records' = 0
    /\ \/ /\ len < 4
          /\ err' = "fatal" /\ decodeErrors' = TRUE
          /\ UNCHANGED <<pc, tr, rpcChan>>
       \/ /\ len >= 4
          /\ id \in DOMAIN mem /\ id > 255 /\ mem[id] # NoTemplate
          /\ tr' = mem[id]
          /\ err' = "nil" /\ pc' = "set"
          /\ UNCHANGED <<decodeErrors, rpcChan>>
       \/ /\ len >= 4
          /\ id > 255 /\ (id \in DOMAIN mem => mem[id] = NoTemplate)
          /\ rpcChan' = IF rpcChan = <<>> THEN <<id>> ELSE rpcChan
          /\ tr' = NoTemplate
          /\ err' = "nonfatal" /\ pc' = "set"
          /\ UNCHANGED decodeErrors
       \/ /\ len >= 4 /\ id <= 255
          /\ tr' = NoTemplate
          /\ err' = "nil" /\ pc' = "set"
          /\ UNCHANGED <<decodeErrors, rpcChan>>
    /\ UNCHANGED <<todo, rec, last, mem>>

(* The condition of the loop over the records of a set. *)
MoreRecords ==
    /\ err = "nil"
    /\ set.Length > (count - set.start) % U16
    /\ Unread > 4

TemplateSet == set.SetID \in {2, 3}

(* Mutant: the last reserved id is forgotten. *)
ReservedBut255 == set.SetID \in 4..254

Reserved == set.SetID \in 4..255

SetEnds ==
    /\ pc = "set"
    /\ ~MoreRecords \/ Reserved
    /\ pc' = "skip"
    /\ UNCHANGED <<reader, setVars, tr, todo, outVars, decodeErrors, shared>>

(* PeekUint16 finds a template id of zero. *)
TemplatePadding ==
    /\ pc = "set" /\ MoreRecords /\ TemplateSet
    /\ 0 \in TemplateIDs
    /\ pc' = "skip"
    /\ UNCHANGED <<reader, setVars, tr, todo, outVars, decodeErrors, shared>>

(* TemplateHeader.unmarshal. *)
TemplateHeader(id, n) ==
    /\ pc = "set" /\ MoreRecords /\ set.SetID = 2
    /\ id # 0
    /\ Uint16s(2)
    /\ tr' = [NoTemplate EXCEPT !.TemplateID = id, !.FieldCount = n]
    /\ todo' = n
    /\ pc' = "template"
    /\ UNCHANGED <<setVars, outVars, decodeErrors, shared>>

(* TemplateHeader.unmarshalOpts; the options are what is left of           *)
(* FieldCount, in 16 bits.                                                 *)
OptionsHeader(id, n, s) ==
    /\ pc = "set" /\ MoreRecords /\ set.SetID = 3
    /\ id # 0
    /\ Uint16s(3)
    /\ tr' = [NoTemplate EXCEPT !.TemplateID = id, !.FieldCount = n, !.ScopeFieldCount = s]
    /\ todo' = s + ((n - s) % U16)
    /\ pc' = "template"
    /\ UNCHANGED <<setVars, outVars, decodeErrors, shared>>

(* The err of a template record is not the err the loop tests. *)
OptionsHeaderFails ==
    /\ pc = "set" /\ MoreRecords /\ set.SetID = 3
    /\ Uint16sFail(3)
    /\ UNCHANGED <<pc, setVars, tr, todo, outVars, decodeErrors, shared>>

(* TemplateFieldSpecifier.unmarshal: 4 bytes, and 4 for the enterprise.    *)
(* The scope fields come first; each is appended to the (empty) list of    *)
(* the other fields, so the list of scope fields keeps the last.           *)
Specifier(spec, enterprise) ==
    /\ pc = "template" /\ todo > 0
    /\ Read(IF enterprise THEN 8 ELSE 4)
    /\ todo' = todo - 1
    /\ tr' = IF todo > (tr.FieldCount - tr.ScopeFieldCount) % U16
             THEN [tr EXCEPT !.ScopeFieldSpecifiers = Append(tr.FieldSpecifiers, spec)]
             ELSE [tr EXCEPT !.FieldSpecifiers = Append(@, spec)]
    /\ UNCHANGED <<pc, setVars, outVars, decodeErrors, shared>>

SpecifierFails(enterprise) ==
    /\ pc = "template" /\ todo > 0
    /\ \/ Uint16sFail(2)
       \/ enterprise /\ Unread \in 4..7 /\ advance(4)
    /\ pc' = "set"
    /\ todo' = 0
    /\ UNCHANGED <<setVars, tr, outVars, decodeErrors, shared>>

(* Mutant: the template is inserted with its header. *)
InsertEarly ==
    /\ pc = "template"
    /\ mem' = [mem EXCEPT ![tr.TemplateID] = tr]
    /\ pc' = IF todo = 0 THEN "set" ELSE pc
    /\ UNCHANGED <<reader, setVars, tr, todo, outVars, decodeErrors, rpcChan>>

Insert ==
    /\ pc = "template" /\ todo = 0
    /\ mem' = [mem EXCEPT ![tr.TemplateID] = tr]
    /\ pc' = "set"
    /\ UNCHANGED <<reader, setVars, tr, todo, outVars, decodeErrors, rpcChan>>

(* Mutant: the template is retrieved for every record. *)
DataRetrieve ==
    /\ pc = "set" /\ MoreRecords /\ ~TemplateSet /\ ~Reserved
    /\ tr' = IF set.SetID \in DOMAIN mem THEN mem[set.SetID] ELSE tr
    /\ rec' = [tr |-> tr', fields |-> 0]
    /\ pc' = "data"
    /\ UNCHANGED <<reader, setVars, todo, last, records, decodeErrors, shared>>

(* decodeData. *)
DataRecord ==
    /\ pc = "set" /\ MoreRecords /\ ~TemplateSet /\ ~Reserved
    /\ rec' = [tr |-> tr, fields |-> 0]
    /\ pc' = "data"
    /\ UNCHANGED <<reader, setVars, tr, todo, last, records, decodeErrors, shared>>

DataField ==
    /\ pc = "data" /\ rec.fields < Len(Fields(tr))
    /\ LET spec == Fields(tr)[rec.fields + 1]
       IN \/ /\ Read(spec.Length)
             /\ \/ /\ spec.known
                   /\ rec' = [rec EXCEPT !.fields = @ + 1]
                   /\ UNCHANGED <<pc, err>>
                \/ /\ ~spec.known
                   /\ err' = "nonfatal" /\ pc' = "set"
                   /\ UNCHANGED rec
          \/ /\ ReadFails(spec.Length)
             /\ err' = "fatal" /\ pc' = "set"
             /\ UNCHANGED rec
    /\ UNCHANGED <<set, tr, todo, last, records, decodeErrors, shared>>

(* Mutant: the loop ends after one record. *)
DataAppendOne ==
    /\ pc = "data" /\ rec.fields = Len(Fields(tr))
    /\ last' = rec /\ records' = 1
    /\ pc' = "skip"
    /\ UNCHANGED <<reader, setVars, tr, todo, rec, shared, decodeErrors>>

(* msg.DataSets gets the record. *)
DataAppend ==
    /\ pc = "data" /\ rec.fields = Len(Fields(tr))
    /\ last' = rec
    /\ records' = IF records < MaxRecords THEN records + 1 ELSE records
    /\ pc' = "set"
    /\ UNCHANGED <<reader, setVars, tr, todo, rec, decodeErrors, shared>>

leftoverBytes == (set.Length - (count - set.start)) % U16

(* Mutant: as many bytes as there are are skipped, without an error. *)
SkipWhatIsThere ==
    /\ pc = "skip"
    /\ advance(IF leftoverBytes > Unread THEN Unread ELSE leftoverBytes)
    /\ pc' = "sets"
    /\ decodeErrors' = (decodeErrors \/ err # "nil")
    /\ UNCHANGED <<setVars, tr, todo, outVars, shared>>

(* The end of decodeSet, and the switch over the type of its error in      *)
(* Decode: nonfatalError is an interface every error implements, so any    *)
(* error is collected and the loop goes on.                                *)
SkipRest ==
    /\ pc = "skip"
    /\ \/ Read(leftoverBytes) /\ UNCHANGED err
       \/ ReadFails(leftoverBytes) /\ err' = "fatal"
    /\ decodeErrors' = (decodeErrors \/ err' # "nil")
    /\ pc' = "sets"
    /\ UNCHANGED <<set, tr, todo, outVars, shared>>

decodeStep ==
    \/ MessageHeader \/ MessageHeaderFails \/ NoMoreSets
    \/ \E id \in SetIDs, len \in SetLengths : SetHeader(id, len)
    \/ SetEnds \/ TemplatePadding
    \/ \E id \in TemplateIDs, n \in FieldCounts :
         \/ TemplateHeader(id, n)
         \/ \E s \in ScopeCounts : OptionsHeader(id, n, s)
    \/ OptionsHeaderFails
    \/ \E spec \in Specifiers, e \in BOOLEAN : Specifier(spec, e)
    \/ \E e \in BOOLEAN : SpecifierFails(e)
    \/ Insert
    \/ DataRecord \/ DataField \/ DataAppend
    \/ SkipRest
-----------------------------------------------------------------------------
(* The others: workers and the RPC insert templates of this exporter ...   *)
OtherInsert(id, t) ==
    /\ pc # "done"
    /\ mem' = [mem EXCEPT ![id] = t]
    /\ UNCHANGED <<reader, pc, setVars, tr, todo, outVars, decodeErrors, rpcChan>>

(* ... and the RPC takes requests. *)
TakeRequest ==
    /\ rpcChan # <<>> /\ pc # "done"
    /\ rpcChan' = Tail(rpcChan)
    /\ UNCHANGED <<reader, pc, setVars, tr, todo, outVars, decodeErrors, mem>>

(* Templates of others: one field each.  An id of 0 is never inserted. *)
OtherTemplates(id) ==
    {[TemplateID |-> id, FieldCount |-> 1, ScopeFieldCount |-> 0,
      FieldSpecifiers |-> <<spec>>, ScopeFieldSpecifiers |-> <<>>] :
         spec \in {s \in Specifiers : s.known}}

Next ==
    \/ decodeStep
    \/ \E id \in TemplateIDs \ {0} : \E t \in OtherTemplates(id) : OtherInsert(id, t)
    \/ TakeRequest

Safety == Init /\ [][Next]_vars

(* A worker that can run does run. *)
Spec == Safety /\ WF_vars(decodeStep)
-----------------------------------------------------------------------------
(* The types of the variables, and the reader inside its datagram. *)
TypeOK ==
    /\ total \in Totals /\ count \in 0..total
    /\ pc \in {"header", "sets", "set", "template", "data", "skip", "done"}
    /\ set.SetID \in SetIDs \cup {0} /\ set.Length \in SetLengths \cup {0}
    /\ set.start \in 0..count
    /\ err \in {"nil", "nonfatal", "fatal"}
    /\ todo \in Nat /\ records \in 0..MaxRecords
    /\ Len(rpcChan) <= 1
    /\ decodeErrors \in BOOLEAN

BetweenSets == pc \in {"sets", "done"} /\ set # NoSet

(* After a set that is not reported as an error the next one is read where *)
(* the Length of the set says it starts, whatever records, padding and     *)
(* overruns were met: the 16-bit difference in leftoverBytes either        *)
(* reaches the end of the set or cannot be read.                           *)
SetsAligned == BetweenSets /\ err = "nil" => count = set.start + set.Length

(* Only templates that were read to their last specifier are in the cache, *)
(* under their own id, also when the counts wrap around or the datagram    *)
(* ends early.                                                             *)
CachedWhole ==
    \A id \in DOMAIN mem : mem[id] # NoTemplate =>
        /\ mem[id].TemplateID = id
        /\ Len(mem[id].FieldSpecifiers) = (mem[id].FieldCount - mem[id].ScopeFieldCount) % U16
        /\ (mem[id].ScopeFieldSpecifiers = <<>>) = (mem[id].ScopeFieldCount = 0)

(* The records of one set are decoded with one template, though others     *)
(* replace it in the cache meanwhile ("the retrieve() operation should not *)
(* be executed inside the loop").                                          *)
SameTemplate == records > 0 /\ records' > records => last'.tr = last.tr
OneTemplatePerSet == [][SameTemplate]_vars

Size(t) == FieldEnds(Fields(t))[Len(Fields(t))]

(* A data set without an error gave as many records as fit into it, if a   *)
(* record is longer than the 4 bytes that are taken for padding.           *)
RecordsCounted ==
    BetweenSets /\ err = "nil" /\ set.SetID > 255 /\ Size(tr) > 4 /\ records < MaxRecords =>
        records = (set.Length - 4) \div Size(tr)

(* Decode is in a set that is neither one of templates nor reserved, with  *)
(* a template without fields or with no template at all (ids 0 and 1): its *)
(* records take no bytes, and nothing but bytes ends the loop.             *)
EmptyRecords == pc \in {"set", "data"} /\ set.SetID \notin 2..255 /\ Size(tr) = 0

(* Decode returns, whatever the datagram holds, unless it has come to such *)
(* a set.                                                                  *)
DecodeEnds == <>(pc = "done") \/ <>[]EmptyRecords
=============================================================================
