-------------------------- MODULE NetflowV9Decoder --------------------------
(***************************************************************************)
(* Decode of netflow/v9/decoder.go, in the manner of IPFIXDecoder.  What   *)
(* differs: the error of a template record ends its set, 4 bytes or less   *)
(* at the end of a set are never a record, and the rest of the set is      *)
(* computed with a sign, so that after an overrun nothing is skipped.      *)
(***************************************************************************)
EXTENDS Reader, Sequences

CONSTANTS
    Totals, SetIDs, SetLengths, TemplateIDs,
    FieldCounts,   \* FieldCount fields
    OptionLengths, \* OptionScopeLen and OptionLen fields
    FieldLengths,
    MaxRecords     \* bound: records of a set are counted up to this number

U16 == 256 * 256

NF9DecoderAssumption ==
    /\ \A c \in {Totals, SetIDs, SetLengths, TemplateIDs, FieldCounts, OptionLengths, FieldLengths} :
         c \subseteq 0..(U16 - 1)
    /\ MaxRecords \in Nat

VARIABLES
    pc, set, err, tr,
    todo,       \* specifiers still to be read: scope fields, other fields
    rec, last,  \* the data record being read, the one appended last
    records,    \* records appended in this set
    TemplaRecord,  \* the template record added to the message
    decodeErrors, mem,
    failed      \* history: a template record could not be read

setVars == <<set, err>>
outVars == <<rec, last, records, TemplaRecord>>
reports == <<decodeErrors, failed>>
vars == <<reader, pc, setVars, tr, todo, outVars, reports, mem>>

Specifiers == [Length : FieldLengths, known : BOOLEAN]
NoTemplate == [TemplateID |-> 0, FieldCount |-> 0,
               FieldSpecifiers |-> <<>>, ScopeFieldSpecifiers |-> <<>>]
NoSet == [FlowSetID |-> 0, Length |-> 0, start |-> 0]
NoRecord == [tr |-> NoTemplate, fields |-> 0]
NoTodo == [scope |-> 0, option |-> 0]
Fields(t) == t.FieldSpecifiers \o t.ScopeFieldSpecifiers

Init ==
    /\ total \in Totals /\ count = 0
    /\ pc = "header"
    /\ set = NoSet /\ err = "nil"
    /\ tr = NoTemplate /\ todo = NoTodo
    /\ rec = NoRecord /\ last = NoRecord
    /\ records = 0 /\ TemplaRecord = NoTemplate
    /\ decodeErrors = FALSE /\ failed = FALSE
    /\ mem = [id \in TemplateIDs |-> NoTemplate]
-----------------------------------------------------------------------------
(* PacketHeader: 20 bytes and the version; without them no message. *)
PacketHeader ==
    /\ pc = "header"
    /\ \/ Read(20) /\ pc' \in {"sets", "done"}
       \/ ReadFails(20) /\ pc' = "done"
    /\ UNCHANGED <<setVars, tr, todo, outVars, reports, mem>>

NoMoreSets ==
    /\ pc = "sets" /\ Unread <= 4
    /\ pc' = "done"
    /\ UNCHANGED <<reader, setVars, tr, todo, outVars, reports, mem>>

Known(id) == id > 255 /\ id \in DOMAIN mem /\ mem[id] # NoTemplate

(* The start of decodeSet. *)
SetHeader(id, len) ==
    /\ pc = "sets" /\ Unread > 4
    /\ Read(4)
    /\ set' = [FlowSetID |-> id, Length |-> len, start |-> count]
    /\ records' = 0
    /\ \/ /\ len < 4
          /\ err' = "fatal" /\ decodeErrors' = TRUE
          /\ UNCHANGED <<pc, tr>>
       \/ /\ len >= 4
          /\ err' = IF id <= 255 \/ Known(id) THEN "nil" ELSE "nonfatal"
          /\ tr' = IF Known(id) THEN mem[id] ELSE NoTemplate
          /\ pc' = "set"
          /\ UNCHANGED decodeErrors
    /\ UNCHANGED <<todo, rec, last, TemplaRecord, failed, mem>>

leftoverBytes == set.Length - (count - set.start)

(* Mutant: the condition of the IPFIX decoder. *)
MoreRecordsIPFIX == err = "nil" /\ leftoverBytes > 0 /\ Unread > 4

MoreRecords == err = "nil" /\ leftoverBytes > 4 /\ Unread > 4

(* Mutant: the last reserved id is forgotten. *)
ReservedBut255 == set.FlowSetID \in 4..254

Reserved == set.FlowSetID \in 4..255

SetEnds ==
    /\ pc = "set"
    /\ ~MoreRecords \/ Reserved
    /\ pc' = "skip"
    /\ UNCHANGED <<reader, setVars, tr, todo, outVars, reports, mem>>

(* TemplateHeader.unmarshal and unmarshalOpts: three words give the        *)
(* lengths of the scope and option parts in bytes.                         *)
TemplateHeader(id, n) ==
    /\ pc = "set" /\ MoreRecords /\ set.FlowSetID = 0
    /\ Uint16s(2)
    /\ tr' = [NoTemplate EXCEPT !.TemplateID = id, !.FieldCount = n]
    /\ todo' = [scope |-> 0, option |-> n]
    /\ pc' = "template"
    /\ UNCHANGED <<setVars, outVars, reports, mem>>

OptionsHeader(id, s, o) ==
    /\ pc = "set" /\ MoreRecords /\ set.FlowSetID = 1
    /\ Uint16s(3)
    /\ tr' = [NoTemplate EXCEPT !.TemplateID = id]
    /\ todo' = [scope |-> s \div 4, option |-> o \div 4]
    /\ pc' = "template"
    /\ UNCHANGED <<setVars, outVars, reports, mem>>

(* Mutant: the error is assigned to a variable of the branch. *)
TemplateFailsShadowed(t) ==
    /\ TemplaRecord' = t
    /\ failed' = TRUE
    /\ pc' = "set"
    /\ UNCHANGED <<set, err, tr, rec, last, records, decodeErrors, mem>>

(* A template record that could not be read ends the set; what was read of *)
(* it is in the message nevertheless.                                      *)
TemplateFails(t) ==
    /\ TemplaRecord' = t
    /\ err' = "fatal" /\ failed' = TRUE
    /\ pc' = "set"
    /\ UNCHANGED <<set, tr, rec, last, records, decodeErrors, mem>>

OptionsHeaderFails ==
    /\ pc = "set" /\ MoreRecords /\ set.FlowSetID = 1
    /\ Uint16sFail(3)
    /\ TemplateFails(NoTemplate)
    /\ UNCHANGED todo

(* TemplateFieldSpecifier.unmarshal; the scope fields first, of which the  *)
(* append keeps the last.                                                  *)
Specifier(spec) ==
    /\ pc = "template" /\ todo # NoTodo
    /\ Uint16s(2)
    /\ IF todo.scope > 0
       THEN /\ todo' = [todo EXCEPT !.scope = @ - 1]
            /\ tr' = [tr EXCEPT !.ScopeFieldSpecifiers = Append(tr.FieldSpecifiers, spec)]
       ELSE /\ todo' = [todo EXCEPT !.option = @ - 1]
            /\ tr' = [tr EXCEPT !.FieldSpecifiers = Append(@, spec)]
    /\ UNCHANGED <<pc, setVars, outVars, reports, mem>>

SpecifierFails ==
    /\ pc = "template" /\ todo # NoTodo
    /\ Uint16sFail(2)
    /\ TemplateFails(tr)
    /\ todo' = NoTodo

(* Mutant: inserted whatever the error. *)
InsertAlways ==
    /\ pc = "template"
    /\ mem' = [mem EXCEPT ![tr.TemplateID] = tr]
    /\ TemplaRecord' = tr
    /\ pc' = IF todo = NoTodo THEN "set" ELSE pc
    /\ UNCHANGED <<reader, setVars, tr, todo, rec, last, records, reports>>

Insert ==
    /\ pc = "template" /\ todo = NoTodo
    /\ mem' = [mem EXCEPT ![tr.TemplateID] = tr]
    /\ TemplaRecord' = tr
    /\ pc' = "set"
    /\ UNCHANGED <<reader, setVars, tr, todo, rec, last, records, reports>>

(* Mutant: the template is retrieved for every record. *)
DataRetrieve ==
    /\ pc = "set" /\ MoreRecords /\ ~Reserved /\ set.FlowSetID \notin {0, 1}
    /\ tr' = IF Known(set.FlowSetID) THEN mem[set.FlowSetID] ELSE tr
    /\ rec' = [tr |-> tr', fields |-> 0]
    /\ pc' = "data"
    /\ UNCHANGED <<reader, setVars, todo, last, records, TemplaRecord, reports, mem>>

(* decodeData. *)
DataRecord ==
    /\ pc = "set" /\ MoreRecords /\ ~Reserved /\ set.FlowSetID \notin {0, 1}
    /\ rec' = [tr |-> tr, fields |-> 0]
    /\ pc' = "data"
    /\ UNCHANGED <<reader, setVars, tr, todo, last, records, TemplaRecord, reports, mem>>

DataField ==
    /\ pc = "data" /\ rec.fields < Len(Fields(tr))
    /\ LET spec == Fields(tr)[rec.fields + 1]
       IN \/ /\ Read(spec.Length) /\ spec.known
             /\ rec' = [rec EXCEPT !.fields = @ + 1]
             /\ UNCHANGED <<pc, err>>
          \/ /\ Read(spec.Length) /\ ~spec.known
             /\ err' = "nonfatal" /\ pc' = "set"
             /\ UNCHANGED rec
          \/ /\ ReadFails(spec.Length)
             /\ err' = "fatal" /\ pc' = "set"
             /\ UNCHANGED rec
    /\ UNCHANGED <<set, tr, todo, last, records, TemplaRecord, reports, mem>>

(* msg.DataSets and msg.SetHeaders get an entry each. *)
DataAppend ==
    /\ pc = "data" /\ rec.fields = Len(Fields(tr))
    /\ last' = rec
    /\ records' = IF records < MaxRecords THEN records + 1 ELSE records
    /\ pc' = "set"
    /\ UNCHANGED <<reader, setVars, tr, todo, rec, TemplaRecord, reports, mem>>

(* The end of decodeSet; Decode collects every error and goes on. *)
SkipRest ==
    /\ pc = "skip"
    /\ \/ leftoverBytes <= 0 /\ UNCHANGED <<reader, err>>
       \/ leftoverBytes > 0 /\ Read(leftoverBytes) /\ UNCHANGED err
       \/ leftoverBytes > 0 /\ ReadFails(leftoverBytes) /\ err' = "fatal"
    /\ decodeErrors' = (decodeErrors \/ err' # "nil")
    /\ pc' = "sets"
    /\ UNCHANGED <<set, tr, todo, outVars, failed, mem>>

decodeStep ==
    \/ PacketHeader \/ NoMoreSets
    \/ \E id \in SetIDs, len \in SetLengths : SetHeader(id, len)
    \/ SetEnds
    \/ \E id \in TemplateIDs, n \in FieldCounts : TemplateHeader(id, n)
    \/ \E id \in TemplateIDs, s, o \in OptionLengths : OptionsHeader(id, s, o)
    \/ OptionsHeaderFails
    \/ \E spec \in Specifiers : Specifier(spec)
    \/ SpecifierFails
    \/ Insert
    \/ DataRecord \/ DataField \/ DataAppend
    \/ SkipRest

(* Another worker decodes a template of this exporter. *)
OtherInsert(id, spec) ==
    /\ pc # "done"
    /\ mem' = [mem EXCEPT ![id] = [NoTemplate EXCEPT !.TemplateID = id, !.FieldCount = 1,
                                                     !.FieldSpecifiers = <<spec>>]]
    /\ UNCHANGED <<reader, pc, setVars, tr, todo, outVars, reports>>

Next ==
    \/ decodeStep
    \/ \E id \in TemplateIDs, spec \in Specifiers : spec.known /\ OtherInsert(id, spec)

Safety == Init /\ [][Next]_vars
Spec == Safety /\ WF_vars(decodeStep)
-----------------------------------------------------------------------------
(* The types of the variables, and the reader inside its datagram. *)
TypeOK ==
    /\ total \in Totals /\ count \in 0..total
    /\ pc \in {"header", "sets", "set", "template", "data", "skip", "done"}
    /\ set.FlowSetID \in SetIDs \cup {0} /\ set.Length \in SetLengths \cup {0}
    /\ err \in {"nil", "nonfatal", "fatal"}
    /\ todo.scope \in Nat /\ todo.option \in Nat /\ records \in 0..MaxRecords
    /\ decodeErrors \in BOOLEAN /\ failed \in BOOLEAN

BetweenSets == pc \in {"sets", "done"} /\ set # NoSet
Size(t) == FieldEnds(Fields(t))[Len(Fields(t))]
Whole(t) == t.FieldCount > 0 => Len(t.FieldSpecifiers) = t.FieldCount

(* A template in the cache was read to its last specifier and is under its *)
(* own id; the one in the message was too unless an error is reported.     *)
TemplatesWhole ==
    /\ \A id \in DOMAIN mem : mem[id] # NoTemplate => mem[id].TemplateID = id /\ Whole(mem[id])
    /\ BetweenSets /\ ~decodeErrors => Whole(TemplaRecord)

(* "collect them and report all of them": a template record that could not *)
(* be read is reported.                                                    *)
TemplateErrorsReported == BetweenSets /\ failed => decodeErrors

(* The records of one set are decoded with one template, though others     *)
(* replace it in the cache meanwhile.                                      *)
SameTemplate == records > 0 /\ records' > records => last'.tr = last.tr
OneTemplatePerSet == [][SameTemplate]_vars

(* A data set that is padded with at most 4 bytes and has no error gave    *)
(* the records it holds, no fewer and none made of padding, and the next   *)
(* set is read where this one ends.                                        *)
PaddedSetRead ==
    BetweenSets /\ err = "nil" /\ set.FlowSetID > 255 /\ Size(tr) > 4
      /\ (set.Length - 4) % Size(tr) <= 4 /\ records < MaxRecords =>
        /\ records = (set.Length - 4) \div Size(tr)
        /\ count = set.start + set.Length

(* Decode is in a set that is neither one of templates nor reserved, with  *)
(* a template without fields or with no template at all (ids 2 and 3): its *)
(* records take no bytes, and nothing but bytes ends the loop.             *)
EmptyRecords ==
    pc \in {"set", "data"} /\ set.FlowSetID \notin {0, 1} \cup 4..255 /\ Size(tr) = 0

(* Decode returns, whatever the datagram holds, unless it has come to such *)
(* a set.                                                                  *)
DecodeEnds == <>(pc = "done") \/ <>[]EmptyRecords
=============================================================================
