------------------------------- MODULE Fields -------------------------------
(***************************************************************************)
(* How field.c reads a field of a native structure: the search for the     *)
(* structure a type name refers to, the version check, and the choice      *)
(* between a copied value, a view of another structure, and nil.           *)
(*                                                                         *)
(* A type name is the sequence of its words, <<"es", "file", "t">> for     *)
(* es_file_t.  The tables hold the structures of a few events, with their  *)
(* copied fields reduced to one for each version.                          *)
(***************************************************************************)
EXTENDS Naturals, Sequences

\* The types of fields: copied by a case of read_field; an anonymous union;
\* a structure or an enumeration, known by its name only.
Copied == [kind |-> "copied"]
Union == [kind |-> "union"]
Named(words, isPointer) == [kind |-> "named", words |-> words, pointer |-> isPointer]

Field(name, type, since) == [name |-> name, type |-> type, since |-> since]

File == <<"es", "file", "t">>
Process == <<"es", "process", "t">>
Thread == <<"es", "thread", "t">>
ThreadState == <<"es", "thread", "state", "t">>
Descriptor == <<"es", "fd", "t">>
Result == <<"es", "authorization", "result", "t">>
Member == <<"es", "od", "member", "id", "t">>
Exec == <<"es", "event", "exec", "t">>
Open == <<"es", "event", "open", "t">>
Rename == <<"es", "event", "rename", "t">>
RemoteThread == <<"es", "event", "remote", "thread", "create", "t">>
Judgement == <<"es", "event", "authorization", "judgement", "t">>
GroupAdd == <<"es", "event", "od", "group", "add", "t">>

\* The generated tables of fields.
ProcessFields ==
  {Field("audit_token", Copied, 1), Field("executable", Named(File, TRUE), 1),
   Field("tty", Named(File, TRUE), 2), Field("start_time", Copied, 3),
   Field("parent_audit_token", Copied, 4),
   Field("cs_validation_category", Named(<<"es", "cs", "validation", "category", "t">>, FALSE), 10)}
FileFields == {Field("path", Copied, 1)}
ThreadFields == {Field("thread_id", Copied, 1)}
ThreadStateFields == {Field("state", Copied, 1)}
DescriptorFields == {Field("fd", Copied, 1)}
ResultFields ==
  {Field("right_name", Copied, 1),
   Field("rule_class", Named(<<"es", "authorization", "rule", "class", "t">>, FALSE), 1)}
MemberFields ==
  {Field("member_type", Named(<<"es", "od", "member", "type", "t">>, FALSE), 1),
   Field("member_value", Union, 1)}
ExecFields ==
  {Field("target", Named(Process, TRUE), 1), Field("script", Named(File, TRUE), 2),
   Field("cwd", Named(File, TRUE), 3), Field("last_fd", Copied, 4),
   Field("image_cputype", Copied, 6), Field("dyld_exec_path", Copied, 7)}
OpenFields == {Field("fflag", Copied, 1), Field("file", Named(File, TRUE), 1)}
RenameFields ==
  {Field("source", Named(File, TRUE), 1),
   Field("destination_type", Named(<<"es", "destination", "type", "t">>, FALSE), 1),
   Field("destination", Union, 1)}
RemoteThreadFields ==
  {Field("target", Named(Process, TRUE), 1), Field("thread_state", Named(ThreadState, TRUE), 1)}
JudgementFields ==
  {Field("instigator", Named(Process, TRUE), 1), Field("return_code", Copied, 1),
   Field("results", Named(Result, TRUE), 1), Field("instigator_token", Copied, 8)}
GroupAddFields ==
  {Field("instigator", Named(Process, TRUE), 1), Field("error_code", Copied, 1),
   Field("member", Named(Member, TRUE), 1), Field("instigator_token", Copied, 8)}

Schemas == {File, Process, Thread, ThreadState, Descriptor, Result, Member, Exec, Open, Rename,
            RemoteThread, Judgement, GroupAdd}

FieldsOf(schema) ==
  CASE schema = File -> FileFields [] schema = Process -> ProcessFields
    [] schema = Thread -> ThreadFields [] schema = ThreadState -> ThreadStateFields
    [] schema = Descriptor -> DescriptorFields [] schema = Result -> ResultFields
    [] schema = Member -> MemberFields [] schema = Exec -> ExecFields [] schema = Open -> OpenFields
    [] schema = Rename -> RenameFields [] schema = RemoteThread -> RemoteThreadFields
    [] schema = Judgement -> JudgementFields [] schema = GroupAdd -> GroupAddFields
-----------------------------------------------------------------------------
(***************************************************************************)
(* The results of a read.                                                  *)
(***************************************************************************)
Value == [kind |-> "value"]
Nil == [kind |-> "nil"]
Unavailable == [kind |-> "raise"]           \* FieldUnavailableError
View(schema) == [kind |-> "view", schema |-> schema]
Views(schema) == [kind |-> "views", schema |-> schema]

\* esrb_view_wrap: a null pointer or an unknown schema gives nil.
Wrap(schema) == {Nil} \cup (IF schema \in Schemas THEN {View(schema)} ELSE {})

\* The words of the tables that begin with a t.
BeginWithT == {"t", "thread", "type"}

\* Variant: the name ends after its first two words.
ReferencedSchemaShort(words) == SubSeq(words, 1, 2) \o <<"t">>

\* referenced_schema_name: the name ends at the first "_t".
ReferencedSchema(words) ==
  LET ends == {k \in 2 .. Len(words) : words[k] \in BeginWithT}
      first == CHOOSE k \in ends : \A j \in ends : k <= j
  IN SubSeq(words, 1, first - 1) \o <<"t">>

\* destination_union: the view of the existing file; a hash for a new path,
\* which is a value here; nil for an unknown tag.
DestinationUnion == {Nil, Value} \cup Wrap(File)

\* read_union, for the two unions of the tables: the result is what is inside
\* the TaggedUnion.
ReadUnion(schema, field) ==
  CASE <<schema, field.name>> = <<Rename, "destination">> -> DestinationUnion
    [] <<schema, field.name>> = <<Member, "member_value">> -> {Nil, Value}
    [] OTHER -> {Nil}

\* read_array, for the one array of the tables.
IsArray(schema, field) == <<schema, field.name>> = <<Judgement, "results">>

\* read_field, of a field that the message has.
Decode(schema, field) ==
  IF field.type.kind = "union" THEN ReadUnion(schema, field)
  ELSE IF IsArray(schema, field) THEN {Views(field.type.words)}
  ELSE IF field.type.kind = "copied" THEN {Value}
  ELSE IF ReferencedSchema(field.type.words) \in Schemas
         THEN Wrap(ReferencedSchema(field.type.words))
  ELSE IF field.type.pointer THEN {Nil}
  ELSE {Value}

\* The fields of later versions are not there.
ReadField(schema, field, version, strict) ==
  IF field.since > version THEN {IF strict THEN Unavailable ELSE Nil} ELSE Decode(schema, field)

\* esrb_event_schemas: the structure of an event.
EventSchema(event) ==
  CASE event = "auth_exec" -> Exec [] event = "auth_open" -> Open [] event = "auth_rename" -> Rename
    [] event = "notify_remote_thread_create" -> RemoteThread
    [] event = "notify_authorization_judgement" -> Judgement
    [] event = "notify_od_group_add" -> GroupAdd
=============================================================================
