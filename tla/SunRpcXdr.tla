------------------------------ MODULE SunRpcXdr ------------------------------
(***************************************************************************)
(* What happens to the arguments and the results of one OpenCL call on     *)
(* their way through the SunRPC variant: the wrapper of ocl_rpc_clnt.c     *)
(* copies the application's arguments into a struct, an xdr_ routine       *)
(* flattens the struct into 4-byte units, ocl_prog_1 unflattens them with  *)
(* the routine of its own table, the handler of ocl_rpc_server.c calls the *)
(* driver, and the answer goes back through the same struct.               *)
(*                                                                         *)
(* The reference is in the wrapper itself: when `local` is set it passes   *)
(* its arguments to the OpenCL library as they are.                        *)
(*                                                                         *)
(* A unit holds a number below Word (2^32 in the code); pointers, size_t   *)
(* and the cl_bitfield types are below Word * Word.  A struct is the       *)
(* sequence of its members: the routine used on it need not be its own.    *)
(* Opaque data and strings are <<length, contents>>, <<0, 0>> for NULL.    *)
(***************************************************************************)
EXTENDS Integers, Sequences, SequencesExt

CONSTANTS
  Word,     \* values of one XDR unit
  Codes,    \* error codes of the driver, CL_SUCCESS (0) among them
  Given     \* of each procedure: the arguments applications pass, by name

Null == <<0, 0>>
int(f)  == <<f, "int">>
quad(f) == <<f, "quad">>
data(f) == <<f, "bytes">>
text(f) == <<f, "string">>
-------------------------------------------------------------------------------
(* The structs and their routines: members in the order they are sent.     *)

xdr_plat_id_t == <<int("num"), quad("platform"), int("num_platforms"), int("result")>>
xdr_get_devs_t ==
  <<quad("platform"), int("device_type"), int("num_entries"), quad("devices"),
    quad("num_devices"), int("result")>>
xdr_create_ctx_t ==
  <<int("properties"), int("num_devices"), quad("devices"), quad("callback"),
    quad("user_data"), quad("errorcode_ret"), quad("context")>>
xdr_create_cqueue_t ==
  <<quad("context"), quad("device"), int("properties"), quad("errorcode_ret"), quad("queue")>>
xdr_create_prog_ws_t ==
  <<quad("context"), int("count"), text("strings"), quad("lengths"),
    quad("errorcode_ret"), quad("prog")>>
xdr_build_prog_t ==
  <<quad("prog"), int("num_devices"), quad("device_list"), quad("options"),
    quad("callback"), quad("user_data"), int("result")>>
xdr_create_kern_t ==
  <<quad("prog"), text("kernel_name"), quad("errorcode_ret"), quad("kernel")>>
xdr_create_buf_t ==
  <<quad("context"), int("flags"), int("size"), data("host_ptr"),
    quad("errorcode_ret"), quad("buffer")>>
xdr_set_kern_arg_t == <<quad("kernel"), int("arg_index"), data("arg"), int("result")>>
xdr_enq_ndr_kern_t ==
  <<quad("command_queue"), quad("kernel"), int("work_dim"), int("global_work_offset"),
    int("global_work_size"), int("local_work_size"), int("num_events_in_wait_list"),
    quad("event_wait_list"), quad("event"), int("result")>>
Transfer(blocking) ==
  <<quad("command_queue"), quad("buffer"), int(blocking), int("offset"), int("cb"),
    data("ptr"), quad("num_events_in_wait_list"), quad("event_wait_list"),
    quad("event"), int("result")>>
xdr_enq_read_buf_t  == Transfer("blocking_read")
xdr_enq_write_buf_t == Transfer("blocking_write")
xdr_enq_map_buf_t ==
  <<quad("command_queue"), quad("buffer"), int("blocking_map"), int("map_flags"),
    int("offset"), int("cb"), int("num_events_in_wait_list"), quad("event_wait_list"),
    quad("event"), quad("errorcode_ret"), data("buf")>>
xdr_finish_t         == <<quad("command_queue"), int("result")>>
xdr_release_mem_t    == <<quad("buffer"), int("result")>>
xdr_release_prog_t   == <<quad("prog"), int("result")>>
xdr_release_kern_t   == <<quad("kernel"), int("result")>>
xdr_release_cqueue_t == <<quad("command_queue"), int("result")>>
xdr_release_ctx_t    == <<quad("context"), int("result")>>

\* The struct of each procedure that has a wrapper.
Struct == [
  GET_PLAT_ID    |-> xdr_plat_id_t,        GET_DEVS_ID    |-> xdr_get_devs_t,
  CREATE_CTX     |-> xdr_create_ctx_t,     CREATE_CQUEUE  |-> xdr_create_cqueue_t,
  CREATE_PROG_WS |-> xdr_create_prog_ws_t, BUILD_PROG     |-> xdr_build_prog_t,
  CREATE_KERN    |-> xdr_create_kern_t,    CREATE_BUF     |-> xdr_create_buf_t,
  SET_KERN_ARG   |-> xdr_set_kern_arg_t,   ENQ_NDR_KERN   |-> xdr_enq_ndr_kern_t,
  FINISH         |-> xdr_finish_t,         ENQ_MAP_BUF    |-> xdr_enq_map_buf_t,
  ENQ_READ_BUF   |-> xdr_enq_read_buf_t,   ENQ_WRITE_BUF  |-> xdr_enq_write_buf_t,
  RELEASE_MEM    |-> xdr_release_mem_t,    RELEASE_PROG   |-> xdr_release_prog_t,
  RELEASE_KERN   |-> xdr_release_kern_t,   RELEASE_CQUEUE |-> xdr_release_cqueue_t,
  RELEASE_CTX    |-> xdr_release_ctx_t]
Procs == DOMAIN Struct

\* The routines the two sides run over it: the client's stubs for the last
\* releases were copied from clReleaseProgram.
ClientCodec(p) ==
  IF p \in {"RELEASE_KERN", "RELEASE_CQUEUE"} THEN xdr_release_prog_t ELSE Struct[p]
ServerCodec(p) == Struct[p]
-------------------------------------------------------------------------------
(* Flattening.  The external library puts the high unit of a quad first,   *)
(* sends a length before data and strings, and refuses a NULL string.      *)

Units(kind, v) ==
  CASE kind = "int"  -> <<v>>
    [] kind = "quad" -> <<v \div Word, v % Word>>
    [] OTHER         -> IF v[1] = 0 THEN <<0>> ELSE v

Flatten(codec, s) == FlattenSeq([i \in 1..Len(codec) |-> Units(codec[i][2], s[i])])
Encodes(codec, s) == \A i \in 1..Len(codec) : codec[i][2] = "string" => s[i] # Null

\* Units a member takes when it begins at unit i of w.
Width(kind, w, i) ==
  CASE kind = "int"  -> 1
    [] kind = "quad" -> 2
    [] OTHER         -> IF w[i] = 0 THEN 1 ELSE 2

Unflatten(codec, w) ==
  LET start[i \in 1..Len(codec)] ==
        IF i = 1 THEN 1 ELSE start[i - 1] + Width(codec[i - 1][2], w, start[i - 1])
      member(i) ==
        CASE codec[i][2] = "int"  -> w[start[i]]
          [] codec[i][2] = "quad" -> w[start[i]] * Word + w[start[i] + 1]
          [] OTHER -> IF w[start[i]] = 0 THEN Null ELSE <<w[start[i]], w[start[i] + 1]>>
  IN  [i \in 1..Len(codec) |-> member(i)]

\* memset and the assignments of a wrapper or handler: the members named in
\* r, the others zero; what is assigned to an int is cut to one unit.
Fill(p, r) ==
  LET T == Struct[p] IN
  [i \in 1..Len(T) |->
     CASE T[i][2] = "int"  -> IF T[i][1] \in DOMAIN r THEN r[T[i][1]] % Word ELSE 0
       [] T[i][2] = "quad" -> IF T[i][1] \in DOMAIN r THEN r[T[i][1]] ELSE 0
       [] OTHER            -> IF T[i][1] \in DOMAIN r THEN r[T[i][1]] ELSE Null]

\* The members of a struct by their names.
Named(p, s) ==
  [f \in {Struct[p][i][1] : i \in 1..Len(s)} |->
     s[CHOOSE i \in 1..Len(s) : Struct[p][i][1] = f]]

\* An int that becomes a size_t or a cl_bitfield is sign-extended.
Extend(u) == IF u >= Word \div 2 THEN u + Word * Word - Word ELSE u
-------------------------------------------------------------------------------
(* The wrappers: what each puts into the struct, from the arguments a.     *)

Bytes(n, c) == IF n % Word = 0 THEN Null ELSE <<n % Word, c>>
Keep(a, S) == [f \in S |-> a[f]]

clGetPlatformIDs(a)     == [num |-> a.num_entries]
clGetDeviceIDs(a)       == Keep(a, {"platform", "device_type", "num_entries"})
clCreateContext(a)      == Keep(a, {"num_devices", "devices"})
clCreateCommandQueue(a) == Keep(a, {"context", "device", "properties"})
clCreateProgramWithSource(a) ==
  [context |-> a.context, count |-> a.count, strings |-> <<1, a.strings>>]
clBuildProgram(a) ==
  [prog |-> a.program, num_devices |-> a.num_devices, device_list |-> a.device_list]
clCreateKernel(a) ==
  [prog |-> a.program,
   kernel_name |-> IF a.kernel_name = 0 THEN Null ELSE <<1, a.kernel_name>>]
clCreateBuffer(a) == Keep(a, {"context", "flags", "size"})
clSetKernelArg(a) ==
  [kernel |-> a.kernel, arg_index |-> a.arg_index,
   arg |-> IF a.arg_value = 0 THEN Null ELSE Bytes(a.arg_size, a.arg_value)]
clEnqueueNDRangeKernel(a) ==
  Keep(a, {"command_queue", "kernel", "work_dim", "global_work_size",
           "num_events_in_wait_list"})
clFinish(a) == Keep(a, {"command_queue"})
clEnqueueMapBufferM1(a) ==
  Keep(a, {"command_queue", "buffer", "blocking_map", "map_flags", "cb",
           "num_events_in_wait_list"})
clEnqueueMapBuffer(a) ==
  Keep(a, {"command_queue", "buffer", "blocking_map", "map_flags", "offset", "cb",
           "num_events_in_wait_list"})
clEnqueueReadBuffer(a) ==
  [f \in {"command_queue", "buffer", "blocking_read", "offset", "cb",
          "num_events_in_wait_list", "event_wait_list", "event", "ptr"} |->
     IF f = "ptr" THEN Bytes(a.cb, 0) ELSE a[f]]
clEnqueueWriteBuffer(a) ==
  [f \in {"command_queue", "buffer", "blocking_write", "cb",
          "num_events_in_wait_list", "event_wait_list", "event", "ptr"} |->
     IF f = "ptr" THEN Bytes(a.cb, a.ptr) ELSE a[f]]
clReleaseMemObject(a)    == [buffer |-> a.memobj]
clReleaseProgram(a)      == [prog |-> a.program]
clReleaseKernel(a)       == [kernel |-> a.kernel]
clReleaseCommandQueue(a) == [command_queue |-> a.command_queue]
clReleaseContext(a)      == [context |-> a.context]

Arguments(p, a) ==
  CASE p = "GET_PLAT_ID"    -> clGetPlatformIDs(a)
    [] p = "GET_DEVS_ID"    -> clGetDeviceIDs(a)
    [] p = "CREATE_CTX"     -> clCreateContext(a)
    [] p = "CREATE_CQUEUE"  -> clCreateCommandQueue(a)
    [] p = "CREATE_PROG_WS" -> clCreateProgramWithSource(a)
    [] p = "BUILD_PROG"     -> clBuildProgram(a)
    [] p = "CREATE_KERN"    -> clCreateKernel(a)
    [] p = "CREATE_BUF"     -> clCreateBuffer(a)
    [] p = "SET_KERN_ARG"   -> clSetKernelArg(a)
    [] p = "ENQ_NDR_KERN"   -> clEnqueueNDRangeKernel(a)
    [] p = "FINISH"         -> clFinish(a)
    [] p = "ENQ_MAP_BUF"    -> clEnqueueMapBuffer(a)
    [] p = "ENQ_READ_BUF"   -> clEnqueueReadBuffer(a)
    [] p = "ENQ_WRITE_BUF"  -> clEnqueueWriteBuffer(a)
    [] p = "RELEASE_MEM"    -> clReleaseMemObject(a)
    [] p = "RELEASE_PROG"   -> clReleaseProgram(a)
    [] p = "RELEASE_KERN"   -> clReleaseKernel(a)
    [] p = "RELEASE_CQUEUE" -> clReleaseCommandQueue(a)
    [] p = "RELEASE_CTX"    -> clReleaseContext(a)
-------------------------------------------------------------------------------
(* The handlers: what the driver is called with, and what goes into the    *)
(* result.  m is the decoded struct by names, d the driver's answer:       *)
(* a code, an object or a pointer, and the data behind the pointer.        *)

\* Members handed on, those in W from an int to a 64-bit parameter; the
\* number of events is a cl_uint, whatever the struct sends it as.
Wide(m, S, W) ==
  [f \in S |-> IF f \in W THEN Extend(m[f])
               ELSE IF f = "num_events_in_wait_list" THEN m[f] % Word
               ELSE m[f]]
Handled(call, reply) == [call |-> call, reply |-> reply]

get_plat_id_1_svc(m, d) ==
  Handled([num_entries |-> m.num], [result |-> d.code, platform |-> d.object])
get_devs_id_1_svc(m, d) ==
  Handled(Wide(m, {"platform", "device_type", "num_entries"}, {"device_type"}),
          [result |-> d.code, devices |-> d.object])
create_ctx_1_svc(m, d) ==
  Handled(Wide(m, {"num_devices", "devices"}, {}), [context |-> d.object])
create_cqueue_1_svc(m, d) ==
  Handled(Wide(m, {"context", "device", "properties"}, {"properties"}),
          [queue |-> d.object])
create_prog_ws_1_svc(m, d) ==
  Handled([context |-> m.context, count |-> m.count, strings |-> m.strings[2]],
          [strings |-> <<1, 0>>, prog |-> d.object])
build_prog_1_svc(m, d) ==
  Handled([program |-> m.prog, num_devices |-> m.num_devices,
           device_list |-> m.device_list], [result |-> d.code])
create_kern_1_svc(m, d) ==
  Handled([program |-> m.prog, kernel_name |-> m.kernel_name[2]],
          [kernel_name |-> <<1, 0>>, kernel |-> d.object])
create_buf_1_svc(m, d) ==
  Handled(Wide(m, {"context", "flags", "size"}, {"flags", "size"}),
          [buffer |-> d.object])
set_kern_arg_1_svc(m, d) ==
  Handled([kernel |-> m.kernel, arg_index |-> m.arg_index,
           arg_size |-> IF m.arg = Null THEN 36 ELSE m.arg[1],
           arg_value |-> m.arg[2]], [result |-> d.code])
enq_ndr_kern_1_svc(m, d) ==
  Handled(Wide(m, {"command_queue", "kernel", "work_dim", "global_work_size",
                   "num_events_in_wait_list"}, {"global_work_size"}),
          [result |-> d.code])
finish_1_svc(m, d) == Handled(Wide(m, {"command_queue"}, {}), [result |-> d.code])

\* result.buf is the mapped block itself, and the call's code goes nowhere.
enq_map_buf_1_svc(m, d) ==
  Handled(Wide(m, {"command_queue", "buffer", "blocking_map", "map_flags", "offset",
                   "cb", "num_events_in_wait_list"}, {"map_flags", "offset", "cb"}),
          [buf |-> Bytes(m.cb, d.data)])
\* The driver reads into the block the request's data were decoded into.
enq_read_buf_1_svc(m, d) ==
  Handled(Wide(m, {"command_queue", "buffer", "blocking_read", "offset", "cb",
                   "num_events_in_wait_list"}, {"offset", "cb"}),
          [result |-> d.code, ptr |-> Bytes(m.cb, d.data)])
enq_write_buf_1_svc(m, d) ==
  LET S == {"command_queue", "buffer", "blocking_write", "offset", "cb",
            "num_events_in_wait_list"}
  IN  Handled([f \in S \cup {"ptr"} |->
                 IF f = "ptr" THEN m.ptr[2] ELSE Wide(m, S, {"offset", "cb"})[f]],
              [result |-> d.code, ptr |-> m.ptr])
release_mem_1_svc(m, d)    == Handled([memobj |-> m.buffer], [result |-> d.code])
release_prog_1_svc(m, d)   == Handled([program |-> m.prog], [result |-> d.code])
release_kern_1_svc(m, d)   == Handled([kernel |-> m.kernel], [result |-> d.code])
release_cqueue_1_svc(m, d) ==
  Handled([command_queue |-> m.command_queue], [result |-> d.code])
release_ctx_1_svc(m, d)    == Handled([context |-> m.context], [result |-> d.code])

\* ocl_prog_1: the handler of a procedure number.
ocl_prog_1(p, m, d) ==
  CASE p = "GET_PLAT_ID"    -> get_plat_id_1_svc(m, d)
    [] p = "GET_DEVS_ID"    -> get_devs_id_1_svc(m, d)
    [] p = "CREATE_CTX"     -> create_ctx_1_svc(m, d)
    [] p = "CREATE_CQUEUE"  -> create_cqueue_1_svc(m, d)
    [] p = "CREATE_PROG_WS" -> create_prog_ws_1_svc(m, d)
    [] p = "BUILD_PROG"     -> build_prog_1_svc(m, d)
    [] p = "CREATE_KERN"    -> create_kern_1_svc(m, d)
    [] p = "CREATE_BUF"     -> create_buf_1_svc(m, d)
    [] p = "SET_KERN_ARG"   -> set_kern_arg_1_svc(m, d)
    [] p = "ENQ_NDR_KERN"   -> enq_ndr_kern_1_svc(m, d)
    [] p = "FINISH"         -> finish_1_svc(m, d)
    [] p = "ENQ_MAP_BUF"    -> enq_map_buf_1_svc(m, d)
    [] p = "ENQ_READ_BUF"   -> enq_read_buf_1_svc(m, d)
    [] p = "ENQ_WRITE_BUF"  -> enq_write_buf_1_svc(m, d)
    [] p = "RELEASE_MEM"    -> release_mem_1_svc(m, d)
    [] p = "RELEASE_PROG"   -> release_prog_1_svc(m, d)
    [] p = "RELEASE_KERN"   -> release_kern_1_svc(m, d)
    [] p = "RELEASE_CQUEUE" -> release_cqueue_1_svc(m, d)
    [] p = "RELEASE_CTX"    -> release_ctx_1_svc(m, d)
-------------------------------------------------------------------------------
(* The prototypes: what an application passes in, in the order of cl.h.    *)
(* An array pointed at is its first element, a NULL array is 0.            *)

Prototype == [
  GET_PLAT_ID    |-> <<"num_entries">>,
  GET_DEVS_ID    |-> <<"platform", "device_type", "num_entries">>,
  CREATE_CTX     |-> <<"properties", "num_devices", "devices", "pfn_notify", "user_data">>,
  CREATE_CQUEUE  |-> <<"context", "device", "properties">>,
  CREATE_PROG_WS |-> <<"context", "count", "strings", "lengths">>,
  BUILD_PROG     |-> <<"program", "num_devices", "device_list", "options",
                       "pfn_notify", "user_data">>,
  CREATE_KERN    |-> <<"program", "kernel_name">>,
  CREATE_BUF     |-> <<"context", "flags", "size", "host_ptr">>,
  SET_KERN_ARG   |-> <<"kernel", "arg_index", "arg_size", "arg_value">>,
  ENQ_NDR_KERN   |-> <<"command_queue", "kernel", "work_dim", "global_work_offset",
                       "global_work_size", "local_work_size",
                       "num_events_in_wait_list", "event_wait_list", "event">>,
  FINISH         |-> <<"command_queue">>,
  ENQ_MAP_BUF    |-> <<"command_queue", "buffer", "blocking_map", "map_flags", "offset",
                       "cb", "num_events_in_wait_list", "event_wait_list", "event">>,
  ENQ_READ_BUF   |-> <<"command_queue", "buffer", "blocking_read", "offset", "cb",
                       "num_events_in_wait_list", "event_wait_list", "event">>,
  ENQ_WRITE_BUF  |-> <<"command_queue", "buffer", "blocking_write", "offset", "cb", "ptr",
                       "num_events_in_wait_list", "event_wait_list", "event">>,
  RELEASE_MEM    |-> <<"memobj">>,
  RELEASE_PROG   |-> <<"program">>,
  RELEASE_KERN   |-> <<"kernel">>,
  RELEASE_CQUEUE |-> <<"command_queue">>,
  RELEASE_CTX    |-> <<"context">>]

Params(p) == ToSet(Prototype[p])
\* Parameters of a 32-bit type; the others are 64 bits wide.
Uints == {"num_entries", "num_devices", "count", "arg_index", "work_dim",
          "num_events_in_wait_list", "blocking_map", "blocking_read", "blocking_write"}
\* size_t and cl_bitfield parameters: they travel as an int.
Squeezed == {"device_type", "properties", "flags", "size", "map_flags", "offset", "cb",
             "global_work_size"}
Creates == {"CREATE_CTX", "CREATE_CQUEUE", "CREATE_PROG_WS", "CREATE_KERN",
            "CREATE_BUF", "ENQ_MAP_BUF"}

XdrAssumption ==
  /\ Word \in Nat \ {0} /\ Word % 2 = 0
  /\ 0 \in Codes /\ Codes \subseteq 0..(Word - 1)
  /\ \A p \in Procs : \A a \in Given[p] :
       /\ a \in [Params(p) -> 0..(Word * Word - 1)]
       /\ \A f \in Params(p) \cap Uints : a[f] < Word
-------------------------------------------------------------------------------
(* One call from the application to the driver and back.                   *)

VARIABLES
  pc,      \* where the call is
  proc,    \* its procedure
  app,     \* the application's arguments
  wire,    \* the units in flight
  driver,  \* what the driver was called with
  block,   \* length of the data block the request was decoded into
  answer,  \* the driver's answer
  out      \* what the application gets

vars == <<pc, proc, app, wire, driver, block, answer, out>>

Nothing == [code |-> 0, object |-> 0, data |-> 0]

Init ==
  /\ proc \in Procs /\ app \in Given[proc]
  /\ pc = "call" /\ wire = <<>> /\ driver = <<>> /\ block = 0
  /\ answer = Nothing /\ out = Nothing

\* Arrays the wrapper takes the first element of without a look at the pointer.
Dereferenced(p) ==
  CASE p = "CREATE_CTX"     -> {"devices"}
    [] p = "BUILD_PROG"     -> {"device_list"}
    [] p = "CREATE_PROG_WS" -> {"strings"}
    [] p = "ENQ_NDR_KERN"   -> {"global_work_size"}
    [] OTHER                -> {}

\* The wrapper fills the struct and clnt_call encodes it.
Marshal ==
  LET s == Fill(proc, Arguments(proc, app)) IN
  /\ pc = "call"
  /\ IF \E f \in Dereferenced(proc) : app[f] = 0
     THEN pc' = "crashed" /\ UNCHANGED wire
     ELSE IF Encodes(ClientCodec(proc), s)
     THEN pc' = "request" /\ wire' = Flatten(ClientCodec(proc), s)
     ELSE pc' = "refused" /\ UNCHANGED wire
  /\ UNCHANGED <<proc, app, driver, block, answer, out>>

\* What the driver may say: a failure has no object and no data.
Answers == {d \in [code : Codes, object : {0, Word + 1}, data : {0, 1}] :
              IF d.code = 0 THEN d.object # 0 /\ d.data # 0
              ELSE d.object = 0 /\ d.data = 0}

\* svc_getargs, the handler with its driver call, and svc_sendreply, which
\* reads through the pointer of a map that failed.
Serve ==
  /\ pc = "request"
  /\ \E d \in Answers :
       LET m == Named(proc, Unflatten(ServerCodec(proc), wire))
           h == ocl_prog_1(proc, m, d)
           r == Fill(proc, h.reply)
       IN /\ driver' = h.call
          /\ block' = IF "ptr" \in DOMAIN h.reply THEN m.ptr[1] ELSE 0
          /\ answer' = d
          /\ CASE proc = "ENQ_MAP_BUF" /\ d.object = 0 /\ m.cb # 0 ->
                    pc' = "dead" /\ UNCHANGED wire
               [] ~Encodes(ServerCodec(proc), r) -> pc' = "refused" /\ UNCHANGED wire
               [] OTHER -> pc' = "reply" /\ wire' = Flatten(ServerCodec(proc), r)
  /\ UNCHANGED <<proc, app, out>>

\* The member of the result the wrapper hands to the application as an object.
Object(p) ==
  CASE p = "GET_PLAT_ID" -> "platform" [] p = "GET_DEVS_ID" -> "devices"
    [] p = "CREATE_CTX" -> "context"   [] p = "CREATE_CQUEUE" -> "queue"
    [] p = "CREATE_PROG_WS" -> "prog"  [] p = "CREATE_KERN" -> "kernel"
    [] p = "CREATE_BUF" -> "buffer"    [] OTHER -> ""

\* clnt_call decodes the result; a create reports CL_SUCCESS whatever came,
\* a read copies the data to the application.
Unmarshal ==
  LET m == Named(proc, Unflatten(ClientCodec(proc), wire))
  IN /\ pc = "reply"
     /\ pc' = "done"
     /\ out' = [code   |-> IF proc \in Creates THEN 0 ELSE m.result,
                object |-> IF Object(proc) = "" THEN 0 ELSE m[Object(proc)],
                data   |-> CASE proc = "ENQ_MAP_BUF"  -> m.buf[2]
                             [] proc = "ENQ_READ_BUF" -> m.ptr[2]
                             [] OTHER -> 0]
     /\ UNCHANGED <<proc, app, wire, driver, block, answer>>

Next == Marshal \/ Serve \/ Unmarshal
Spec == Init /\ [][Next]_vars
-------------------------------------------------------------------------------
(* Properties.                                                             *)

\* A message is numbers (the contents of data count as one); the call is at
\* a known place of its way.
TypeOK ==
  /\ pc \in {"call", "request", "reply", "done", "crashed", "dead", "refused"}
  /\ proc \in Procs /\ DOMAIN app = Params(proc)
  /\ ToSet(wire) \subseteq 0..(Word * Word - 1)
  /\ out.object \in 0..(Word * Word - 1)

\* What the SunRPC wrapper never sends, or its handler never hands on.
Dropped(p) ==
  {"pfn_notify", "user_data", "lengths", "options", "host_ptr", "global_work_offset",
   "local_work_size", "event_wait_list", "event"}
  \cup (IF p = "CREATE_CTX" THEN {"properties"} ELSE {})
  \cup (IF p = "ENQ_WRITE_BUF" THEN {"offset"} ELSE {})

\* A number that keeps its value as an int and back.
FitsInt(v) == v < Word \div 2 \/ v >= Word * Word - Word \div 2

\* The arguments whose values survive the trip to the driver.
Survives(f) ==
  CASE f \in Dropped(proc)  -> app[f] = 0
    [] f \in Squeezed \ Dropped(proc) -> FitsInt(app[f])
    [] f = "arg_size"       -> IF app.arg_value = 0 \/ app[f] % Word = 0
                               THEN app[f] = 36 ELSE app[f] < Word
    [] f = "arg_value"      -> app[f] = 0 \/ app.arg_size % Word # 0
    [] f = "ptr"            -> app[f] = 0 \/ app.cb % Word # 0
    [] OTHER                -> TRUE

\* The remote driver is called with what the application would have passed
\* to a local one: every parameter arrives, in its own place and with its
\* own value, exactly when it is one that is sent and it fits the struct's
\* member (ocl_rpc_clnt.c, the `local` branch of every wrapper).
RemoteMeansLocal ==
  pc \in {"reply", "done"} =>
    \A f \in Params(proc) :
      (IF f \in DOMAIN driver THEN driver[f] ELSE 0) = app[f] <=> Survives(f)

\* The block behind a read or a write is as long as the transfer the driver
\* is told to make, for every length that fits an int (enq_read_buf_1_svc
\* and enq_write_buf_1_svc pass `cb` and a block of `ptr_len` bytes).
BlockCoversTransfer ==
  /\ proc \in {"ENQ_READ_BUF", "ENQ_WRITE_BUF"} /\ pc = "reply" /\ FitsInt(app.cb)
  /\ app.cb < Word
  => block = app.cb

\* No message is refused by its own routine, a kernel without a name apart:
\* the strings of a reply, which xdr_string does not let be NULL, are set.
NothingRefused ==
  pc = "refused" => proc = "CREATE_KERN" /\ app.kernel_name = 0 /\ driver = <<>>

\* Code, object and data come back as the driver gave them; a create that
\* failed says so by its object alone, its code is CL_SUCCESS.
AnswerReachesCaller ==
  pc = "done" =>
    /\ out.code = IF proc \in Creates THEN 0 ELSE answer.code
    /\ Object(proc) # "" => out.object = answer.object
    /\ proc \in {"ENQ_READ_BUF", "ENQ_MAP_BUF"} /\ app.cb % Word # 0
         => out.data = answer.data
==============================================================================
