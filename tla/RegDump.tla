------------------------------ MODULE RegDump ------------------------------
(***************************************************************************)
(* The register dumps of libqdma.  A physical function prints its          *)
(* registers itself; a virtual function asks the physical one, group by    *)
(* group, for a list of at most QDMA_MAX_REGISTER_DUMP registers and       *)
(* prints the lists; and the fields of a run of registers can be printed.  *)
(*                                                                         *)
(* A register's value is modelled by the address it was read from, so that *)
(* a line shows whether it has the value of the register it names.  Names  *)
(* are not modelled: every register name with its index fits the name      *)
(* buffer, and dump_reg() then prints lines of one fixed length.           *)
(***************************************************************************)
EXTENDS QdmaRegs, FiniteSets, SequencesExt

VARIABLES
  conf,    \* the variant and what the device was built with
  call,    \* the dump in progress: its kind and arguments, or Idle
  pc,      \* where it is
  group,   \* group of registers a VF asks for
  list,    \* the list of registers a VF got, as read by the PF
  count,   \* entries of the list that are printed
  out,     \* lines in the buffer
  len      \* the length the function will return, or an error

vars == <<conf, call, pc, group, list, count, out, len>>

Ips == {"eqdma", "soft", "s80"}

LINE == 80                    \* length of a line of dump_reg()
DEBGFS_LINE_SZ == 81
REG_DUMP_SIZE_PER_LINE == 256
QDMA_MAX_REGISTER_DUMP == 14
QDMA_REG_READ_GROUP_3 == 2    \* groups are numbered from 0
INV_PARAM == 0 - 1            \* -QDMA_ERR_INV_PARAM
NO_MEM == 0 - 2               \* -QDMA_ERR_NO_MEM

NumRegs == Len(Regs[conf.ip])
Row(i) == Regs[conf.ip][i]

-----------------------------------------------------------------------------
(* What a device has, as xxx_get_device_attributes() reads it.               *)

eqdma_get_device_attributes ==
  [ip : {"eqdma"}, mm : BOOLEAN, st : BOOLEAN, cmpt : {FALSE},
   mailbox : BOOLEAN, debug : BOOLEAN]
qdma_get_device_attributes ==
  [ip : {"soft"}, mm : BOOLEAN, st : BOOLEAN, cmpt : BOOLEAN,
   mailbox : BOOLEAN, debug : {FALSE}]
qdma_s80_hard_get_device_attributes ==
  [ip : {"s80"}, mm : BOOLEAN, st : BOOLEAN, cmpt : {FALSE},
   mailbox : BOOLEAN, debug : {FALSE}]

\* (mutant) completion registers only with memory-mapped completions
CapabilityNoStCmpt == {e \in {"mm", "st", "mailbox", "cmpt"} : conf[e]}

GET_CAPABILITY_MASK ==
  {e \in {"mm", "st", "mailbox"} : conf[e]}
    \cup (IF conf.cmpt \/ conf.st THEN {"cmpt"} ELSE {})

IsEnabled(row) == row.mode \cap GET_CAPABILITY_MASK # {}

\* The registers a row stands for, each with its value.
Lines(row) ==
  [j \in 1..row.repeat |-> [addr |-> row.addr + 4 * (j - 1),
                            val |-> row.addr + 4 * (j - 1)]]

-----------------------------------------------------------------------------
(* The dump of a physical function: the registers it shows and its buffer.   *)

eqdma_dump_config_regs(row) == IsEnabled(row) /\ (row.debug => conf.debug)
qdma_soft_dump_config_regs(row) == IsEnabled(row)
qdma_s80_hard_dump_config_regs(row) == IsEnabled(row)

dump_config_regs(row) ==
  CASE conf.ip = "eqdma" -> eqdma_dump_config_regs(row)
    [] conf.ip = "soft"  -> qdma_soft_dump_config_regs(row)
    [] conf.ip = "s80"   -> qdma_s80_hard_dump_config_regs(row)

reg_dump_buf_len == (NumRegs + 1) * REG_DUMP_SIZE_PER_LINE

\* The length left in the buffer lets dump_reg() print n more lines.
HasRoom(n) ==
  n = 0 \/ LINE * (Len(out) + n - 1) + DEBGFS_LINE_SZ <= reg_dump_buf_len

-----------------------------------------------------------------------------
(* The list the PF reads for a VF.                                           *)

\* The first register at an address, the last one of the table excepted;
\* 0 if there is none.
get_reg_entry(addr) ==
  LET rows == Regs[conf.ip]
      at == {i \in 1..(Len(rows) - 1) : rows[i].addr = addr}
  IN  IF at = {} THEN 0 ELSE CHOOSE i \in at : \A k \in at : i <= k

AllLines(rows) == FlattenSeq([i \in DOMAIN rows |-> Lines(rows[i])])

\* The first QDMA_MAX_REGISTER_DUMP registers of the rows.
Take(rows) ==
  LET ls == AllLines(rows)
  IN  SubSeq(ls, 1, IF Len(ls) < QDMA_MAX_REGISTER_DUMP THEN Len(ls)
                    ELSE QDMA_MAX_REGISTER_DUMP)

ForVf(row) == IsEnabled(row) /\ row.vf

\* (mutant) reads only the first register of an array
ReadFirstOnly(start) ==
  LET rows == SelectSeq(SubSeq(SoftRegs, start, NumRegs - 1), ForVf)
  IN  Take([i \in DOMAIN rows |-> [rows[i] EXCEPT !.repeat = 1]])

\* From the group's first register on; the hard IP's function starts from
\* the table's first register whatever the group.
eqdma_read_reg_list(start) ==
  LET shown(row) == ForVf(row) /\ (row.debug => conf.debug)
  IN  Take(SelectSeq(SubSeq(EqdmaRegs, start, NumRegs - 1), shown))
qdma_read_reg_list(start) ==
  Take(SelectSeq(SubSeq(SoftRegs, start, NumRegs - 1), ForVf))
qdma_s80_hard_read_reg_list(start) ==
  Take(SelectSeq(SubSeq(S80Regs, 1, NumRegs - start), ForVf))

GroupStart ==
  [eqdma |-> <<\h0, \h804, \hB00, \h5014>>,
   soft  |-> <<\h0, \h400, \hB00, \h1014>>,
   s80   |-> <<\h0, \h400, \hB00, \h1014>>]

read_reg_list(g) ==
  LET start == get_reg_entry(GroupStart[conf.ip][g + 1])
  IN  CASE start = 0         -> <<>>
        [] conf.ip = "eqdma" -> eqdma_read_reg_list(start)
        [] conf.ip = "soft"  -> qdma_read_reg_list(start)
        [] conf.ip = "s80"   -> qdma_s80_hard_read_reg_list(start)

-----------------------------------------------------------------------------
(* The fields of num_regs registers from the one at an address on.  The      *)
(* bits come from each register's own list, the name from the list of the    *)
(* first register, which may have fewer fields (then the name is unknown).   *)

Unknown == <<0, 0>>

FieldLines(i, j) ==
  LET fs == Fields(conf.ip, j)
  IN  IF Row(j).debug /\ ~conf.debug THEN <<>>
      ELSE [k \in DOMAIN fs |->
              [reg |-> j, bits |-> fs[k],
               name |-> IF k \in DOMAIN Fields(conf.ip, i) THEN <<i, k>>
                        ELSE Unknown]]

-----------------------------------------------------------------------------
Idle == [kind |-> "none"]

Init ==
  /\ conf \in eqdma_get_device_attributes \cup qdma_get_device_attributes
                \cup qdma_s80_hard_get_device_attributes
  /\ call = Idle /\ pc = "idle"
  /\ group = 0 /\ list = <<>> /\ count = 0 /\ out = <<>> /\ len = 0

(* qdma_config_reg_dump() of a physical function, into the least buffer it   *)
(* accepts; and qdma_config_reg_info_dump() of one register or of several.   *)
DumpPf ==
  /\ pc = "idle"
  /\ call' = [kind |-> "pf"]
  /\ pc' = "regs"
  /\ UNCHANGED <<conf, group, list, count, out, len>>

DumpInfo(i, num_regs) ==
  /\ pc = "idle"
  /\ call' = [kind |-> "info", reg |-> i, n |-> num_regs]
  /\ count' = i - 1
  /\ pc' = "regs"
  /\ UNCHANGED <<conf, group, list, out, len>>

(* The loop over the registers in xxx_dump_config_regs().                    *)
DumpRow ==
  /\ pc = "regs" /\ call.kind = "pf" /\ count < NumRegs
  /\ LET row == Row(count + 1)
         ls == IF dump_config_regs(row) THEN Lines(row) ELSE <<>> IN
       IF HasRoom(Len(ls))
       THEN /\ out' = out \o ls
            /\ count' = count + 1
            /\ UNCHANGED <<pc, len>>
       ELSE /\ len' = NO_MEM /\ pc' = "returned"
            /\ UNCHANGED <<out, count>>
  /\ UNCHANGED <<conf, call, group, list>>

(* The loop over the registers in xxx_dump_reg_info().                       *)
dump_reg_info ==
  /\ pc = "regs" /\ call.kind = "info"
  /\ count < NumRegs /\ count < call.reg + call.n - 1
  /\ out' = out \o FieldLines(call.reg, count + 1)
  /\ count' = count + 1
  /\ UNCHANGED <<conf, call, pc, group, list, len>>

AllShown ==
  /\ pc = "regs"
  /\ count >= IF call.kind = "pf" \/ call.reg + call.n - 1 > NumRegs
              THEN NumRegs ELSE call.reg + call.n - 1
  /\ len' = LINE * Len(out) /\ pc' = "returned"
  /\ UNCHANGED <<conf, call, group, list, count, out>>

(* qdma_config_reg_dump() of a virtual function.  debug is what it reads as  *)
(* its own debug_mode.                                                       *)
DumpVf(debug) ==
  /\ pc = "idle"
  /\ call' = [kind |-> "vf", debug |-> debug]
  /\ pc' = "ask"
  /\ UNCHANGED <<conf, group, list, count, out, len>>

(* The PF answers MBOX_OP_REG_LIST_READ; an empty list is an error, on which *)
(* the VF returns what it has.                                               *)
Answer ==
  /\ pc = "ask"
  /\ list' = read_reg_list(group)
  /\ pc' = IF list' = <<>> THEN "returned" ELSE "print"
  /\ count' = 0
  /\ UNCHANGED <<conf, call, group, out, len>>

(* The mailbox message is not answered in time.                              *)
AnswerLate ==
  /\ pc = "ask"
  /\ pc' = "returned"
  /\ UNCHANGED <<conf, call, group, list, count, out, len>>

\* The value of an entry of the list; there is none past its end.
ListValue(k) == IF k <= Len(list) THEN list[k].val ELSE INV_PARAM

\* The eqdma function looks for debug registers at the wrong index and does
\* not move on when it meets one.
Stuck ==
  conf.ip = "eqdma" /\ ~call.debug /\ Row(count + 1).debug

\* Once a list is printed, or the printing has failed, the next group.
EndGroup(rcv_len) ==
  /\ len' = len + rcv_len
  /\ group' = group + 1
  /\ pc' = IF group + 1 < QDMA_REG_READ_GROUP_3 THEN "ask" ELSE "returned"

(* xxx_dump_config_reg_list(): the row of one entry of the list is looked up *)
(* and as many entries are printed as it repeats.                            *)
PrintEntry ==
  /\ pc = "print" /\ count < Len(list)
  /\ ~Stuck
  /\ LET i == get_reg_entry(list[count + 1].addr) IN
       IF i # 0
       THEN /\ out' = out \o [j \in 1..Row(i).repeat |->
                                [addr |-> Row(i).addr + 4 * (j - 1),
                                 val |-> ListValue(count + j)]]
            /\ count' = count + Row(i).repeat
            /\ UNCHANGED <<group, pc, len>>
       ELSE /\ EndGroup(INV_PARAM)
            /\ UNCHANGED <<out, count>>
  /\ UNCHANGED <<conf, call, list>>

ListPrinted ==
  /\ pc = "print" /\ count >= Len(list)
  /\ EndGroup(LINE * count)
  /\ UNCHANGED <<conf, call, list, count, out>>

(* The caller takes the result.                                              *)
TakeResult ==
  /\ pc = "returned"
  /\ call' = Idle /\ pc' = "idle"
  /\ group' = 0 /\ list' = <<>> /\ count' = 0 /\ out' = <<>> /\ len' = 0
  /\ UNCHANGED conf

Next ==
  \/ DumpPf
  \/ \E i \in 1..NumRegs, num_regs \in 1..2 : DumpInfo(i, num_regs)
  \/ \E debug \in BOOLEAN : DumpVf(debug)
  \/ DumpRow \/ dump_reg_info \/ AllShown
  \/ Answer \/ AnswerLate \/ PrintEntry \/ ListPrinted \/ TakeResult

Spec == Init /\ [][Next]_vars

-----------------------------------------------------------------------------
(* Properties.                                                               *)

Returned(kind) == pc = "returned" /\ call.kind = kind

\* The registers that a dump can show.
Registers(rows) == UNION {{l.addr : l \in Range(Lines(r))} : r \in Range(rows)}

\* A streaming device has completions too.
HasEngine(e) == conf[e] \/ (e = "cmpt" /\ conf.st)

\* The variants whose tables break what TablesSound says.
Unsound ==
  {ip \in Ips :
     LET rows == SelectSeq(Regs[ip], LAMBDA r : r.repeat > 0)
         end(r) == r.addr + 4 * r.repeat
         alone == \A i, k \in DOMAIN rows :
                    i < k => \/ end(rows[i]) <= rows[k].addr
                             \/ end(rows[k]) <= rows[i].addr
         distinct(fs) ==
           /\ \A k \in DOMAIN fs : 31 >= fs[k][1] /\ fs[k][1] >= fs[k][2]
           /\ \A k, m \in DOMAIN fs : k < m => fs[k][2] > fs[m][1]
     IN  ~(/\ alone
           /\ Len(FieldLists[ip]) = Len(Regs[ip])
           /\ \A i \in DOMAIN Regs[ip] : distinct(Fields(ip, i)))}

(* What the dumps take for granted of the tables: no two rows have an        *)
(* address in common (get_reg_entry() finds a register by its address), each *)
(* register has its list of fields, every field has at least one bit (the    *)
(* searches for its lowest and highest bit end), and fields do not overlap.  *)
TablesSound == conf.ip \notin Unsound

(* A physical function's dump shows each register of the engines the device  *)
(* has once, with its own value, and fits the buffer whose length            *)
(* xxx_reg_dump_buf_len() computes although arrays take several lines (the   *)
(* EQDMA variant leaves out debug registers when debug mode is off).  The    *)
(* fields shown of a single register carry that register's names.  (Of       *)
(* several registers, all after the first are shown with the names of the    *)
(* first.)                                                                   *)
DumpComplete ==
  /\ Returned("pf") =>
       /\ len = LINE * Len(out)
       /\ Len(out) = Cardinality({l.addr : l \in Range(out)})
       /\ \A l \in Range(out) : l.val = l.addr
       /\ {l.addr : l \in Range(out)} =
            UNION {{r.addr + 4 * j : j \in 0..(r.repeat - 1)} :
                     r \in {s \in Range(Regs[conf.ip]) :
                              /\ \E e \in s.mode : HasEngine(e)
                              /\ s.debug => conf.debug}}
  /\ Returned("info") /\ call.n = 1 =>
       \A k \in DOMAIN out : out[k].name = <<call.reg, k>>

\* The tables of registers are sound and the physical function's dump shows all of them.
RegistersDumped == TablesSound /\ DumpComplete

(* What a virtual function's dump prints is true: every line shows the value *)
(* the physical function read from the register the line names, a register   *)
(* of an engine the device has and open to VFs; none is printed twice (the   *)
(* hard IP sends the first group again for the second); and the length       *)
(* returned is that of the text, with no error code added into it.  It rests *)
(* on no array of registers being cut off at the end of a full list.  And    *)
(* the printing goes on: no list is so long that the EQDMA function's index  *)
(* meets a debug register.                                                   *)
VfDumpTrue ==
  /\ pc = "print" /\ count < Len(list) => ~Stuck
  /\ Returned("vf") =>
       /\ \A l \in Range(out) : l.val = l.addr
       /\ {l.addr : l \in Range(out)}
            \subseteq Registers(SelectSeq(Regs[conf.ip], ForVf))
       /\ Cardinality({l.addr : l \in Range(out)}) =
            IF conf.ip = "s80" /\ group = 2 THEN Len(out) \div 2 ELSE Len(out)
       /\ len = LINE * Len(out)
=============================================================================
