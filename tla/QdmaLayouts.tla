---------------------------- MODULE QdmaLayouts ----------------------------
(***************************************************************************)
(* Where each field of a queue context sits in the words of the indirect   *)
(* context registers, for the three QDMA variants: eqdma (EQDMA soft IP),  *)
(* soft (QDMA soft IP) and s80 (Versal hard IP).  A layout is a set of     *)
(* triples <<register bit, field, bit of the field>>; the xxx_context_     *)
(* write() functions and the xxx_context_read() functions each have their  *)
(* own, because the code states the positions twice.  A field's width is   *)
(* that of its mask or of the C type it is cast to, whichever is smaller.  *)
(* The module also holds what a context dump shows: the fields that        *)
(* xxx_fill_xxx_ctxt() copies, in order, and the length of the label table *)
(* they are copied to.                                                     *)
(***************************************************************************)
EXTENDS Integers, Sequences

P(field, lsb, width) == <<field, lsb, width>>   \* bits lsb.. of a field
F(field, width) == P(field, 0, width)           \* a field from its bit 0
Gap(width) == P("gap", 0, width)                \* unused bits

\* The bits of word w, listed from its bit 0 upwards.
At(w, fields) ==
  LET pos[i \in 0..Len(fields)] ==
        IF i = 0 THEN 32 * w ELSE pos[i - 1] + fields[i][3]
  IN  UNION {{<<pos[i - 1] + b, fields[i][1], fields[i][2] + b>>
               : b \in 0..(fields[i][3] - 1)}
              : i \in {j \in 1..Len(fields) : fields[j][1] # "gap"}}

Words(ws) == UNION {At(i - 1, ws[i]) : i \in 1..Len(ws)}

-----------------------------------------------------------------------------
(* EQDMA soft IP *)

\* The read-only contexts as the register description gives them.
EqdmaHwFields ==
  Words(<<
    <<F("cidx", 16), F("crd_use", 16)>>,
    <<Gap(8), F("dsc_pend", 1), F("idl_stp_b", 1), F("evt_pnd", 1),
      F("fetch_pnd", 4)>>>>)

EqdmaCreditFields == Words(<<<<F("credit", 16)>>>>)

EqdmaSwWrite ==
  Words(<<
    <<F("pidx", 16), F("irq_arm", 1), F("fnc_id", 8)>>,
    <<F("qen", 1), F("frcd_en", 1), F("wbi_chk", 1), F("wbi_intvl_en", 1),
      F("at", 1), F("fetch_max", 4), Gap(3), F("rngsz_idx", 4),
      F("desc_sz", 2), F("bypass", 1), F("mm_chn", 1), F("wbk_en", 1),
      F("irq_en", 1), F("port_id", 3), F("irq_no_last", 1), F("err", 2),
      F("err_wb_sent", 1), F("irq_req", 1), F("mrkr_dis", 1),
      F("is_mm", 1)>>,
    <<F("ring_bs_addr", 32)>>,
    <<P("ring_bs_addr", 32, 32)>>,
    <<F("vec", 11), F("intr_aggr", 1), F("dis_intr_on_vf", 1),
      F("virtio_en", 1), F("pack_byp_out", 1), F("irq_byp", 1),
      F("host_id", 4), F("pasid", 12)>>,
    <<P("pasid", 12, 10), F("pasid_en", 1), F("virtio_dsc_base", 21)>>,
    <<P("virtio_dsc_base", 21, 32)>>,
    <<P("virtio_dsc_base", 53, 11)>>>>)

\* The top bits of virtio_dsc_base are taken from word 6, not word 7.
EqdmaSwRead ==
  Words(<<
    <<F("pidx", 16), F("irq_arm", 1), F("fnc_id", 8)>>,
    <<F("qen", 1), F("frcd_en", 1), F("wbi_chk", 1), F("wbi_intvl_en", 1),
      F("at", 1), F("fetch_max", 4), Gap(3), F("rngsz_idx", 4),
      F("desc_sz", 2), F("bypass", 1), F("mm_chn", 1), F("wbk_en", 1),
      F("irq_en", 1), F("port_id", 3), F("irq_no_last", 1), F("err", 2),
      F("err_wb_sent", 1), F("irq_req", 1), F("mrkr_dis", 1),
      F("is_mm", 1)>>,
    <<F("ring_bs_addr", 32)>>,
    <<P("ring_bs_addr", 32, 32)>>,
    <<F("vec", 11), F("intr_aggr", 1), F("dis_intr_on_vf", 1),
      F("virtio_en", 1), F("pack_byp_out", 1), F("irq_byp", 1),
      F("host_id", 4), F("pasid", 12)>>,
    <<P("pasid", 12, 10), F("pasid_en", 1), F("virtio_dsc_base", 21)>>,
    <<P("virtio_dsc_base", 21, 32)>>>>)
  \cup At(6, <<P("virtio_dsc_base", 53, 11)>>)

EqdmaPfetchWrite ==
  Words(<<
    <<F("bypass", 1), F("bufsz_idx", 4), F("port_id", 3), F("var_desc", 1),
      Gap(1), F("num_pftch", 6), Gap(10), F("err", 1), F("pfch_en", 1),
      F("pfch", 1), F("sw_crdt", 3)>>,
    <<P("sw_crdt", 3, 13), F("valid", 1)>>>>)

\* (mutant) misses the unused bit before num_pftch
EqdmaPfetchShifted ==
  Words(<<
    <<F("bypass", 1), F("bufsz_idx", 4), F("port_id", 3), F("var_desc", 1),
      F("num_pftch", 6), Gap(11), F("err", 1), F("pfch_en", 1),
      F("pfch", 1), F("sw_crdt", 3)>>,
    <<P("sw_crdt", 3, 13), F("valid", 1)>>>>)

EqdmaPfetchRead ==
  Words(<<
    <<F("bypass", 1), F("bufsz_idx", 4), F("port_id", 3), F("var_desc", 1),
      Gap(1), F("num_pftch", 6), Gap(10), F("err", 1), F("pfch_en", 1),
      F("pfch", 1), F("sw_crdt", 3)>>,
    <<P("sw_crdt", 3, 13), F("valid", 1)>>>>)

EqdmaCmptWrite ==
  Words(<<
    <<F("en_stat_desc", 1), F("en_int", 1), F("trig_mode", 3), F("fnc_id", 8),
      Gap(4), F("counter_idx", 4), F("timer_idx", 4), F("in_st", 2),
      F("color", 1), F("ringsz_idx", 4)>>,
    <<P("bs_addr", 6, 32)>>,
    <<P("bs_addr", 38, 26), F("desc_sz", 2), F("pidx", 4)>>,
    <<P("pidx", 4, 12), F("cidx", 16), F("valid", 1), F("err", 2),
      F("user_trig_pend", 1)>>,
    <<F("timer_running", 1), F("full_upd", 1), F("ovf_chk_dis", 1),
      F("at", 1), F("vec", 11), F("int_aggr", 1),
      F("dis_intr_on_vf", 1), F("vio", 1), F("dir_c2h", 1),
      F("host_id", 4), F("pasid", 9)>>,
    <<P("pasid", 9, 13), F("pasid_en", 1), P("bs_addr", 2, 4),
      F("vio_eop", 1), F("sh_cmpt", 1)>>>>)

EqdmaCmptRead ==
  Words(<<
    <<F("en_stat_desc", 1), F("en_int", 1), F("trig_mode", 3), F("fnc_id", 8),
      Gap(4), F("counter_idx", 4), F("timer_idx", 4), F("in_st", 2),
      F("color", 1), F("ringsz_idx", 4)>>,
    <<P("bs_addr", 6, 32)>>,
    <<P("bs_addr", 38, 26), F("desc_sz", 2), F("pidx", 4)>>,
    <<P("pidx", 4, 12), F("cidx", 16), F("valid", 1), F("err", 2),
      F("user_trig_pend", 1)>>,
    <<F("timer_running", 1), F("full_upd", 1), F("ovf_chk_dis", 1),
      F("at", 1), F("vec", 11), F("int_aggr", 1),
      F("dis_intr_on_vf", 1), F("vio", 1), F("dir_c2h", 1),
      F("host_id", 4), F("pasid", 9)>>,
    <<P("pasid", 9, 13), F("pasid_en", 1), P("bs_addr", 2, 4),
      F("vio_eop", 1), F("sh_cmpt", 1)>>>>)

EqdmaIntrWrite ==
  Words(<<
    <<F("valid", 1), F("vec", 11), Gap(1), F("int_st", 1), F("color", 1),
      P("baddr_4k", 12, 17)>>,
    <<P("baddr_4k", 29, 32)>>,
    <<P("baddr_4k", 61, 3), F("page_size", 3), F("pidx", 12), F("at", 1),
      F("host_id", 4), F("pasid", 9)>>,
    <<P("pasid", 9, 13), F("pasid_en", 1), Gap(4), F("func_id", 12)>>>>)

\* The low part of pasid, nine bits wide, goes through a cast to uint8_t.
EqdmaIntrRead ==
  Words(<<
    <<F("valid", 1), F("vec", 11), Gap(1), F("int_st", 1), F("color", 1),
      P("baddr_4k", 12, 17)>>,
    <<P("baddr_4k", 29, 32)>>,
    <<P("baddr_4k", 61, 3), F("page_size", 3), F("pidx", 12), F("at", 1),
      F("host_id", 4), F("pasid", 8)>>,
    <<P("pasid", 9, 13), F("pasid_en", 1), Gap(4), F("func_id", 12)>>>>)

\* fetch_pnd is taken with the mask of dsc_pend.
EqdmaHwRead ==
  Words(<<
    <<F("cidx", 16), F("crd_use", 16)>>,
    <<Gap(8), F("dsc_pend", 1), F("idl_stp_b", 1), F("evt_pnd", 1)>>>>)
  \cup At(1, <<Gap(8), F("fetch_pnd", 1)>>)

EqdmaCreditRead ==
  Words(<<
    <<F("credit", 16)>>>>)

EqdmaSwFill ==
  <<"pidx", "irq_arm", "fnc_id", "qen", "frcd_en", "wbi_chk",
    "wbi_intvl_en", "at", "fetch_max", "rngsz_idx", "desc_sz", "bypass",
    "mm_chn", "wbk_en", "irq_en", "port_id", "irq_no_last", "err",
    "err_wb_sent", "irq_req", "mrkr_dis", "is_mm", "ring_bs_addr",
    "ring_bs_addr", "vec", "intr_aggr", "dis_intr_on_vf",
    "pack_byp_out", "irq_byp">>

EqdmaHwFill ==
  <<"cidx", "crd_use", "dsc_pend", "idl_stp_b", "evt_pnd", "fetch_pnd">>

EqdmaCreditFill ==
  <<"credit">>

EqdmaCmptFill ==
  <<"en_stat_desc", "en_int", "trig_mode", "fnc_id", "counter_idx",
    "timer_idx", "in_st", "color", "ringsz_idx", "bs_addr", "bs_addr",
    "desc_sz", "pidx", "cidx", "valid", "err", "user_trig_pend",
    "timer_running", "full_upd", "ovf_chk_dis", "at", "vec", "int_aggr",
    "dis_intr_on_vf", "dir_c2h", "bs_addr", "sh_cmpt">>

EqdmaPfetchFill ==
  <<"bypass", "bufsz_idx", "port_id", "var_desc", "num_pftch", "err",
    "pfch_en", "pfch", "sw_crdt", "valid">>

EqdmaIntrFill ==
  <<"valid", "vec", "int_st", "color", "baddr_4k", "baddr_4k", "page_size",
    "pidx", "at", "func_id">>

\* The number of labels in each table of the dump.
EqdmaLabels ==
  [sw |-> 29, hw |-> 6, credit |-> 1, cmpt |-> 27, pfetch |-> 10, intr
   |-> 10]

-----------------------------------------------------------------------------
(* QDMA soft IP *)

SoftHwFields ==
  Words(<<
    <<F("cidx", 16), F("crd_use", 16)>>,
    <<Gap(8), F("dsc_pend", 1), F("idl_stp_b", 1), F("evt_pnd", 1),
      F("fetch_pnd", 4)>>>>)

SoftCreditFields == Words(<<<<F("credit", 16)>>>>)

SoftSwWrite ==
  Words(<<
    <<F("pidx", 16), F("irq_arm", 1), F("fnc_id", 8)>>,
    <<F("qen", 1), F("frcd_en", 1), F("wbi_chk", 1), F("wbi_intvl_en", 1),
      F("at", 1), F("fetch_max", 3), Gap(4), F("rngsz_idx", 4),
      F("desc_sz", 2), F("bypass", 1), F("mm_chn", 1), F("wbk_en", 1),
      F("irq_en", 1), F("port_id", 3), F("irq_no_last", 1), F("err", 2),
      F("err_wb_sent", 1), F("irq_req", 1), F("mrkr_dis", 1),
      F("is_mm", 1)>>,
    <<F("ring_bs_addr", 32)>>,
    <<P("ring_bs_addr", 32, 32)>>,
    <<F("vec", 11), F("intr_aggr", 1)>>>>)

SoftSwRead ==
  Words(<<
    <<F("pidx", 16), F("irq_arm", 1), F("fnc_id", 8)>>,
    <<F("qen", 1), F("frcd_en", 1), F("wbi_chk", 1), F("wbi_intvl_en", 1),
      F("at", 1), F("fetch_max", 3), Gap(4), F("rngsz_idx", 4),
      F("desc_sz", 2), F("bypass", 1), F("mm_chn", 1), F("wbk_en", 1),
      F("irq_en", 1), F("port_id", 3), F("irq_no_last", 1), F("err", 2),
      F("err_wb_sent", 1), F("irq_req", 1), F("mrkr_dis", 1),
      F("is_mm", 1)>>,
    <<F("ring_bs_addr", 32)>>,
    <<P("ring_bs_addr", 32, 32)>>,
    <<F("vec", 11), F("intr_aggr", 1)>>>>)

SoftPfetchWrite ==
  Words(<<
    <<F("bypass", 1), F("bufsz_idx", 4), F("port_id", 3), Gap(18),
      F("err", 1), F("pfch_en", 1), F("pfch", 1), F("sw_crdt", 3)>>,
    <<P("sw_crdt", 3, 13), F("valid", 1)>>>>)

SoftPfetchRead ==
  Words(<<
    <<F("bypass", 1), F("bufsz_idx", 4), F("port_id", 3), Gap(18),
      F("err", 1), F("pfch_en", 1), F("pfch", 1), F("sw_crdt", 3)>>,
    <<P("sw_crdt", 3, 13), F("valid", 1)>>>>)

SoftCmptWrite ==
  Words(<<
    <<F("en_stat_desc", 1), F("en_int", 1), F("trig_mode", 3), F("fnc_id", 8),
      Gap(4), F("counter_idx", 4), F("timer_idx", 4), F("in_st", 2),
      F("color", 1), F("ringsz_idx", 4)>>,
    <<Gap(6), P("bs_addr", 12, 26)>>,
    <<P("bs_addr", 38, 26), F("desc_sz", 2), F("pidx", 4)>>,
    <<P("pidx", 4, 12), F("cidx", 16), F("valid", 1), F("err", 2),
      F("user_trig_pend", 1)>>,
    <<F("timer_running", 1), F("full_upd", 1), F("ovf_chk_dis", 1),
      F("at", 1), F("vec", 11), F("int_aggr", 1)>>>>)

SoftCmptRead ==
  Words(<<
    <<F("en_stat_desc", 1), F("en_int", 1), F("trig_mode", 3), F("fnc_id", 8),
      Gap(4), F("counter_idx", 4), F("timer_idx", 4), F("in_st", 2),
      F("color", 1), F("ringsz_idx", 4)>>,
    <<Gap(6), P("bs_addr", 12, 26)>>,
    <<P("bs_addr", 38, 26), F("desc_sz", 2), F("pidx", 4)>>,
    <<P("pidx", 4, 12), F("cidx", 16), F("valid", 1), F("err", 2),
      F("user_trig_pend", 1)>>,
    <<F("timer_running", 1), F("full_upd", 1), F("ovf_chk_dis", 1),
      F("at", 1), F("vec", 11), F("int_aggr", 1)>>>>)

SoftIntrWrite ==
  Words(<<
    <<F("valid", 1), F("vec", 11), Gap(1), F("int_st", 1), F("color", 1),
      P("baddr_4k", 12, 17)>>,
    <<P("baddr_4k", 29, 32)>>,
    <<P("baddr_4k", 61, 3), F("page_size", 3), F("pidx", 12), F("at", 1)>>>>)

SoftIntrRead ==
  Words(<<
    <<F("valid", 1), F("vec", 11), Gap(1), F("int_st", 1), F("color", 1),
      P("baddr_4k", 12, 17)>>,
    <<P("baddr_4k", 29, 32)>>,
    <<P("baddr_4k", 61, 3), F("page_size", 3), F("pidx", 12), F("at", 1)>>>>)

SoftFmapWrite ==
  Words(<<
    <<F("qbase", 11)>>,
    <<F("qmax", 12)>>>>)

SoftFmapRead ==
  Words(<<
    <<F("qbase", 11)>>,
    <<F("qmax", 12)>>>>)

SoftHwRead ==
  Words(<<
    <<F("cidx", 16), F("crd_use", 16)>>,
    <<Gap(8), F("dsc_pend", 1), F("idl_stp_b", 1), F("evt_pnd", 1),
      F("fetch_pnd", 4)>>>>)

SoftCreditRead ==
  Words(<<
    <<F("credit", 16)>>>>)

SoftSwFill ==
  <<"pidx", "irq_arm", "fnc_id", "qen", "frcd_en", "wbi_chk",
    "wbi_intvl_en", "at", "fetch_max", "rngsz_idx", "desc_sz", "bypass",
    "mm_chn", "wbk_en", "irq_en", "port_id", "irq_no_last", "err",
    "err_wb_sent", "irq_req", "mrkr_dis", "is_mm", "ring_bs_addr",
    "ring_bs_addr", "vec", "intr_aggr">>

SoftHwFill ==
  <<"cidx", "crd_use", "dsc_pend", "idl_stp_b", "evt_pnd", "fetch_pnd">>

SoftCreditFill ==
  <<"credit">>

SoftCmptFill ==
  <<"en_stat_desc", "en_int", "trig_mode", "fnc_id", "counter_idx",
    "timer_idx", "in_st", "color", "ringsz_idx", "bs_addr", "bs_addr",
    "desc_sz", "pidx", "cidx", "valid", "err", "user_trig_pend",
    "timer_running", "full_upd", "ovf_chk_dis", "at", "vec", "int_aggr">>

SoftPfetchFill ==
  <<"bypass", "bufsz_idx", "port_id", "err", "pfch_en", "pfch", "sw_crdt",
    "valid">>

SoftIntrFill ==
  <<"valid", "vec", "int_st", "color", "baddr_4k", "baddr_4k", "page_size",
    "pidx", "at">>

\* The number of labels in each table of the dump.
SoftLabels ==
  [sw |-> 26, hw |-> 6, credit |-> 1, cmpt |-> 23, pfetch |-> 8, intr |->
   9]

-----------------------------------------------------------------------------
(* Versal hard IP *)

S80HwFields ==
  Words(<<
    <<F("cidx", 16), F("crd_use", 16)>>,
    <<Gap(8), F("dsc_pend", 1), F("idl_stp_b", 1), F("fetch_pnd", 1)>>>>)

S80CreditFields == Words(<<<<F("credit", 16)>>>>)

S80SwWrite ==
  Words(<<
    <<F("pidx", 16), F("irq_arm", 1)>>,
    <<F("qen", 1), F("frcd_en", 1), F("wbi_chk", 1), F("wbi_intvl_en", 1),
      F("fnc_id", 8), F("rngsz_idx", 4), F("desc_sz", 2),
      F("bypass", 1), F("mm_chn", 1), F("wbk_en", 1), F("irq_en", 1),
      F("port_id", 3), F("irq_no_last", 1), F("err", 2),
      F("err_wb_sent", 1), F("irq_req", 1), F("mrkr_dis", 1),
      F("is_mm", 1)>>,
    <<F("ring_bs_addr", 32)>>,
    <<P("ring_bs_addr", 32, 32)>>>>)

\* vec and intr_aggr come from the vector map, see S80Qid2vec*Read.
S80SwRead ==
  Words(<<
    <<F("pidx", 16), F("irq_arm", 1)>>,
    <<F("qen", 1), F("frcd_en", 1), F("wbi_chk", 1), F("wbi_intvl_en", 1),
      F("fnc_id", 8), F("rngsz_idx", 4), F("desc_sz", 2),
      F("bypass", 1), F("mm_chn", 1), F("wbk_en", 1), F("irq_en", 1),
      F("port_id", 3), F("irq_no_last", 1), F("err", 2),
      F("err_wb_sent", 1), F("irq_req", 1), F("mrkr_dis", 1),
      F("is_mm", 1)>>,
    <<F("ring_bs_addr", 32)>>,
    <<P("ring_bs_addr", 32, 32)>>>>)

S80PfetchWrite ==
  Words(<<
    <<F("bypass", 1), F("bufsz_idx", 4), F("port_id", 3), Gap(18),
      F("err", 1), F("pfch_en", 1), F("pfch", 1), F("sw_crdt", 3)>>,
    <<P("sw_crdt", 3, 13), F("valid", 1)>>>>)

S80PfetchRead ==
  Words(<<
    <<F("bypass", 1), F("bufsz_idx", 4), F("port_id", 3), Gap(18),
      F("err", 1), F("pfch_en", 1), F("pfch", 1), F("sw_crdt", 3)>>,
    <<P("sw_crdt", 3, 13), F("valid", 1)>>>>)

S80CmptWrite ==
  Words(<<
    <<F("en_stat_desc", 1), F("en_int", 1), F("trig_mode", 3), F("fnc_id", 8),
      F("counter_idx", 4), F("timer_idx", 4), F("in_st", 2),
      F("color", 1), F("ringsz_idx", 4), P("bs_addr", 6, 4)>>,
    <<P("bs_addr", 10, 32)>>,
    <<P("bs_addr", 42, 22), F("desc_sz", 2), F("pidx", 8)>>,
    <<P("pidx", 8, 8), F("cidx", 16), F("valid", 1), F("err", 2),
      F("user_trig_pend", 1), F("timer_running", 1), F("full_upd", 1)>>>>)

S80CmptRead ==
  Words(<<
    <<F("en_stat_desc", 1), F("en_int", 1), F("trig_mode", 3), F("fnc_id", 8),
      F("counter_idx", 4), F("timer_idx", 4), F("in_st", 2),
      F("color", 1), F("ringsz_idx", 4), P("bs_addr", 6, 4)>>,
    <<P("bs_addr", 10, 32)>>,
    <<P("bs_addr", 42, 22), F("desc_sz", 2), F("pidx", 8)>>,
    <<P("pidx", 8, 8), F("cidx", 16), F("valid", 1), F("err", 2),
      F("user_trig_pend", 1), F("timer_running", 1), F("full_upd", 1)>>>>)

S80IntrWrite ==
  Words(<<
    <<F("valid", 1), F("vec", 5), Gap(1), F("int_st", 1), F("color", 1),
      P("baddr_4k", 12, 23)>>,
    <<P("baddr_4k", 35, 29), F("page_size", 3)>>,
    <<F("pidx", 12)>>>>)

S80IntrRead ==
  Words(<<
    <<F("valid", 1), F("vec", 5), Gap(1), F("int_st", 1), F("color", 1),
      P("baddr_4k", 12, 23)>>,
    <<P("baddr_4k", 35, 29), F("page_size", 3)>>,
    <<F("pidx", 12)>>>>)

S80Qid2vecC2hWrite ==
  Words(<<
    <<F("c2h_vector", 8), F("c2h_en_coal", 1)>>>>)

S80Qid2vecC2hRead ==
  Words(<<
    <<F("c2h_vector", 8), F("c2h_en_coal", 1)>>>>)

S80Qid2vecH2cWrite ==
  Words(<<
    <<Gap(9), F("h2c_vector", 8), F("h2c_en_coal", 1)>>>>)

S80Qid2vecH2cRead ==
  Words(<<
    <<Gap(9), F("h2c_vector", 8), F("h2c_en_coal", 1)>>>>)

S80HwRead ==
  Words(<<
    <<F("cidx", 16), F("crd_use", 16)>>,
    <<Gap(8), F("dsc_pend", 1), F("idl_stp_b", 1), F("fetch_pnd", 1)>>>>)

S80CreditRead ==
  Words(<<
    <<F("credit", 16)>>>>)

S80SwFill ==
  <<"pidx", "irq_arm", "qen", "frcd_en", "wbi_chk", "wbi_intvl_en",
    "fnc_id", "rngsz_idx", "desc_sz", "bypass", "mm_chn", "wbk_en",
    "irq_en", "port_id", "irq_no_last", "err", "err_wb_sent", "irq_req",
    "mrkr_dis", "is_mm", "ring_bs_addr", "ring_bs_addr">>

S80HwFill ==
  <<"cidx", "crd_use", "dsc_pend", "idl_stp_b", "evt_pnd", "fetch_pnd">>

S80CreditFill ==
  <<"credit">>

S80CmptFill ==
  <<"en_stat_desc", "en_int", "trig_mode", "fnc_id", "counter_idx",
    "timer_idx", "in_st", "color", "ringsz_idx", "bs_addr", "bs_addr",
    "desc_sz", "pidx", "cidx", "valid", "err", "user_trig_pend",
    "timer_running", "full_upd">>

S80PfetchFill ==
  <<"bypass", "bufsz_idx", "port_id", "err", "pfch_en", "pfch", "sw_crdt",
    "valid">>

S80Qid2vecFill ==
  <<"c2h_vector", "c2h_en_coal", "h2c_vector", "h2c_en_coal">>

S80IntrFill ==
  <<"valid", "vec", "int_st", "color", "baddr_4k", "baddr_4k", "page_size",
    "pidx">>

\* The number of labels in each table of the dump.
S80Labels ==
  [sw |-> 22, hw |-> 6, credit |-> 1, cmpt |-> 19, pfetch |-> 8, qid2vec
   |-> 4, intr |-> 8]

-----------------------------------------------------------------------------
(* The layouts together: where a field is written (for the read-only          *)
(* contexts, where the register description has it) and where it is read.     *)

Layouts ==
  [eqdma |-> [sw |-> <<EqdmaSwWrite, EqdmaSwRead>>,
              hw |-> <<EqdmaHwFields, EqdmaHwRead>>,
              credit |-> <<EqdmaCreditFields, EqdmaCreditRead>>,
              pfetch |-> <<EqdmaPfetchWrite, EqdmaPfetchRead>>,
              cmpt |-> <<EqdmaCmptWrite, EqdmaCmptRead>>,
              intr |-> <<EqdmaIntrWrite, EqdmaIntrRead>>,
              fmap |-> <<SoftFmapWrite, SoftFmapRead>>],
   soft  |-> [sw |-> <<SoftSwWrite, SoftSwRead>>,
              hw |-> <<SoftHwFields, SoftHwRead>>,
              credit |-> <<SoftCreditFields, SoftCreditRead>>,
              pfetch |-> <<SoftPfetchWrite, SoftPfetchRead>>,
              cmpt |-> <<SoftCmptWrite, SoftCmptRead>>,
              intr |-> <<SoftIntrWrite, SoftIntrRead>>,
              fmap |-> <<SoftFmapWrite, SoftFmapRead>>],
   s80   |-> [sw |-> <<S80SwWrite, S80SwRead>>,
              hw |-> <<S80HwFields, S80HwRead>>,
              credit |-> <<S80CreditFields, S80CreditRead>>,
              pfetch |-> <<S80PfetchWrite, S80PfetchRead>>,
              cmpt |-> <<S80CmptWrite, S80CmptRead>>,
              intr |-> <<S80IntrWrite, S80IntrRead>>,
              qid2vec |-> <<S80Qid2vecC2hWrite \cup S80Qid2vecH2cWrite,
                            S80Qid2vecC2hRead \cup S80Qid2vecH2cRead>>]]

\* Fields whose bits are not all read from where they are.
Misplaced ==
  [ip \in DOMAIN Layouts |-> [c \in DOMAIN Layouts[ip] |->
     LET l == Layouts[ip][c] IN
       {x[2] : x \in (l[1] \ l[2]) \cup (l[2] \ l[1])}]]

\* Contexts in which two fields share a register bit.
Overlapping ==
  [ip \in DOMAIN Layouts |->
     {c \in DOMAIN Layouts[ip] : \E x, y \in Layouts[ip][c][1] :
        x[1] = y[1] /\ x # y}]

-----------------------------------------------------------------------------
(* The dump: tables filled and tables printed, and the buffer they need.      *)

Fills ==
  [eqdma |-> [sw |-> EqdmaSwFill, hw |-> EqdmaHwFill,
              credit |-> EqdmaCreditFill, cmpt |-> EqdmaCmptFill,
              pfetch |-> EqdmaPfetchFill, intr |-> EqdmaIntrFill],
   soft  |-> [sw |-> SoftSwFill, hw |-> SoftHwFill,
              credit |-> SoftCreditFill, cmpt |-> SoftCmptFill,
              pfetch |-> SoftPfetchFill, intr |-> SoftIntrFill],
   s80   |-> [sw |-> S80SwFill, hw |-> S80HwFill,
              credit |-> S80CreditFill, cmpt |-> S80CmptFill,
              pfetch |-> S80PfetchFill, qid2vec |-> S80Qid2vecFill,
              intr |-> S80IntrFill]]

Labels == [eqdma |-> EqdmaLabels, soft |-> SoftLabels, s80 |-> S80Labels]

If(b, s) == IF b THEN s ELSE <<>>

\* The tables dump_xxx_context() prints, in order.
EqdmaQueueTables(t) == If(t # "cmpt", <<"sw", "hw", "credit">>)
EqdmaCmptTables(st, t) ==
  If(t = "cmpt" \/ (st /\ t = "c2h"), <<"cmpt">>)
    \o If(st /\ t = "c2h", <<"pfetch">>)
SoftQueueTables(t) == If(t # "cmpt", <<"sw", "hw", "credit">>)
SoftCmptTables(st, t) ==
  If(t = "cmpt" \/ (st /\ t = "c2h"), <<"cmpt">>)
    \o If(st /\ t = "c2h", <<"pfetch">>)
S80QueueTables(t) == <<"sw", "hw", "credit", "qid2vec">>
S80CmptTables(st, t) == If(st /\ t = "c2h", <<"cmpt", "pfetch">>)

Tables(ip, st, t) ==
  CASE ip = "eqdma" -> EqdmaQueueTables(t) \o EqdmaCmptTables(st, t)
    [] ip = "soft"  -> SoftQueueTables(t) \o SoftCmptTables(st, t)
    [] ip = "s80"   -> S80QueueTables(t) \o S80CmptTables(st, t)

REG_DUMP_SIZE_PER_LINE == 256
DEBGFS_LINE_SZ == 81
TitleLen == 196   \* a table's title between two rules
EntryLen == 70    \* the longest line "name value value"

SumOver(s, f) ==
  LET sum[i \in 0..Len(s)] == IF i = 0 THEN 0 ELSE sum[i - 1] + f[s[i]]
  IN  sum[Len(s)]

\* xxx_context_buf_len(): a line for each entry and one more for each table.
BufLen(labels, tables) ==
  SumOver(tables, [k \in DOMAIN labels |->
                     (labels[k] + 1) * REG_DUMP_SIZE_PER_LINE])

eqdma_context_buf_len(st, t) ==
  BufLen(EqdmaLabels, IF t = "cmpt" THEN <<"cmpt">>
                      ELSE <<"sw", "hw", "credit">>
                             \o If(st /\ t = "c2h", <<"cmpt", "pfetch">>))
qdma_soft_context_buf_len(st, t) ==
  BufLen(SoftLabels, IF t = "cmpt" THEN <<"cmpt">>
                     ELSE <<"sw", "hw", "credit">>
                            \o If(st /\ t = "c2h", <<"cmpt", "pfetch">>))
qdma_s80_hard_context_buf_len(st, t) ==
  BufLen(S80Labels, IF t = "cmpt" THEN <<"cmpt">>
                    ELSE <<"sw", "hw", "credit">>
                           \o If(st /\ t = "c2h", <<"cmpt", "pfetch">>))

qdma_acc_context_buf_len(ip, st, t) ==
  CASE ip = "eqdma" -> eqdma_context_buf_len(st, t)
    [] ip = "soft"  -> qdma_soft_context_buf_len(st, t)
    [] ip = "s80"   -> qdma_s80_hard_context_buf_len(st, t)

\* The room checks of dump_xxx_context() pass for every table and line in a
\* buffer of buflen bytes.
RoomFor(labels, tables, buflen) ==
  \A k \in 1..Len(tables) :
    LET before == SumOver(SubSeq(tables, 1, k - 1),
                    [x \in DOMAIN labels |-> TitleLen + labels[x] * EntryLen])
        entry(i) == before + TitleLen + (i - 1) * EntryLen
    IN  /\ before + 3 * DEBGFS_LINE_SZ < buflen
        /\ \A i \in 2..labels[tables[k]] : entry(i) + DEBGFS_LINE_SZ < buflen

\* Tables whose values do not fill exactly their labels.
Unequal ==
  [ip \in DOMAIN Fills |->
     {c \in DOMAIN Fills[ip] : Len(Fills[ip][c]) # Labels[ip][c]}]

\* Fields that are shown and were never read.
NeverRead ==
  [ip \in DOMAIN Fills |-> UNION {
     {Fills[ip][c][i] : i \in 1..Len(Fills[ip][c])}
       \ {x[2] : x \in Layouts[ip][c][2]} : c \in DOMAIN Fills[ip]}]

\* Dumps the code makes that do not fit the least buffer let through.
Truncated ==
  [ip \in DOMAIN Fills |->
     {d \in BOOLEAN \X {"h2c", "c2h", "cmpt"} :
        /\ d[2] = "cmpt" => ~d[1] /\ ip # "s80"
        /\ ~RoomFor(Labels[ip], Tables(ip, d[1], d[2]),
                    qdma_acc_context_buf_len(ip, d[1], d[2]))}]
=============================================================================
