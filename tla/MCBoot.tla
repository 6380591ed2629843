------------------------------- MODULE MCBoot -------------------------------
(* The steps of kernel.c:50-99 for TLC.                                    *)
EXTENDS Boot

Device == <<"dev_create", "ih_list">>
Task   == <<"task_create", "TASK_UNINTERRUPTABLE">>

KernelMain ==
  <<"init_memory_manager", "gdt_init", "idt_init", "pic_enable">>
    \o Device \o Device \o <<"initrd_init">>
    \o Task \o <<"TASK_RUNNING", "kmalloc ktasks">>
    \o Task \o <<"ktasks[DQ]", "TASK_RUNNING">>
    \o Task \o <<"TASK_RUNNING", "enable_int", "sched_yield">>
=============================================================================
