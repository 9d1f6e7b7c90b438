---------------------------- MODULE MCSupplierPage ----------------------------
EXTENDS SupplierPage
===============================================================================
