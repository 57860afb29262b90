-------------------------------- MODULE Forms --------------------------------
(***************************************************************************)
(* The dialogs and page forms of the front end as a table: the pages one   *)
(* is on, who is offered it, the requests it sends and what it asks for    *)
(* itself, how long what is typed in it lives, and what the server makes   *)
(* of the same request sent twice.  Wording, layout and the checks of      *)
(* single fields are left out.  The Point of Sale's own form is Checkout's *)
(* and the product and service forms are ItemEditor's; they are here for   *)
(* the requests they send.                                                 *)
(***************************************************************************)
EXTENDS TLC, FiniteSets

\* What the page knows of the one signed in decides what is offered (AuthProvider's
\* isAdmin and can).
Cond(admin, staff, keys) == [admin |-> admin, staff |-> staff, keys |-> keys]

Everyone == Cond(FALSE, FALSE, {})
IsAdmin == Cond(TRUE, FALSE, {})
IsStaff == Cond(FALSE, TRUE, {})
Can(key) == Cond(FALSE, FALSE, {key})

\* can: administrators always, staff who hold the key.
Offered(cond, who) ==
    /\ cond.admin => who.admin
    /\ cond.staff => ~who.admin
    /\ cond.keys = {} \/ who.admin \/ cond.keys \intersect who.keys # {}

Ask(hooks, cond) == [h \in hooks |-> cond]
AsksNothing == Ask({}, Everyone)

-----------------------------------------------------------------------------
\* How long the fields live.  "opened": emptied, or loaded from the row, whenever the
\* dialog opens.  "kept": they outlive the dialog and are emptied when a request
\* succeeds.  "mounted": they outlive the dialog and a success as well, until what shows
\* the dialog goes.  "manager": emptied when a request succeeds, the dialog staying open, and
\* when it closes.  "bare": there are none, the dialog asks to confirm.  "page": the
\* fields of a page, which a success leaves or empties.
\* What a second request with the same contents does: "same" (sets the same values
\* again), "refused" (a name taken, a thing already done), "again" (a second entry).
Form(on, when, sends, asks, fields, repeat) ==
    [on |-> on, when |-> when, sends |-> sends, asks |-> asks, fields |-> fields,
     repeat |-> repeat, rows |-> FALSE, follows |-> FALSE, eager |-> FALSE]

\* A form for a row of the page.
RowForm(on, when, sends, asks, fields, repeat) ==
    [Form(on, when, sends, asks, fields, repeat) EXCEPT !.rows = TRUE]

\* A form for whatever row a view shows: the row may change under it.
Following(form) == [form EXCEPT !.rows = TRUE, !.follows = TRUE]

\* The Enter key sends the form also while a request of it is under way.
Eager(form) == [form EXCEPT !.eager = TRUE]

-----------------------------------------------------------------------------
\* The till.
OpenSessionModal == Form({"CashPage"}, Everyone, {"useOpenCashSession"},
    Ask({"useSuggestedOpeningFloat"}, Everyone), "kept", "refused")
\* Mounted while the polled view shows a session, for whichever session that is.  Closing one
\* only closes the dialog.
CloseSessionModal == Following(Form({"CashPage"}, Everyone, {"useCloseCashSession"}, AsksNothing,
    "mounted", "refused"))
MovementModal == Following(Form({"CashPage"}, Everyone, {"useCashMovement"}, AsksNothing,
    "kept", "again"))

\* The bank and the cash held at the shop.
MoveMoneyModal == Form({"BankPage"}, IsAdmin, {"useTransferToBank", "useTransferToTill"}, AsksNothing,
    "opened", "again")
OpeningBalanceModal == Form({"BankPage"}, IsAdmin, {"useSetOpeningBalance"}, AsksNothing,
    "opened", "refused")
CorrectionModal == Form({"BankPage"}, IsAdmin, {"useBankCorrection"}, AsksNothing, "opened", "again")
HeldCashModal == Form({"BankPage"}, IsAdmin, {"useBankHeldCash", "useReturnHeldCashToTill"},
    AsksNothing, "opened", "again")
HandOpeningBalanceModal == Form({"BankPage"}, IsAdmin, {"useSetHandOpeningBalance"}, AsksNothing,
    "opened", "refused")
HandCorrectionModal == Form({"BankPage"}, IsAdmin, {"useHandCorrection"}, AsksNothing, "opened", "again")

\* Loans.
IssueLoanModal == Form({"LoansPage"}, IsAdmin, {"useIssueLoan"}, Ask({"useUsers"}, Everyone),
    "opened", "again")
RepayModal == RowForm({"LoansPage"}, IsAdmin, {"useRepayLoan"}, AsksNothing, "opened", "again")

\* useHeldCash: who is not an administrator is not asked about the held cash.
HeldCash == Ask({"useHandSummary"}, IsAdmin)

\* Expenses and their categories.
ExpenseFormModal == Form({"ExpensesPage"}, Everyone, {"useCreateExpense"},
    Ask({"useExpenseCategories"}, Everyone) @@ HeldCash, "opened", "again")
EditExpenseModal == RowForm({"ExpensesPage"}, Everyone, {"useUpdateExpense"},
    Ask({"useExpenseCategories"}, Everyone) @@ HeldCash, "opened", "same")
DeleteExpenseDialog == RowForm({"ExpensesPage"}, Everyone, {"useDeleteExpense"}, AsksNothing,
    "bare", "refused")
ExpenseCategoryManagerModal == Eager(Form({"ExpensesPage"}, IsAdmin,
    {"useCreateExpenseCategory", "useUpdateExpenseCategory", "useDeleteExpenseCategory"},
    Ask({"useExpenseCategories"}, Everyone), "manager", "refused"))

\* Office purchases and salaries.
CreateOfficePurchaseModal == Form({"OfficePurchasesPage"}, Can("officePurchases"),
    {"useCreateOfficePurchase"}, HeldCash, "opened", "again")
PayOfficePurchaseModal == RowForm({"OfficePurchasesPage", "OfficePurchaseDetailPage"},
    Can("officePurchases"), {"usePayOfficePurchase"}, HeldCash, "opened", "again")
SalaryFormModal == Form({"SalariesPage"}, IsAdmin, {"useCreateSalary"},
    Ask({"useSalaryPayees"}, Everyone) @@ HeldCash, "opened", "again")
EditSalaryModal == RowForm({"SalariesPage"}, IsAdmin, {"useUpdateSalary"},
    Ask({"useSalaryPayees"}, Everyone) @@ HeldCash, "opened", "same")
DeleteSalaryDialog == RowForm({"SalariesPage"}, IsAdmin, {"useDeleteExpense"}, AsksNothing,
    "bare", "refused")

\* Stock.
AdjustStockModal == Form({"InventoryPage"}, Can("inventory"), {"useAdjustStock"},
    Ask({"useProducts"}, Everyone), "opened", "again")
OpeningStockForm == Form({"OpeningStockPage"}, Can("inventory"), {"useRecordOpeningStock"},
    AsksNothing, "page", "refused")
WastageModal == Form({"PosPage"}, Everyone, {"useRecordWastage"},
    Ask({"useServices", "useProducts"}, Everyone), "opened", "again")

\* Sales.
CheckoutForm == Form({"PosPage"}, Everyone, {"useCreateSale"}, AsksNothing, "page", "again")
ReturnModal == RowForm({"SaleDetailPage"}, Everyone, {"useReturnSale"}, AsksNothing, "opened", "again")
VoidModal == RowForm({"SaleDetailPage"}, IsAdmin, {"useVoidSale"}, AsksNothing, "opened", "refused")

\* Purchases.
CreatePurchaseForm == Form({"CreatePurchasePage"}, Everyone, {"useCreatePurchase"}, AsksNothing,
    "page", "again")
UndoModal == RowForm({"PurchaseDetailPage"}, Can("purchases"), {"useVoidPurchase"}, AsksNothing,
    "opened", "refused")
ManageUnitsModal == Eager(Form({"PurchasesPage"}, Everyone,
    {"useCreateUnit", "useUpdateUnit", "useDeleteUnit"}, Ask({"useUnits"}, Everyone), "manager", "refused"))

\* Customers and suppliers.
CustomerFormModal == Form({"CustomersPage", "PosPage"}, Everyone, {"useCreateCustomer"}, AsksNothing,
    "opened", "again")
EditCustomerModal == RowForm({"CustomersPage", "CustomerDetailPage"}, Everyone, {"useUpdateCustomer"},
    AsksNothing, "opened", "same")
CustomerPaymentForm == RowForm({"CustomerDetailPage"}, Everyone, {"useRecordCustomerPayment"},
    AsksNothing, "page", "again")
SupplierFormModal == Form({"SuppliersPage"}, Everyone, {"useCreateSupplier"}, AsksNothing,
    "opened", "again")
EditSupplierModal == RowForm({"SuppliersPage", "SupplierDetailPage"}, Everyone, {"useUpdateSupplier"},
    AsksNothing, "opened", "same")
SupplierPaymentForm == RowForm({"SupplierDetailPage"}, Everyone, {"useRecordSupplierPayment"},
    AsksNothing, "page", "again")

\* The catalogue.
CategoryManagerModal == Eager(Form({"ProductsPage"}, Can("products"),
    {"useCreateCategory", "useUpdateCategory", "useDeleteCategory"},
    Ask({"useCategories"}, Everyone), "manager", "refused"))
NewCategoryField == Eager(Form({"ProductFormPage"}, Everyone, {"useCreateCategory"}, AsksNothing,
    "opened", "refused"))
ProductForm == Form({"ProductFormPage"}, Everyone, {"useCreateProduct", "useUpdateProduct",
    "useAddVariant", "useUpdateVariant", "useDeactivateVariant", "useRemoveVariant",
    "useUploadImage", "useUploadProductImage"}, AsksNothing, "page", "again")
ProductDialogs == RowForm({"ProductDetailPage"}, Can("products"),
    {"useUpdateProduct", "useDeleteProduct", "useRemoveProduct"}, AsksNothing, "bare", "refused")
ServiceForm == Form({"ServiceFormPage"}, Everyone, {"useCreateService", "useUpdateService",
    "useAddServiceVariant", "useUpdateServiceVariant", "useDeactivateServiceVariant"}, AsksNothing,
    "page", "refused")
ServiceDialogs == RowForm({"ServicesPage"}, Can("services"),
    {"useDeleteService", "useReactivateService", "useRemoveService"}, AsksNothing, "bare", "refused")

\* Users.
UserFormModal == Form({"UsersPage"}, Everyone, {"useCreateUser"}, AsksNothing, "opened", "refused")
EditUserModal == RowForm({"UsersPage", "UserDetailPage"}, Everyone, {"useUpdateUser"}, AsksNothing,
    "opened", "same")
PasswordModal == RowForm({"UsersPage", "UserDetailPage"}, Everyone, {"useSetUserPassword"},
    AsksNothing, "opened", "same")
UserDialogs == RowForm({"UsersPage", "UserDetailPage"}, Everyone,
    {"useToggleUserActive", "useDeleteUser"}, AsksNothing, "bare", "refused")

\* The settings page.
BusinessTab == Form({"SettingsPage"}, Can("settings"), {"useUpdateAppSettings"},
    Ask({"useAppSettings"}, Can("settings")), "page", "same")
OpeningStockSection == Form({"SettingsPage"}, Can("settings"), {"useUpdateAppSettings"},
    Ask({"useAppSettings"}, Can("settings")), "page", "same")
AutoBackupSection == Form({"SettingsPage"}, Can("settings"), {"useUpdateAppSettings", "useRunLocalBackup"},
    Ask({"useAppSettings"}, Can("settings")), "page", "same")
StartupSection == Form({"SettingsPage"}, Can("settings"), {"useSetStartup"},
    Ask({"useStartupStatus"}, Can("settings")), "page", "same")
BackupRestoreSection == Form({"SettingsPage"}, Can("settings"),
    {"useRestoreBackup", "useRestoreLocalBackup"}, Ask({"useBackupFiles"}, Can("settings")),
    "page", "same")

Forms == [
    OpenSessionModal |-> OpenSessionModal, CloseSessionModal |-> CloseSessionModal,
    MovementModal |-> MovementModal, MoveMoneyModal |-> MoveMoneyModal,
    OpeningBalanceModal |-> OpeningBalanceModal, CorrectionModal |-> CorrectionModal,
    HeldCashModal |-> HeldCashModal, HandOpeningBalanceModal |-> HandOpeningBalanceModal,
    HandCorrectionModal |-> HandCorrectionModal, IssueLoanModal |-> IssueLoanModal,
    RepayModal |-> RepayModal, ExpenseFormModal |-> ExpenseFormModal,
    EditExpenseModal |-> EditExpenseModal, DeleteExpenseDialog |-> DeleteExpenseDialog,
    ExpenseCategoryManagerModal |-> ExpenseCategoryManagerModal,
    CreateOfficePurchaseModal |-> CreateOfficePurchaseModal,
    PayOfficePurchaseModal |-> PayOfficePurchaseModal, SalaryFormModal |-> SalaryFormModal,
    EditSalaryModal |-> EditSalaryModal, DeleteSalaryDialog |-> DeleteSalaryDialog,
    AdjustStockModal |-> AdjustStockModal, OpeningStockForm |-> OpeningStockForm,
    WastageModal |-> WastageModal, CheckoutForm |-> CheckoutForm, ReturnModal |-> ReturnModal,
    VoidModal |-> VoidModal, CreatePurchaseForm |-> CreatePurchaseForm, UndoModal |-> UndoModal,
    ManageUnitsModal |-> ManageUnitsModal, CustomerFormModal |-> CustomerFormModal,
    EditCustomerModal |-> EditCustomerModal, CustomerPaymentForm |-> CustomerPaymentForm,
    SupplierFormModal |-> SupplierFormModal, EditSupplierModal |-> EditSupplierModal,
    SupplierPaymentForm |-> SupplierPaymentForm, CategoryManagerModal |-> CategoryManagerModal,
    NewCategoryField |-> NewCategoryField, ProductForm |-> ProductForm,
    ProductDialogs |-> ProductDialogs, ServiceForm |-> ServiceForm, ServiceDialogs |-> ServiceDialogs,
    UserFormModal |-> UserFormModal, EditUserModal |-> EditUserModal,
    PasswordModal |-> PasswordModal, UserDialogs |-> UserDialogs, BusinessTab |-> BusinessTab,
    OpeningStockSection |-> OpeningStockSection, AutoBackupSection |-> AutoBackupSection,
    StartupSection |-> StartupSection, BackupRestoreSection |-> BackupRestoreSection]
=============================================================================
